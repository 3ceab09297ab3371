---------------------------- MODULE Publishing -----------------------------
(***************************************************************************)
(* Publishing of media tracks: AddTrack, the pending tracks and the media  *)
(* that waits for them (pkg/rtc/participant_publisher.go), the published   *)
(* tracks (uptrackmanager.go), and a MediaTrack from its first receiver to *)
(* its close, with the subscriber added meanwhile (mediatrack.go,          *)
(* mediatrackreceiver.go).                                                 *)
(*                                                                         *)
(* The client publishes one track over and over under the same client id,  *)
(* each time with a request (AddTrack) and with media: media m is the m-th *)
(* remote track, handled by a goroutine of its own, and the MediaTrack it  *)
(* creates, if it creates one, is track m.  Requests and media may come in *)
(* either order.  Tracks have one codec, and a receiver forwards the media *)
(* that set it up; migrated tracks, which enter the same maps when the     *)
(* session starts, are left out, as are simulcast layers, track            *)
(* information and the supervisor.  A down track that its subscriber       *)
(* closes is left out too: it only leaves the table sooner.                *)
(***************************************************************************)
EXTENDS Naturals, Sequences, FiniteSets

CONSTANTS
  MaxRequests,  (* Bound: calls of AddTrack.                               *)
  MaxMedia      (* Bound: remote tracks the client sends.                  *)

ASSUME PublishingAssumption ==
  MaxRequests \in Nat \ {0} /\ MaxMedia \in Nat \ {0}

Sid == 1..MaxRequests   (* track ids                                       *)
Media == 1..MaxMedia    (* remote tracks, and the tracks they create       *)

(* Who closes a track: the receiver that media set up, the permission      *)
(* check of the media's onMediaTrack, SetPermission, UpTrackManager.Close. *)
Receiver(m) == <<"receiver", m>>
Check(m) == <<"check", m>>
Revoke == <<"revoke", 0>>
CloseAll == <<"close", 0>>
Closer == ({"receiver", "check"} \X Media) \cup {Revoke, CloseAll}
Handler(c) == c[1] = "receiver"

VARIABLES
  (* The client.                                                           *)
  scenario,  (* does it send media before its request is answered, and is  *)
             (* the permission revoked, the participant closed or media    *)
             (* refused?                                                   *)
  requests,  (* calls of AddTrack                                          *)
  granted,   (* TrackPublished responses it received                       *)
  fired,     (* remote tracks so far                                       *)
  ended,     (* remote tracks that ended                                   *)
  (* The participant.                                                      *)
  pendingTracks,        (* the track ids of the client id's entry          *)
  queued,               (* and its flag                                    *)
  pendingRemoteTracks,
  publishedTracks,      (* UpTrackManager: the track of each id, or 0      *)
  lock,                 (* the media that holds pendingTracksLock, or 0    *)
  canPublish,
  closing,              (* the progress of Close                           *)
  (* onMediaTrack by media: position and the track it found or made; the   *)
  (* media whose WebRTCReceiver forwards, and the media that had an error. *)
  pc, track, forwarding, faults,
  (* MediaTracks, and those whose subscriber's down track is flushed.      *)
  state, sid, receiver, onClose, subscribers, flushing, adding,
  closers    (* by track and closer: position of Close and the media that  *)
             (* handlePendingRemoteTracks runs before it goes on           *)

clientVars == <<scenario, requests, granted, fired, ended>>
pendingVars == <<pendingTracks, queued, pendingRemoteTracks>>
mediaVars == <<pc, track, forwarding, faults>>
trackVars == <<state, sid, receiver, onClose, subscribers, flushing>>
vars == <<clientVars, pendingVars, publishedTracks, lock, canPublish, closing,
          mediaVars, trackVars, adding, closers>>

(* Bound: a behaviour has one disturbance.  The client sends media before  *)
(* its request is answered ("early"), waits for the answer ("waits"), or   *)
(* publishes one track only, which has a subscriber ("single").            *)
Scenario ==
  {s \in [client : {"early", "waits", "single"},
          disturbance : {"revoke", "close", "fault"}] :
     ~(s.client = "early" /\ s.disturbance = "revoke")}

(* Positions of onMediaTrack and of whoever closes a track.                *)
Place == {"none", "received", "register", "attach", "setup", "permit", "waiting",
          "done"}
CloserAt == {"idle", "setClosing", "clear", "removeSubs", "mark", "unlist",
             "unqueue", "remove", "done"}
CloserPlace == [at : CloserAt, waits : SUBSET Media]
Idle == [at |-> "idle", waits |-> {}]

TypeOK ==
  /\ scenario \in Scenario /\ requests \in 0..MaxRequests
  /\ granted \in Nat
  /\ fired \in 0..MaxMedia /\ ended \subseteq Media
  /\ pendingTracks \in Seq(Sid) /\ queued \in BOOLEAN
  /\ pendingRemoteTracks \subseteq Media
  /\ publishedTracks \in [Sid -> 0..MaxMedia] /\ lock \in 0..MaxMedia
  /\ canPublish \in BOOLEAN
  /\ closing \in {"no", "pending", "tracks", "disconnected"}
  /\ pc \in [Media -> Place]
  /\ track \in [Media -> 0..MaxMedia]
  /\ forwarding \subseteq Media /\ faults \subseteq Media
  /\ state \in [Media -> {"none", "open", "closing", "closed"}]
  /\ sid \in [Media -> 0..MaxRequests]
  /\ receiver \in [Media -> 0..MaxMedia]
  /\ onClose \subseteq Media /\ subscribers \subseteq Media
  /\ flushing \subseteq Media
  /\ adding \in [Media -> {"idle", "checked", "added", "done"}]
  /\ closers \in [Media -> [Closer -> CloserPlace]]

Init ==
  /\ scenario \in Scenario /\ requests = 0 /\ granted = 0 /\ fired = 0 /\ ended = {}
  /\ pendingTracks = <<>> /\ queued = FALSE /\ pendingRemoteTracks = {}
  /\ publishedTracks = [i \in Sid |-> 0] /\ lock = 0
  /\ canPublish = TRUE /\ closing = "no"
  /\ pc = [m \in Media |-> "none"] /\ track = [m \in Media |-> 0]
  /\ forwarding = {} /\ faults = {}
  /\ state = [t \in Media |-> "none"] /\ sid = [t \in Media |-> 0]
  /\ receiver = [t \in Media |-> 0] /\ onClose = {} /\ subscribers = {}
  /\ flushing = {}
  /\ adding = [t \in Media |-> "idle"]
  /\ closers = [t \in Media |-> [c \in Closer |-> Idle]]

(* Mutant: a track that closes is passed over.                             *)
PublishedOpen ==
  {publishedTracks[i] : i \in {j \in Sid : publishedTracks[j] # 0
                                          /\ state[publishedTracks[j]] = "open"}}

(* GetPublishedTracks: all have the client id.                             *)
Published == {publishedTracks[i] : i \in Sid} \ {0}

-----------------------------------------------------------------------------
(* Requests.                                                               *)

(* handlePendingRemoteTracks: media that waits is handled once more.       *)
handlePendingRemoteTracks ==
  /\ pendingRemoteTracks' = {}
  /\ pc' = [m \in Media |->
              IF m \in pendingRemoteTracks THEN "received" ELSE pc[m]]

(* setTrackID: a request for a client id that is pending gets its track id. *)
setTrackID == IF pendingTracks = <<>> THEN requests + 1 ELSE Head(pendingTracks)

(* AddTrack and addPendingTrackLocked.  A request for a client id that is  *)
(* published or pending is queued behind it; another one is granted.       *)
IsTaken == Published # {} \/ pendingTracks # <<>>

AddTrack ==
  /\ requests < MaxRequests /\ closing # "disconnected" /\ canPublish /\ lock = 0
  /\ requests' = requests + 1
  /\ pendingTracks' = Append(pendingTracks, setTrackID)
  /\ \/ /\ IsTaken
        /\ queued' = (queued \/ pendingTracks = <<>>)
        /\ UNCHANGED <<granted, pendingRemoteTracks, pc>>
     \/ /\ ~IsTaken
        /\ queued' = FALSE
        /\ granted' = granted + 1
        /\ handlePendingRemoteTracks
  /\ UNCHANGED <<scenario, fired, ended, publishedTracks, lock, canPublish, closing,
                 track, forwarding, faults, trackVars, adding, closers>>

-----------------------------------------------------------------------------
(* Media (the client is external: it sends one remote track at a time, for *)
(* a request it made or, unless it is early, one that was granted).        *)

SendMedia ==
  /\ fired < MaxMedia /\ 1..fired \subseteq ended /\ closing # "disconnected"
  /\ fired < IF scenario.client = "early" THEN requests ELSE granted
  /\ scenario.client = "single" => fired = 0
  /\ fired' = fired + 1
  /\ pc' = [pc EXCEPT ![fired + 1] = "received"]
  /\ UNCHANGED <<scenario, requests, granted, ended, pendingVars, publishedTracks,
                 lock, canPublish, closing, track, forwarding, faults, trackVars,
                 adding, closers>>

(* The client stops a remote track.                                        *)
EndMedia(m) ==
  /\ m <= fired /\ m \notin ended
  /\ ended' = ended \cup {m}
  /\ UNCHANGED <<scenario, requests, granted, fired, pendingVars, publishedTracks,
                 lock, canPublish, closing, mediaVars, trackVars, adding, closers>>

(* mediaTrackReceived, first part, under pendingTracksLock.  The media     *)
(* joins a published track of its client id; or it waits; or it takes the  *)
(* first pending request and addMediaTrack makes a track of it, published  *)
(* before its callbacks are registered.                                    *)
Drop(m) ==
  /\ closing = "disconnected"
  /\ pc' = [pc EXCEPT ![m] = "done"]
  /\ UNCHANGED <<track, state, sid, publishedTracks, pendingVars, lock, faults>>

(* Errors of media, of which a behaviour has one at most (bound).          *)
Fails(m) ==
  /\ scenario.disturbance = "fault" /\ faults = {}
  /\ faults' = {m}

(* Media whose transceiver has no mid yet waits for the next call of       *)
(* handlePendingRemoteTracks.                                              *)
WaitForMid(m) ==
  /\ closing # "disconnected" /\ Fails(m)
  /\ pc' = [pc EXCEPT ![m] = "waiting"]
  /\ pendingRemoteTracks' = pendingRemoteTracks \cup {m}
  /\ UNCHANGED <<track, state, sid, publishedTracks, pendingTracks, queued, lock>>

JoinTrack(m) ==
  /\ closing # "disconnected"
  /\ \E t \in Published : track' = [track EXCEPT ![m] = t]
  /\ pc' = [pc EXCEPT ![m] = "attach"]
  /\ UNCHANGED <<state, sid, publishedTracks, pendingVars, lock, faults>>

IsQueued == pendingTracks = <<>> \/ queued

WaitForRequest(m) ==
  /\ closing # "disconnected" /\ Published = {} /\ IsQueued
  /\ pc' = [pc EXCEPT ![m] = "waiting"]
  /\ pendingRemoteTracks' = pendingRemoteTracks \cup {m}
  /\ UNCHANGED <<track, state, sid, publishedTracks, pendingTracks, queued, lock,
                 faults>>

addMediaTrack(m) ==
  LET id == Head(pendingTracks) IN
  /\ closing # "disconnected" /\ Published = {} /\ ~IsQueued
  /\ track' = [track EXCEPT ![m] = m]
  /\ state' = [state EXCEPT ![m] = "open"]
  /\ sid' = [sid EXCEPT ![m] = id]
  /\ publishedTracks' = [publishedTracks EXCEPT ![id] = m]
  /\ pendingTracks' = Tail(pendingTracks)
  /\ queued' = (Tail(pendingTracks) # <<>>)
  /\ pc' = [pc EXCEPT ![m] = "register"]
  /\ lock' = m
  /\ UNCHANGED <<pendingRemoteTracks, faults>>

mediaTrackReceived(m) ==
  /\ pc[m] = "received" /\ lock = 0
  /\ \/ Drop(m) \/ WaitForMid(m) \/ JoinTrack(m) \/ WaitForRequest(m)
     \/ addMediaTrack(m)
  /\ UNCHANGED <<clientVars, canPublish, closing, forwarding, receiver, onClose,
                 subscribers, flushing, adding, closers>>

(* AddOnClose of UpTrackManager and of the participant.                    *)
AddOnClose(m) ==
  /\ pc[m] = "register"
  /\ onClose' = onClose \cup {m}
  /\ lock' = 0
  /\ pc' = [pc EXCEPT ![m] = "attach"]
  /\ UNCHANGED <<clientVars, pendingVars, publishedTracks, canPublish, closing,
                 track, forwarding, faults, state, sid, receiver, subscribers,
                 flushing, adding, closers>>

(* MediaTrack.AddReceiver.  The buffers of media that ended are gone.      *)
GetBufferPair(m) ==
  /\ pc[m] = "attach"
  /\ pc' = [pc EXCEPT ![m] = IF m \in ended THEN "permit" ELSE "setup"]
  /\ UNCHANGED <<clientVars, pendingVars, publishedTracks, lock, canPublish,
                 closing, track, forwarding, faults, trackVars, adding, closers>>

(* Media of a layer or a codec the track does not have is refused.         *)
RefuseMedia(m) == Fails(m) /\ UNCHANGED <<receiver, forwarding>>

(* A receiver the track has is not given more media: its layer is taken.   *)
KeepReceiver(m) ==
  receiver[track[m]] # 0 /\ UNCHANGED <<receiver, forwarding, faults>>

(* Otherwise the media gets a receiver, which forwards until the buffer is *)
(* closed; a track that is not open does not take it.  A buffer that       *)
(* cannot be bound is closed.                                              *)
SetupReceiver(m) ==
  /\ receiver[track[m]] = 0
  /\ receiver' = IF state[track[m]] = "open"
                   THEN [receiver EXCEPT ![track[m]] = m] ELSE receiver
  /\ forwarding' = forwarding \cup {m}
  /\ Fails(m) \/ UNCHANGED faults

AddReceiver(m) ==
  /\ pc[m] = "setup"
  /\ RefuseMedia(m) \/ KeepReceiver(m) \/ SetupReceiver(m)
  /\ pc' = [pc EXCEPT ![m] = "permit"]
  /\ UNCHANGED <<clientVars, pendingVars, publishedTracks, lock, canPublish,
                 closing, track, state, sid, onClose, subscribers, flushing,
                 adding, closers>>

Begin(cs, t, c, at) == [cs EXCEPT ![t][c].at = at]

(* onMediaTrack, the rest: a track that may not be published is removed.   *)
checkPermission(m) ==
  /\ pc[m] = "permit"
  /\ closers' = IF canPublish THEN closers
                ELSE Begin(closers, track[m], Check(m), "setClosing")
  /\ pc' = [pc EXCEPT ![m] = "done"]
  /\ UNCHANGED <<clientVars, pendingVars, publishedTracks, lock, canPublish,
                 closing, track, forwarding, faults, trackVars, adding>>

-----------------------------------------------------------------------------
(* MediaTrack.Close, RemovePublishedTrack and the OnCloseHandler of a      *)
(* receiver, one critical section at a time.                               *)

At(t, c, at) == closers[t][c].at = at
Go(t, c, at) == closers' = Begin(closers, t, c, at)

(* Mutant: the receivers of a participant that is disconnected are ignored. *)
ReceiverClosesConnected(m) ==
  /\ closing # "disconnected"
  /\ m \in forwarding /\ m \in ended \cup faults
  /\ forwarding' = forwarding \ {m}
  /\ Go(track[m], Receiver(m), "setClosing")
  /\ UNCHANGED <<clientVars, pendingVars, publishedTracks, lock, canPublish,
                 closing, pc, track, faults, trackVars, adding>>

(* A receiver closes when the buffer of its media is closed: the media     *)
(* ended or could not be bound.                                            *)
ReceiverCloses(m) ==
  /\ m \in forwarding /\ m \in ended \cup faults
  /\ forwarding' = forwarding \ {m}
  /\ Go(track[m], Receiver(m), "setClosing")
  /\ UNCHANGED <<clientVars, pendingVars, publishedTracks, lock, canPublish,
                 closing, pc, track, faults, trackVars, adding>>

SetClosing(t, c) ==
  /\ At(t, c, "setClosing")
  /\ state' = [state EXCEPT ![t] = IF @ = "open" THEN "closing" ELSE @]
  /\ Go(t, c, "clear")
  /\ UNCHANGED <<clientVars, pendingVars, publishedTracks, lock, canPublish,
                 closing, mediaVars, sid, receiver, onClose, subscribers, flushing,
                 adding>>

(* ClearReceiver, of the handler of a receiver, and ClearAllReceivers: the *)
(* receiver is taken out, and then the subscribers of the codec are        *)
(* removed; ClearAllReceivers does it only for a receiver that it found.   *)
ClearReceiver(t, c) ==
  /\ At(t, c, "clear")
  /\ receiver' = [receiver EXCEPT ![t] = 0]
  /\ Go(t, c, IF Handler(c) \/ receiver[t] # 0 THEN "removeSubs" ELSE "mark")
  /\ UNCHANGED <<clientVars, pendingVars, publishedTracks, lock, canPublish,
                 closing, mediaVars, state, sid, onClose, subscribers, flushing,
                 adding>>

(* removeAllSubscribersForMime starts to close the down track of the       *)
(* subscriber that is in the table by now.                                 *)
removeAllSubscribersForMime(t, c) ==
  /\ At(t, c, "removeSubs")
  /\ flushing' = flushing \cup ({t} \cap subscribers)
  /\ Go(t, c, "mark")
  /\ UNCHANGED <<clientVars, pendingVars, publishedTracks, lock, canPublish,
                 closing, mediaVars, state, sid, receiver, onClose, subscribers,
                 adding>>

(* TryClose finds no receiver, as a track that closes takes none.  Close:  *)
(* whoever marks the track closed runs the callbacks that are registered   *)
(* by then; the others are done, or take it off the list.                  *)
AfterClose(c) == IF Handler(c) \/ c = CloseAll THEN "done" ELSE "remove"

MarkClosed(t, c) ==
  /\ At(t, c, "mark")
  /\ state' = [state EXCEPT ![t] = "closed"]
  /\ Go(t, c, IF state[t] # "closed" /\ t \in onClose THEN "unlist"
              ELSE AfterClose(c))
  /\ UNCHANGED <<clientVars, pendingVars, publishedTracks, lock, canPublish,
                 closing, mediaVars, sid, receiver, onClose, subscribers, flushing,
                 adding>>

(* Mutant: the track stays on the list.                                    *)
UnlistNothing(t, c) ==
  /\ At(t, c, "unlist")
  /\ Go(t, c, "unqueue")
  /\ UNCHANGED <<clientVars, pendingVars, publishedTracks, lock, canPublish,
                 closing, mediaVars, trackVars, adding>>

(* The callback of UpTrackManager.AddPublishedTrack deletes by track id.   *)
Unlist(t, c) ==
  /\ At(t, c, "unlist")
  /\ publishedTracks' = [publishedTracks EXCEPT ![sid[t]] = 0]
  /\ Go(t, c, "unqueue")
  /\ UNCHANGED <<clientVars, pendingVars, lock, canPublish, closing, mediaVars,
                 trackVars, adding>>

(* Mutant: the request that is granted stays queued.                       *)
UnqueueNothing(t, c) ==
  /\ At(t, c, "unqueue") /\ lock = 0
  /\ granted' = IF pendingTracks = <<>> THEN granted ELSE granted + 1
  /\ handlePendingRemoteTracks
  /\ closers' = [closers EXCEPT ![t][c] = [at |-> AfterClose(c), waits |-> {}]]
  /\ UNCHANGED <<scenario, requests, fired, ended, pendingTracks, queued,
                 publishedTracks, lock, canPublish, closing, track, forwarding,
                 faults, trackVars, adding>>

(* The callback of addMediaTrack grants the request that is queued, if     *)
(* any, and handles the media that waits before it returns.                *)
Unqueue(t, c) ==
  /\ At(t, c, "unqueue") /\ lock = 0
  /\ granted' = IF pendingTracks = <<>> THEN granted ELSE granted + 1
  /\ queued' = FALSE
  /\ handlePendingRemoteTracks
  /\ closers' = [closers EXCEPT ![t][c] =
                   [at |-> AfterClose(c),
                    waits |-> IF AfterClose(c) = "done" THEN {}
                              ELSE pendingRemoteTracks]]
  /\ UNCHANGED <<scenario, requests, fired, ended, pendingTracks, publishedTracks,
                 lock, canPublish, closing, track, forwarding, faults, trackVars,
                 adding>>

(* RemovePublishedTrack, after Close: delete by track id once more.        *)
RemovePublishedTrack(t, c) ==
  /\ At(t, c, "remove")
  /\ \A m \in closers[t][c].waits : pc[m] \in {"waiting", "done"}
  /\ publishedTracks' = [publishedTracks EXCEPT ![sid[t]] = 0]
  /\ closers' = [closers EXCEPT ![t][c] = [at |-> "done", waits |-> {}]]
  /\ UNCHANGED <<clientVars, pendingVars, lock, canPublish, closing, mediaVars,
                 trackVars, adding>>

CloseStep(t, c) ==
  \/ SetClosing(t, c) \/ ClearReceiver(t, c) \/ removeAllSubscribersForMime(t, c)
  \/ MarkClosed(t, c) \/ Unlist(t, c) \/ Unqueue(t, c)
  \/ RemovePublishedTrack(t, c)

-----------------------------------------------------------------------------
(* AddSubscriber of MediaTrackReceiver: the track is checked, the          *)
(* subscriber added, and the track checked again.  Bound: one subscriber.  *)

CheckOpen(t) ==
  /\ scenario.client = "single" /\ adding[t] = "idle"
  /\ state[t] = "open" /\ receiver[t] # 0
  /\ adding' = [adding EXCEPT ![t] = "checked"]
  /\ UNCHANGED <<clientVars, pendingVars, publishedTracks, lock, canPublish,
                 closing, mediaVars, trackVars, closers>>

InsertSubscriber(t) ==
  /\ adding[t] = "checked"
  /\ subscribers' = subscribers \cup {t}
  /\ adding' = [adding EXCEPT ![t] = "added"]
  /\ UNCHANGED <<clientVars, pendingVars, publishedTracks, lock, canPublish,
                 closing, mediaVars, state, sid, receiver, onClose, flushing,
                 closers>>

(* Mutant: the track is not checked again.                                 *)
CheckNothing(t) ==
  /\ adding[t] = "added"
  /\ adding' = [adding EXCEPT ![t] = "done"]
  /\ UNCHANGED <<clientVars, pendingVars, publishedTracks, lock, canPublish,
                 closing, mediaVars, trackVars, closers>>

CheckStillOpen(t) ==
  /\ adding[t] = "added"
  /\ flushing' = IF state[t] = "open" THEN flushing
                 ELSE flushing \cup ({t} \cap subscribers)
  /\ adding' = [adding EXCEPT ![t] = "done"]
  /\ UNCHANGED <<clientVars, pendingVars, publishedTracks, lock, canPublish,
                 closing, mediaVars, state, sid, receiver, onClose, subscribers,
                 closers>>

AddSubscriber(t) == CheckOpen(t) \/ InsertSubscriber(t) \/ CheckStillOpen(t)

(* Mutant: a down track whose receiver is gone stays in the table.         *)
CloseWithFlushAttached(t) ==
  /\ t \in flushing /\ receiver[t] # 0
  /\ flushing' = flushing \ {t}
  /\ subscribers' = subscribers \ {t}
  /\ UNCHANGED <<clientVars, pendingVars, publishedTracks, lock, canPublish,
                 closing, mediaVars, state, sid, receiver, onClose, adding, closers>>

(* The down track is closed once it is flushed, in a goroutine of its own, *)
(* and takes the subscriber out of the table.                              *)
CloseWithFlush(t) ==
  /\ t \in flushing
  /\ flushing' = flushing \ {t}
  /\ subscribers' = subscribers \ {t}
  /\ UNCHANGED <<clientVars, pendingVars, publishedTracks, lock, canPublish,
                 closing, mediaVars, state, sid, receiver, onClose, adding, closers>>

-----------------------------------------------------------------------------
(* SetPermission: the permission to publish is revoked, for good, and the  *)
(* tracks on the list are removed.                                         *)
SetPermission ==
  /\ scenario.disturbance = "revoke"
  /\ canPublish /\ closing = "no"
  /\ canPublish' = FALSE
  /\ closers' = [t \in Media |->
       IF t \in Published THEN [closers[t] EXCEPT ![Revoke].at = "setClosing"]
                          ELSE closers[t]]
  /\ UNCHANGED <<clientVars, pendingVars, publishedTracks, lock, closing,
                 mediaVars, trackVars, adding>>

(* ParticipantImpl.Close: the requests are dropped, the published tracks   *)
(* closed, the state changed, and then the transports closed, which ends   *)
(* the remote tracks.                                                      *)
ClearPending ==
  /\ scenario.disturbance = "close"
  /\ closing = "no" /\ lock = 0
  /\ closing' = "pending"
  /\ pendingTracks' = <<>> /\ queued' = FALSE
  /\ UNCHANGED <<clientVars, pendingRemoteTracks, publishedTracks, lock,
                 canPublish, mediaVars, trackVars, adding, closers>>

(* UpTrackManager.Close.                                                   *)
CloseTracks ==
  /\ closing = "pending"
  /\ closing' = "tracks"
  /\ publishedTracks' = [i \in Sid |-> 0]
  /\ closers' = [t \in Media |->
       IF t \in Published THEN [closers[t] EXCEPT ![CloseAll].at = "setClosing"]
                          ELSE closers[t]]
  /\ UNCHANGED <<clientVars, pendingVars, lock, canPublish, mediaVars, trackVars,
                 adding>>

Disconnect ==
  /\ closing = "tracks"
  /\ \A t \in Media : closers[t][CloseAll].at \in {"idle", "done"}
  /\ closing' = "disconnected"
  /\ UNCHANGED <<clientVars, pendingVars, publishedTracks, lock, canPublish,
                 mediaVars, trackVars, adding, closers>>

CloseTransport(m) == closing = "disconnected" /\ EndMedia(m)

Close == ClearPending \/ CloseTracks \/ Disconnect

-----------------------------------------------------------------------------

MediaStep(m) ==
  \/ mediaTrackReceived(m) \/ AddOnClose(m) \/ GetBufferPair(m) \/ AddReceiver(m)
  \/ checkPermission(m) \/ ReceiverCloses(m)

TrackStep(t) == CloseWithFlush(t) \/ \E c \in Closer : CloseStep(t, c)

Next ==
  \/ AddTrack \/ SendMedia
  \/ \E m \in Media : EndMedia(m) \/ MediaStep(m)
  \/ \E t \in Media : TrackStep(t) \/ AddSubscriber(t)
  \/ SetPermission \/ Close

(* Goroutines run; a Close that began ends, and the transports it closes   *)
(* end the remote tracks.  What the client does is its own affair.         *)
Fairness ==
  /\ \A m \in Media : WF_vars(MediaStep(m)) /\ WF_vars(CloseTransport(m))
  /\ \A t \in Media : WF_vars(TrackStep(t)) /\ WF_vars(AddSubscriber(t))
  /\ WF_vars(CloseTracks \/ Disconnect)

Spec == Init /\ [][Next]_vars /\ Fairness

-----------------------------------------------------------------------------
(* Properties.                                                             *)

(* A track of the client id is published only after the one before it is   *)
(* closed (what the queued flag is for), whatever the order of requests,   *)
(* media and closers, as long as the participant may publish and is not    *)
(* closing.  Once the permission is revoked it need not hold: a removal    *)
(* deletes by a track id that a later request shares.                      *)
TracksDoNotOverlap ==
  closing = "no" /\ canPublish =>
    \A s, t \in Media : s # t /\ {state[s], state[t]} \subseteq {"open", "closing"}
                         => FALSE

(* A subscriber of a closed track is on its way out: its down track is     *)
(* flushed, or the closer that took the receiver out, or AddSubscriber,    *)
(* has yet to remove it; also when another closer marks the track closed   *)
(* in between.                                                             *)
ClosedTrackIsLeft ==
  \A t \in Media :
    state[t] = "closed" /\ t \in subscribers =>
      \/ t \in flushing \/ adding[t] = "added"
      \/ \E c \in Closer : At(t, c, "removeSubs")

(* In the end a closed track has no subscriber, for good.                  *)
ClosedTrackEmpties ==
  \A t \in Media : state[t] = "closed" ~> [](t \notin subscribers)

(* A request is not left queued behind a track that is gone.               *)
QueueMovesOn ==
  (queued /\ \A t \in Media : state[t] \in {"none", "closed"})
    ~> (~queued \/ ~canPublish \/ closing # "no")

(* Media of a client that waits for its request to be granted gets into a  *)
(* track, unless it ends, has an error, is not permitted or the            *)
(* participant closes.                                                     *)
Reached(m) ==
  \/ track[m] # 0 /\ receiver[track[m]] = m
  \/ m \in ended \cup faults \/ ~canPublish \/ closing # "no"

GrantedMediaIsPublished ==
  \A m \in Media : (scenario.client # "early" /\ m <= fired) ~> Reached(m)

(* The same of every client: "client is allowed to negotiate webrtc track  *)
(* before AddTrackRequest return".                                         *)
MediaIsPublished == \A m \in Media : m <= fired ~> Reached(m)

(* AddReceiver gave the media that made the track no receiver.             *)
Unserved(t) ==
  /\ pc[t] \in {"permit", "done"} /\ t \notin forwarding
  /\ closers[t][Receiver(t)].at = "idle"

(* When the permission to publish is revoked every track is closed in the  *)
(* end, by SetPermission or by the check of the media that published it    *)
(* meanwhile; and when the participant closes, also one that was published *)
(* while Close was running, as its receiver ends with the transports.  But *)
(* nobody closes a track whose media had no buffers any more by then.      *)
TracksAreClosed ==
  \A t \in Media :
    (~canPublish \/ closing # "no") /\ state[t] # "none"
      ~> (state[t] = "closed" \/ (closing # "no" /\ Unserved(t)))

=============================================================================
