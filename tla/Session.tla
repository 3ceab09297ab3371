------------------------------ MODULE Session ------------------------------
(***************************************************************************)
(* The life of a participant's sessions: RoomManager.StartSession and the  *)
(* session worker (pkg/service/roommanager.go), the room allocator, the    *)
(* Room that sessions join and leave (pkg/rtc/room.go), the state and      *)
(* Close of ParticipantImpl (pkg/rtc/participant.go).                      *)
(*                                                                         *)
(* One room name and one identity.  Each call of StartSession is a process *)
(* and brings a signal connection, named like the call; the session it     *)
(* creates, if it creates one, has its name too.  The other participants   *)
(* of the room only show as a room that may be full (MaxParticipants).     *)
(* The identity-less call, which only creates the room, is a call that     *)
(* stops once it has the room.                                             *)
(*                                                                         *)
(* The records that rooms and participants have in the store, their topics *)
(* on the message bus, and the responses sent to the client are left out:  *)
(* what they can do here is fail.                                          *)
(***************************************************************************)
EXTENDS Naturals, Integers, FiniteSets, FiniteSetsExt

CONSTANTS
  MaxCalls,  (* Bound: calls of StartSession.                              *)
  MaxRooms,  (* Bound: room objects created for the name.                  *)
  MaxEvents  (* Bound: faults, and requests that remove or close.          *)

ASSUME SessionAssumption ==
  MaxCalls \in Nat /\ MaxRooms \in Nat \ {0} /\ MaxEvents \in Nat

Call == 1..MaxCalls   (* calls, their connections and their sessions       *)
RoomId == 1..MaxRooms

VARIABLES
  (* StartSession, by call.                                                *)
  pc, reconnect, room, seen, found,
  (* RoomManager and the store.                                            *)
  rooms,          (* r.rooms[roomName]: a room object, or 0                *)
  created,        (* room objects created so far                           *)
  janitor,        (* room CloseIfEmpty is about to close, or 0             *)
  (* Room objects.                                                         *)
  roomState,      (* "open", then the progress of Close                    *)
  leaving,        (* the participant Close found in the room, or 0         *)
  holds,
  participants,   (* the session of the identity in the room, or 0         *)
  requestSources, (* its connection, or 0                                  *)
  (* Sessions.                                                             *)
  state,          (* ParticipantInfo_State; "NONE" before NewParticipant   *)
  isClosed,       (* sessions whose Close has begun                        *)
  closer,         (* who runs it: a call, a room's Close, or 0 for others  *)
  listening,      (* sessions whose listener is not cleared                *)
  callbacks,      (* OnStateChange goroutines about to run                 *)
  removing,       (* sessions RemoveParticipant took out of the room       *)
  connected,      (* sessions one of whose transports has connected        *)
  (* Connections.                                                          *)
  sourceClosed,   (* request sources that are closed                       *)
  worker,         (* rtcSessionWorker by connection: position and session  *)
  events          (* faults and requests so far                            *)

callVars == <<pc, reconnect, room, seen, found>>
roomVars == <<roomState, leaving, holds, participants, requestSources>>
closeVars == <<isClosed, closer>>
sessionVars == <<state, closeVars, listening, callbacks, removing,
                 connected>>
connVars == <<sourceClosed, worker>>
vars == <<callVars, rooms, created, janitor, roomVars, sessionVars,
          connVars, events>>

NoWorker == [at |-> "none", session |-> 0]
Ended == [at |-> "ended", session |-> 0]

TypeOK ==
  /\ pc \in [Call -> {"idle", "insert", "holdNew", "room",
                      "remove", "evict", "new", "failed", "joined", "resume",
                      "done"}]
  /\ reconnect \in [Call -> BOOLEAN]
  /\ room \in [Call -> 0..MaxRooms] /\ seen \in [Call -> 0..MaxRooms]
  /\ found \in [Call -> 0..MaxCalls]
  /\ rooms \in 0..MaxRooms /\ created \in 0..MaxRooms
  /\ janitor \in 0..MaxRooms
  /\ roomState \in [RoomId -> {"none", "open", "closed", "closing", "deleted"}]
  /\ leaving \in [RoomId -> 0..MaxCalls]
  /\ holds \in [RoomId -> -1..MaxCalls]
  /\ participants \in [RoomId -> 0..MaxCalls]
  /\ requestSources \in [RoomId -> 0..MaxCalls]
  /\ state \in [Call -> {"NONE", "JOINING", "JOINED", "ACTIVE", "DISCONNECTED"}]
  /\ isClosed \subseteq Call /\ closer \in [Call -> 0..(MaxCalls + MaxRooms)]
  /\ listening \subseteq Call /\ callbacks \subseteq Call
  /\ removing \subseteq Call
  /\ connected \subseteq Call
  /\ sourceClosed \subseteq Call
  /\ worker \in [Call -> [at : {"none", "running", "lost", "ended"},
                          session : 0..MaxCalls]]
  /\ events \in 0..MaxEvents

Init ==
  /\ pc = [c \in Call |-> "idle"]
  /\ reconnect = [c \in Call |-> FALSE]
  /\ room = [c \in Call |-> 0] /\ seen = [c \in Call |-> 0]
  /\ found = [c \in Call |-> 0]
  /\ rooms = 0 /\ created = 0
  /\ janitor = 0
  /\ roomState = [r \in RoomId |-> "none"]
  /\ leaving = [r \in RoomId |-> 0]
  /\ holds = [r \in RoomId |-> 0]
  /\ participants = [r \in RoomId |-> 0]
  /\ requestSources = [r \in RoomId |-> 0]
  /\ state = [s \in Call |-> "NONE"]
  /\ isClosed = {} /\ closer = [s \in Call |-> 0]
  /\ listening = {} /\ callbacks = {}
  /\ removing = {} /\ connected = {} /\ sourceClosed = {}
  /\ worker = [c \in Call |-> NoWorker]
  /\ events = 0

Goto(c, at) == pc' = [pc EXCEPT ![c] = at]

(* Room.IsClosed.                                                          *)
IsClosed(r) == roomState[r] # "open"

(* Does the name have an open room?                                        *)
HasRoom == IF rooms = 0 THEN FALSE ELSE ~IsClosed(rooms)

-----------------------------------------------------------------------------
(* getOrCreateRoom.                                                        *)

(* Room.Hold keeps the room from being closed as idle, unless it is closed
   already.                                                                *)
Hold(r) == holds' = [holds EXCEPT ![r] = IF IsClosed(r) THEN @ ELSE @ + 1]

(* The room of the name is looked up and held, if it is open ...           *)
FindRoom(c, again) ==
  /\ pc[c] = "idle" /\ HasRoom
  /\ reconnect' = [reconnect EXCEPT ![c] = again]
  /\ Hold(rooms)
  /\ room' = [room EXCEPT ![c] = rooms]
  /\ Goto(c, "room")
  /\ UNCHANGED <<seen, found, rooms, created, janitor, roomState, leaving,
                 participants, requestSources, sessionVars, connVars>>

(* ... or else put into the store by StandardRoomAllocator.CreateRoom, which
   may fail, as may the registration of the new room's topics.             *)
CreateRoom(c, again, fails) ==
  /\ pc[c] = "idle" /\ ~HasRoom
  /\ reconnect' = [reconnect EXCEPT ![c] = again /\ ~fails]
  /\ seen' = [seen EXCEPT ![c] = IF fails THEN 0 ELSE rooms]
  /\ Goto(c, IF fails THEN "done" ELSE "insert")
  /\ UNCHANGED <<room, found, rooms, created, janitor, roomVars, sessionVars,
                 connVars>>

(* The loop that looks for a room someone else has put there since.        *)
FindOther(c) ==
  /\ pc[c] = "insert" /\ rooms # seen[c]
  /\ seen' = [seen EXCEPT ![c] = rooms]
  /\ IF HasRoom
     THEN Hold(rooms) /\ room' = [room EXCEPT ![c] = rooms] /\ Goto(c, "room")
     ELSE UNCHANGED <<holds, room, pc>>
  /\ UNCHANGED <<reconnect, found, rooms, created, janitor, roomState,
                 leaving, participants, requestSources, sessionVars, connVars>>

(* NewRoom, under the manager's lock.  A closed room whose entry is still
   there is overwritten.                                                   *)
InsertRoom(c) ==
  /\ pc[c] = "insert" /\ rooms = seen[c] /\ created < MaxRooms
  /\ created' = created + 1 /\ rooms' = created + 1
  /\ roomState' = [roomState EXCEPT ![created + 1] = "open"]
  /\ room' = [room EXCEPT ![c] = created + 1]
  /\ Goto(c, "holdNew")
  /\ UNCHANGED <<reconnect, seen, found, janitor, leaving, holds, participants,
                 requestSources, sessionVars, connVars>>

(* newRoom.Hold(), its answer ignored.  The egress of a room that asks for
   one may fail to start.                                                  *)
HoldNew(c, egressFails) ==
  /\ pc[c] = "holdNew"
  /\ IF egressFails THEN holds' = [holds EXCEPT ![room[c]] =
                                     IF IsClosed(room[c]) THEN @ - 1 ELSE @]
                    ELSE Hold(room[c])
  /\ Goto(c, IF egressFails THEN "done" ELSE "room")
  /\ UNCHANGED <<reconnect, room, seen, found, rooms, created, janitor,
                 roomState, leaving, participants, requestSources,
                 sessionVars, connVars>>

-----------------------------------------------------------------------------
(* Taking a session out of its room, and closing it.                       *)

(* Mutant: the session's id is not compared.                               *)
RemoveParticipantAnyone(r, s) ==
  IF participants[r] # 0
  THEN /\ participants' = [participants EXCEPT ![r] = 0]
       /\ requestSources' = [requestSources EXCEPT ![r] = 0]
       /\ removing' = removing \cup {participants[r]}
  ELSE UNCHANGED <<participants, requestSources, removing>>

(* The critical section of Room.RemoveParticipant: only the session it was
   called for is taken out.                                                *)
RemoveParticipant(r, s) ==
  IF participants[r] = s
  THEN /\ participants' = [participants EXCEPT ![r] = 0]
       /\ requestSources' = [requestSources EXCEPT ![r] = 0]
       /\ removing' = removing \cup {s}
  ELSE UNCHANGED <<participants, requestSources, removing>>

(* Close returns at once when it has run or is running.                    *)
Close(s, by) ==
  /\ isClosed' = isClosed \cup {s}
  /\ closer' = IF s \in isClosed THEN closer ELSE [closer EXCEPT ![s] = by]

(* Mutant: only sessions that were active are announced as gone.           *)
updateStateQuietly(s, to) ==
  /\ state' = [state EXCEPT ![s] = to]
  /\ callbacks' = IF s \in listening /\ (to = "ACTIVE" \/ state[s] = "ACTIVE")
                  THEN callbacks \cup {s} ELSE callbacks

(* updateState announces the change through the listener of the moment.    *)
updateState(s, to) ==
  /\ state' = [state EXCEPT ![s] = to]
  /\ callbacks' = IF s \in listening THEN callbacks \cup {s} ELSE callbacks

(* The rest of Close, once isClosed is set.                                *)
Disconnect(s) ==
  /\ s \in isClosed /\ state[s] # "DISCONNECTED"
  /\ updateState(s, "DISCONNECTED")
  /\ closer' = [closer EXCEPT ![s] = 0]
  /\ UNCHANGED <<callVars, rooms, created, janitor, roomVars, isClosed,
                 listening, removing, connected, connVars>>

(* Has the Close of s returned to the one who called it as by?             *)
CloseReturned(s, by) ==
  /\ s \in isClosed
  /\ closer[s] = by => state[s] = "DISCONNECTED"

(* The end of RemoveParticipant: the listener is cleared first.            *)
CloseRemoved(s, by) ==
  /\ s \in removing
  /\ removing' = removing \ {s}
  /\ listening' = listening \ {s}
  /\ Close(s, by)
  /\ UNCHANGED <<callVars, rooms, created, janitor, roomVars, state,
                 callbacks, connected, connVars>>

(* OnStateChange, on a goroutine of its own, looks at the state the session
   has by then.                                                            *)
StateChanged(s) ==
  /\ s \in callbacks
  /\ callbacks' = callbacks \ {s}
  /\ IF state[s] = "DISCONNECTED"
     THEN RemoveParticipant(room[s], s)
     ELSE UNCHANGED <<participants, requestSources, removing>>
  /\ UNCHANGED <<callVars, rooms, created, janitor, roomState, leaving,
                 holds, state, closeVars, listening, connected,
                 connVars>>

(* RemoveParticipant called from elsewhere, about session s of room r.     *)
RemoveFrom(r, s) ==
  /\ RemoveParticipant(r, s)
  /\ UNCHANGED <<callVars, rooms, created, janitor, roomState, leaving,
                 holds, state, closeVars, listening, callbacks, connected,
                 connVars>>

(* Verify: is the session past joining?                                    *)
Verify(s) == state[s] \notin {"JOINING", "JOINED"}

(* The timer Join starts fires: a session that is not active by then is
   removed.  That it fires once needs no variable: it has no effect on a
   session that is active or out of the room, and neither is undone.       *)
JoinTimeout(s) ==
  /\ pc[s] \in {"joined", "failed", "done"} /\ ~Verify(s)
  /\ RemoveFrom(room[s], s)

(* The client's Leave request, on the session worker of connection c.      *)
Leave(c) ==
  /\ worker[c].at = "running" /\ worker[c].session \in listening
  /\ RemoveFrom(room[worker[c].session], worker[c].session)

(* The service's RemoveParticipant, for whoever has the identity.          *)
RemoveRequest ==
  /\ rooms # 0 /\ participants[rooms] # 0
  /\ RemoveFrom(rooms, participants[rooms])

(* Everything else that closes a session: the disconnect timer after a
   transport failed, a full reconnect after a failed negotiation, a
   publication, subscription or data channel error.                        *)
Fault(s) ==
  /\ state[s] \in {"JOINED", "ACTIVE"} /\ s \notin isClosed
  /\ Close(s, 0)
  /\ UNCHANGED <<callVars, rooms, created, janitor, roomVars, state,
                 listening, callbacks, removing, connected, connVars>>

(* A transport of the session connects for the first time: HasConnected from
   then on.  (A session that is closed is not asked any more.)             *)
setConnectedAt(s) ==
  /\ state[s] = "JOINED" /\ s \notin connected \cup isClosed
  /\ connected' = connected \cup {s}
  /\ UNCHANGED <<callVars, rooms, created, janitor, roomVars, state, closeVars,
                 listening, callbacks, removing, connVars>>

(* The primary one does, and its handler is done.                          *)
TransportConnected(s) ==
  /\ state[s] = "JOINED"
  /\ connected' = connected \cup {s}
  /\ updateState(s, "ACTIVE")
  /\ UNCHANGED <<callVars, rooms, created, janitor, roomVars, closeVars,
                 listening, removing, connVars>>

-----------------------------------------------------------------------------
(* StartSession, once it has the room.                                     *)

(* Mutants: a call that reconnects keeps its hold; a hold given up twice.  *)
FinishHeld(c) ==
  /\ holds' = [holds EXCEPT ![room[c]] = IF reconnect[c] THEN @ ELSE @ - 1]
  /\ Goto(c, "done")
  /\ seen' = [seen EXCEPT ![c] = 0] /\ found' = [found EXCEPT ![c] = 0]
  /\ reconnect' = [reconnect EXCEPT ![c] = FALSE]
FinishTwice(c) ==
  /\ holds' = [holds EXCEPT ![room[c]] = @ - 2]
  /\ Goto(c, "done")
  /\ seen' = [seen EXCEPT ![c] = 0] /\ found' = [found EXCEPT ![c] = 0]
  /\ reconnect' = [reconnect EXCEPT ![c] = FALSE]

(* defer room.Release(), whatever the outcome.  What the call found is
   forgotten with it.                                                      *)
Finish(c) ==
  /\ holds' = [holds EXCEPT ![room[c]] = @ - 1]
  /\ Goto(c, "done")
  /\ seen' = [seen EXCEPT ![c] = 0] /\ found' = [found EXCEPT ![c] = 0]
  /\ reconnect' = [reconnect EXCEPT ![c] = FALSE]

(* A call without an identity, and the service's CreateRoom, only want the
   room to exist.                                                          *)
CreateOnly(c) ==
  /\ pc[c] = "room"
  /\ Finish(c)
  /\ UNCHANGED <<room, rooms, created, janitor,
                 roomState, leaving, participants, requestSources, sessionVars,
                 connVars>>

(* A session of the identity is resumed, or makes way; a client that wants
   to resume what is gone or closed is told to reconnect.                  *)
FindParticipant(c) ==
  LET p == participants[room[c]] IN
  /\ pc[c] = "room"
  /\ IF reconnect[c] /\ (p = 0 \/ p \in isClosed)
     THEN Finish(c)
     ELSE /\ found' = [found EXCEPT ![c] = p]
          /\ Goto(c, IF p = 0 THEN "new" ELSE IF reconnect[c] THEN "resume"
                                                            ELSE "remove")
          /\ UNCHANGED <<holds, seen, reconnect>>
  /\ UNCHANGED <<room, rooms, created, janitor, roomState, leaving, participants,
                 requestSources, sessionVars, connVars>>

(* ResumeParticipant: the connection replaces the previous one, which is
   closed, and gets a worker unless the response cannot be sent.           *)
ResumeParticipant(c, fails) ==
  LET r == room[c] IN
  /\ pc[c] = "resume"
  /\ requestSources' = [requestSources EXCEPT ![r] = c]
  /\ sourceClosed' = sourceClosed \cup ({requestSources[r]} \ {0})
  /\ worker' = IF fails THEN worker
               ELSE [worker EXCEPT ![c] = [at |-> "running", session |-> found[c]]]
  /\ Finish(c)
  /\ UNCHANGED <<room, rooms, created, janitor,
                 roomState, leaving, participants, sessionVars>>

(* The duplicate is removed, then closed; the call goes on once that Close
   has returned.                                                           *)
RemoveDuplicate(c) ==
  /\ pc[c] = "remove"
  /\ RemoveParticipant(room[c], found[c])
  /\ Goto(c, IF participants[room[c]] = found[c] THEN "evict" ELSE "new")
  /\ UNCHANGED <<reconnect, room, seen, found, rooms, created, janitor,
                 roomState, leaving, holds, state, closeVars, listening,
                 callbacks, connected, connVars>>

CloseDuplicate(c) == pc[c] = "evict" /\ CloseRemoved(found[c], c)

DuplicateClosed(c) ==
  /\ pc[c] = "evict"
  /\ found[c] \notin removing /\ CloseReturned(found[c], c)
  /\ Goto(c, "new")
  /\ UNCHANGED <<reconnect, room, seen, found, rooms, created, janitor,
                 roomVars, sessionVars, connVars>>

(* NewParticipant fails: there is no session to close.                     *)
NewParticipantFails(c) ==
  /\ pc[c] = "new"
  /\ Finish(c)
  /\ UNCHANGED <<room, rooms, created, janitor, roomState, leaving,
                 participants, requestSources, sessionVars, connVars>>

(* Mutants: the closed room, or the present session, is overlooked.        *)
RefusedIfTaken(c, full) == participants[room[c]] # 0 \/ full
RefusedIfClosed(c, full) == IsClosed(room[c]) \/ full

(* Can the session not join?  Closed, taken, or full.                      *)
Refused(c, full) == IsClosed(room[c]) \/ participants[room[c]] # 0 \/ full

(* NewParticipant and Room.Join.  A session that has joined is in the room
   before the response is sent, which may fail.                            *)
Join(c, full, fails) ==
  LET r == room[c] IN
  /\ pc[c] = "new"
  /\ listening' = listening \cup {c}
  /\ IF Refused(c, full)
     THEN /\ state' = [state EXCEPT ![c] = "JOINING"]
          /\ Goto(c, "failed")
          /\ UNCHANGED <<participants, requestSources, callbacks>>
     ELSE /\ participants' = [participants EXCEPT ![r] = c]
          /\ requestSources' = [requestSources EXCEPT ![r] = c]
          /\ state' = [state EXCEPT ![c] = IF fails THEN "JOINING" ELSE "JOINED"]
          /\ callbacks' = IF fails THEN callbacks ELSE callbacks \cup {c}
          /\ Goto(c, IF fails THEN "failed" ELSE "joined")
  /\ UNCHANGED <<reconnect, room, seen, found, rooms, created, janitor,
                 roomState, leaving, holds, closeVars, removing, connected,
                 connVars>>

(* A session that could not join, or whose topics could not be registered
   with the message bus, is closed.                                        *)
JoinFailed(c) ==
  /\ pc[c] \in {"failed", "joined"}
  /\ Close(c, 0)
  /\ Finish(c)
  /\ UNCHANGED <<room, rooms, created, janitor,
                 roomState, leaving, participants, requestSources, state,
                 listening, callbacks, removing, connected, connVars>>

Serve(c) ==
  /\ pc[c] = "joined"
  /\ worker' = [worker EXCEPT ![c] = [at |-> "running", session |-> c]]
  /\ Finish(c)
  /\ UNCHANGED <<room, rooms, created, janitor,
                 roomState, leaving, participants, requestSources, sessionVars,
                 sourceClosed>>

-----------------------------------------------------------------------------
(* rtcSessionWorker.                                                       *)

Unserved == <<callVars, rooms, created, janitor, roomVars>>

(* The connection is lost, or the client closes it.                        *)
ClientDisconnects(c) ==
  /\ worker[c].at = "running" /\ c \notin sourceClosed
  /\ sourceClosed' = sourceClosed \cup {c}
  /\ UNCHANGED <<Unserved, sessionVars, worker>>

(* The worker ends with its session, or on a message it cannot handle.     *)
WorkerEnds(c, fails) ==
  /\ worker[c].at = "running"
  /\ fails \/ state[worker[c].session] = "DISCONNECTED"
  /\ worker' = [worker EXCEPT ![c] = Ended]
  /\ sourceClosed' = sourceClosed \cup {c}
  /\ UNCHANGED <<Unserved, sessionVars>>

(* It reads the end of its connection, and asks whether that is still the
   session's connection.                                                   *)
SourceEnds(c) ==
  /\ worker[c].at = "running" /\ c \in sourceClosed
  /\ worker' = [worker EXCEPT ![c] =
                  IF requestSources[room[c]] = c THEN [@ EXCEPT !.at = "lost"]
                                                 ELSE Ended]
  /\ UNCHANGED <<Unserved, sessionVars, sourceClosed>>

(* A session none of whose transports has connected, HasConnected being
   false, does not outlive its connection.                                 *)
HandleSignalSourceClose(c) ==
  /\ worker[c].at = "lost"
  /\ worker' = [worker EXCEPT ![c] = Ended]
  /\ IF worker[c].session \in connected THEN UNCHANGED closeVars
     ELSE Close(worker[c].session, 0)
  /\ UNCHANGED <<Unserved, state, listening, callbacks, removing, connected,
                 sourceClosed>>

-----------------------------------------------------------------------------
(* Closing the room.                                                       *)

(* The critical section of Room.Close.                                     *)
CloseRoom(r) ==
  roomState' = [roomState EXCEPT ![r] = IF @ = "open" THEN "closed" ELSE @]

(* CloseIdleRooms, every second: CloseIfEmpty finds the room empty for long
   enough, under the room's lock ...                                       *)
CloseIfEmpty ==
  /\ janitor = 0 /\ HasRoom
  /\ holds[rooms] <= 0 /\ participants[rooms] = 0
  /\ janitor' = rooms
  /\ UNCHANGED <<callVars, rooms, created, roomVars, sessionVars, connVars>>

(* ... and closes it after releasing it.                                   *)
CloseIdle ==
  /\ janitor # 0
  /\ CloseRoom(janitor) /\ janitor' = 0
  /\ UNCHANGED <<callVars, rooms, created, leaving, holds, participants,
                 requestSources, sessionVars, connVars>>

(* The service's DeleteRoom, and Stop.                                     *)
DeleteRoomRequest ==
  /\ HasRoom
  /\ CloseRoom(rooms)
  /\ UNCHANGED <<callVars, rooms, created, janitor, leaving, holds,
                 participants, requestSources, sessionVars, connVars>>

(* Close closes the participants it finds, one after the other.            *)
CloseParticipants(r) ==
  /\ roomState[r] = "closed"
  /\ roomState' = [roomState EXCEPT ![r] = "closing"]
  /\ leaving' = [leaving EXCEPT ![r] = participants[r]]
  /\ IF participants[r] = 0 THEN UNCHANGED closeVars
                            ELSE Close(participants[r], MaxCalls + r)
  /\ UNCHANGED <<callVars, rooms, created, janitor, holds, participants,
                 requestSources, state, listening, callbacks, removing,
                 connected, connVars>>

(* The manager's OnClose: deleteRoom forgets the room of the name, whatever
   room that is.                                                           *)
deleteRoom(r) ==
  /\ roomState[r] = "closing"
  /\ leaving[r] = 0 \/ CloseReturned(leaving[r], MaxCalls + r)
  /\ roomState' = [roomState EXCEPT ![r] = "deleted"]
  /\ rooms' = 0
  /\ UNCHANGED <<callVars, created, janitor, leaving, holds, participants,
                 requestSources, sessionVars, connVars>>

-----------------------------------------------------------------------------
(* Steps of running goroutines ...                                         *)
CallStep(c) ==
  \/ FindOther(c) \/ InsertRoom(c) \/ FindParticipant(c)
  \/ \E b \in BOOLEAN : HoldNew(c, b) \/ ResumeParticipant(c, b)
  \/ \E full, fails \in BOOLEAN : Join(c, full, fails)
  \/ RemoveDuplicate(c) \/ CloseDuplicate(c) \/ DuplicateClosed(c)
  \/ NewParticipantFails(c) \/ JoinFailed(c) \/ Serve(c)

SessionStep(s) ==
  \/ Disconnect(s) \/ StateChanged(s)
  \/ CloseRemoved(s, 0) /\ \A c \in Call : pc[c] = "evict" => found[c] # s

WorkerStep(c) == WorkerEnds(c, FALSE) \/ SourceEnds(c) \/ HandleSignalSourceClose(c)

RoomStep(r) == CloseParticipants(r) \/ deleteRoom(r)

Janitor == CloseIfEmpty \/ CloseIdle

(* ... and what clients, operators and the network may do.                 *)
Request ==
  \/ \E c \in Call, again \in BOOLEAN :
       FindRoom(c, again) \/ \E fails \in BOOLEAN : CreateRoom(c, again, fails)
  \/ \E c \in Call : CreateOnly(c) \/ setConnectedAt(c) \/ TransportConnected(c)

Event ==
  \/ \E c \in Call : ClientDisconnects(c) \/ Leave(c) \/ WorkerEnds(c, TRUE)
  \/ \E s \in Call : JoinTimeout(s) \/ Fault(s)
  \/ RemoveRequest \/ DeleteRoomRequest

Run ==
  \/ \E c \in Call : CallStep(c) \/ SessionStep(c) \/ WorkerStep(c)
  \/ \E r \in RoomId : RoomStep(r)
  \/ Janitor

Next ==
  \/ (Run \/ Request) /\ UNCHANGED events
  \/ Event /\ events < MaxEvents /\ events' = events + 1

(* Go runs every goroutine that can run, and the server's ticker calls
   CloseIdleRooms every second.                                            *)
Fairness ==
  /\ \A c \in Call : /\ WF_vars(CallStep(c) /\ UNCHANGED events)
                     /\ WF_vars(SessionStep(c) /\ UNCHANGED events)
                     /\ WF_vars(WorkerStep(c) /\ UNCHANGED events)
  /\ \A r \in RoomId : WF_vars(RoomStep(r) /\ UNCHANGED events)
  /\ WF_vars(Janitor /\ UNCHANGED events)

Spec == Init /\ [][Next]_vars /\ Fairness

-----------------------------------------------------------------------------
(* Properties.                                                             *)

(* A session that has joined and is not closed is its room's session of the
   identity, or someone is about to close it: no order of duplicates,
   time-outs and late callbacks leaves a live session that nobody finds.   *)
NoOrphanSession ==
  \A s \in Call :
    state[s] \in {"JOINED", "ACTIVE"} /\ s \notin isClosed =>
      participants[room[s]] = s \/ s \in removing

(* Is the session settled: active in the open room r, with its StartSession
   finished and no other that is about to replace it?                      *)
Settled(s, r) ==
  /\ state[s] = "ACTIVE" /\ s \notin isClosed /\ pc[s] = "done"
  /\ participants[r] = s /\ ~IsClosed(r)
  /\ \A c \in Call : pc[c] = "remove" => found[c] # s

(* A request or a fault that ends this very session.                       *)
Ends(s) ==
  \/ Fault(s) \/ RemoveRequest
  \/ \E c \in Call : worker[c].session = s /\ Leave(c)

(* Nothing else ends a settled session or takes it out of its room: not the
   callbacks, timer, worker, Leave or closer of a session it has replaced,
   not its own timer, callbacks or lost connection, not the Close of another
   room of the name.                                                       *)
SettledSessionStays ==
  [][\A s \in Call, r \in RoomId :
       Settled(s, r) /\ ~Ends(s) =>
         participants'[r] = s /\ s \notin isClosed']_vars

(* A session that is closed, for whatever reason and at whatever point of
   StartSession, leaves its room's map in the end.                         *)
ClosedSessionLeaves ==
  \A s \in Call : s \in isClosed ~> \A r \in RoomId : participants[r] # s

(* A room that is closed ends up without participants: nobody joins behind
   the back of Close.                                                      *)
ClosedRoomDrains ==
  \A r \in RoomId : roomState[r] = "closed" ~> [](participants[r] = 0)

(* A room that can be found does not stay open with nobody in it and nobody
   on the way: every path of StartSession gives up its hold.               *)
IdleRoomCloses ==
  \A r \in RoomId :
    []<>~(/\ rooms = r /\ ~IsClosed(r) /\ participants[r] = 0
          /\ \A c \in Call : pc[c] \in {"idle", "done"})

(* deleteRoom "completely deletes all room information, including active
   sessions": an open room with a session in it is the room of the name.   *)
ActiveSessionIsFound ==
  \A r \in RoomId : participants[r] # 0 /\ ~IsClosed(r) => rooms = r
=============================================================================
