--------------------------- MODULE SessionProofs ---------------------------
(***************************************************************************)
(* Proofs about module Session, for any number of calls, rooms, faults and *)
(* requests: no live session is lost track of, every path of StartSession  *)
(* gives up the hold it took, and nothing but a request, a fault or its    *)
(* replacement ends a session that is settled in an open room.             *)
(***************************************************************************)
EXTENDS Session, FiniteSetTheorems, TLAPS

Position == {"idle", "insert", "holdNew", "room", "remove", "evict", "new",
             "failed", "joined", "resume", "done"}
State == {"NONE", "JOINING", "JOINED", "ACTIVE", "DISCONNECTED"}

(* The types the first argument needs.                                     *)
Types ==
  /\ pc \in [Call -> Position] /\ state \in [Call -> State]
  /\ room \in [Call -> 0..MaxRooms]
  /\ found \in [Call -> 0..MaxCalls]
  /\ rooms \in 0..MaxRooms /\ created \in 0..MaxRooms
  /\ participants \in [RoomId -> 0..MaxCalls]
  /\ listening \subseteq Call /\ callbacks \subseteq Call

HasJoined(s) == state[s] \in {"JOINED", "ACTIVE"}

(* A call's session has not joined before the call asks it to.             *)
SessionsHaveCalls ==
  \A c \in Call : HasJoined(c) => pc[c] \in {"failed", "joined", "done"}

(* A call on its way to join has a room.                                   *)
CallsHaveRooms ==
  \A c \in Call : pc[c] \notin {"idle", "insert", "done"} => room[c] # 0

IInv == Types /\ SessionsHaveCalls /\ CallsHaveRooms /\ NoOrphanSession

USE SessionAssumption DEF Call, RoomId, HasJoined

-----------------------------------------------------------------------------
(* Before the first call there is no session.                              *)
LEMMA InitIInv == Init => IInv
BY DEF Position, State, Init, IInv, Types, SessionsHaveCalls, CallsHaveRooms, NoOrphanSession

(* Updating a function with a value of its range keeps its type.           *)
LEMMA ExceptType ==
  ASSUME NEW S, NEW T, NEW f \in [S -> T], NEW x, NEW y \in T
  PROVE  [f EXCEPT ![x] = y] \in [S -> T]
OBVIOUS

(* RemoveParticipant leaves every session in its room, or about to be
   closed by whoever called it.                                            *)
LEMMA RemoveKeepsTrack ==
  ASSUME Types, NoOrphanSession, NEW r \in 0..MaxRooms,
         NEW s \in 0..MaxCalls,
         RemoveParticipant(r, s), UNCHANGED <<room, state, isClosed>>
  PROVE  /\ NoOrphanSession'
         /\ participants' \in [RoomId -> 0..MaxCalls]
<1>1. CASE participants[r] = s
  <2>1. /\ participants' = [participants EXCEPT ![r] = 0]
        /\ removing' = removing \cup {s}
    BY <1>1 DEF RemoveParticipant
  <2>2. participants' \in [RoomId -> 0..MaxCalls]
    <3>1. participants \in [RoomId -> 0..MaxCalls] /\ 0 \in 0..MaxCalls
      BY DEF Types
    <3> QED BY ONLY <2>1, <3>1, ExceptType
  <2>3. ASSUME NEW t \in Call, participants[room[t]] = t, t # s
        PROVE  participants'[room[t]] = t
    BY <1>1, <2>1, <2>3 DEF Types
  <2>4. NoOrphanSession'
    BY <2>1, <2>3 DEF NoOrphanSession
  <2> QED BY <2>2, <2>4
<1>2. CASE participants[r] # s
  BY <1>2 DEF Types, NoOrphanSession, RemoveParticipant
<1> QED BY <1>1, <1>2

(* A step that leaves calls, rooms' maps and states alone, and reopens no
   session, keeps the invariant.                                           *)
LEMMA NothingMoves ==
  ASSUME IInv, UNCHANGED <<pc, room, found, created, participants, state,
                           removing, listening, callbacks>>,
         isClosed \subseteq isClosed', rooms' \in 0..MaxRooms
  PROVE  IInv'
BY DEF IInv, Types, SessionsHaveCalls, CallsHaveRooms, NoOrphanSession

(* So does a step of call c that finds its room, or goes on with the room
   it has, and has no session.                                             *)
LEMMA CallMoves ==
  ASSUME IInv, NEW c \in Call, NEW at \in Position, Goto(c, at),
         at \in {"failed", "joined", "done"} \/ ~HasJoined(c),
         room' \in [Call -> 0..MaxRooms],
         \A t \in Call : t # c => room'[t] = room[t],
         room'[c] = room[c] \/ ~HasJoined(c),
         at \in {"idle", "insert", "done"} \/ room'[c] # 0,
         found' \in [Call -> 0..MaxCalls],
         rooms' \in 0..MaxRooms, created' \in 0..MaxRooms,
         UNCHANGED <<participants, state, removing, listening, callbacks>>,
         isClosed \subseteq isClosed'
  PROVE  IInv'
<1>1. Types'
  BY DEF IInv, Types, Goto
<1>2. SessionsHaveCalls' /\ CallsHaveRooms'
  BY DEF IInv, Types, Goto, SessionsHaveCalls, CallsHaveRooms
<1>3. NoOrphanSession'
  BY DEF IInv, NoOrphanSession
<1> QED BY <1>1, <1>2, <1>3 DEF IInv

(* RemoveParticipant of the session in hand keeps the invariant.           *)
LEMMA RemoveFromIInv ==
  ASSUME IInv, NEW r \in 0..MaxRooms, NEW s \in 0..MaxCalls, RemoveFrom(r, s)
  PROVE  IInv'
<1>1. NoOrphanSession' /\ participants' \in [RoomId -> 0..MaxCalls]
  BY RemoveKeepsTrack DEF IInv, RemoveFrom, callVars, closeVars
<1> QED
  BY <1>1 DEF IInv, Types, SessionsHaveCalls, CallsHaveRooms, RemoveFrom,
              callVars, closeVars

(* Close of a session that was taken out of its room.                      *)
LEMMA CloseRemovedIInv ==
  ASSUME IInv, NEW s, NEW by, CloseRemoved(s, by)
  PROVE  IInv'
BY DEF IInv, Types, SessionsHaveCalls, CallsHaveRooms, NoOrphanSession,
       CloseRemoved, Close, callVars, roomVars

-----------------------------------------------------------------------------
(* One lemma per group of actions.                                         *)

(* A call that puts its room into the store, or fails to.                  *)
LEMMA CreateRoomIInv ==
  ASSUME IInv, NEW c \in Call, NEW again, NEW fails \in BOOLEAN,
         CreateRoom(c, again, fails)
  PROVE  IInv'
<1>1. /\ Goto(c, "done") \/ Goto(c, "insert")
      /\ pc[c] = "idle"
      /\ UNCHANGED <<room, found, rooms, created, participants, state,
                     removing, listening, callbacks, isClosed>>
  BY DEF CreateRoom, sessionVars, closeVars, roomVars
<1>2. ~HasJoined(c)
  BY <1>1 DEF IInv, SessionsHaveCalls
<1>3. /\ room \in [Call -> 0..MaxRooms] /\ found \in [Call -> 0..MaxCalls]
      /\ rooms \in 0..MaxRooms /\ created \in 0..MaxRooms
  BY DEF IInv, Types
<1> QED BY <1>1, <1>2, <1>3, CallMoves DEF Position

(* Requests and connections that come in.                                  *)
LEMMA RequestIInv == ASSUME IInv, Request PROVE IInv'
<1>2. ASSUME NEW c \in Call, NEW again \in BOOLEAN, NEW fails \in BOOLEAN,
             CreateRoom(c, again, fails)
      PROVE  IInv'
  BY <1>2, CreateRoomIInv
<1>3. ASSUME NEW c \in Call, CreateOnly(c) PROVE IInv'
  <2>1. /\ Goto(c, "done") /\ found' = [found EXCEPT ![c] = 0]
        /\ UNCHANGED <<room, rooms, created, participants, state, removing,
                       listening, callbacks, isClosed>>
    BY <1>3 DEF CreateOnly, Finish, sessionVars, closeVars
  <2>2. /\ room \in [Call -> 0..MaxRooms] /\ found \in [Call -> 0..MaxCalls]
        /\ rooms \in 0..MaxRooms /\ created \in 0..MaxRooms
    BY DEF IInv, Types
  <2>3. found' \in [Call -> 0..MaxCalls] /\ "done" \in Position
    BY <2>1, <2>2 DEF Position
  <2> QED BY <2>1, <2>2, <2>3, CallMoves
<1> USE DEF IInv, Types, SessionsHaveCalls, CallsHaveRooms, NoOrphanSession,
            Goto, sessionVars, closeVars, roomVars, Position, State
<1>1. ASSUME NEW c \in Call, NEW again \in BOOLEAN, FindRoom(c, again)
      PROVE  IInv'
  BY <1>1 DEF FindRoom, HasRoom
<1>4. ASSUME NEW c \in Call, TransportConnected(c) PROVE IInv'
  <2>1. Types'
    BY <1>4 DEF TransportConnected, updateState, callVars
  <2> QED
    BY <1>4, <2>1 DEF TransportConnected, updateState, callVars
<1>5. ASSUME NEW c \in Call, setConnectedAt(c) PROVE IInv'
  BY <1>5 DEF setConnectedAt, callVars
<1> QED BY <1>1, <1>2, <1>3, <1>4, <1>5 DEF Request

(* The steps of StartSession.                                              *)
LEMMA CallStepIInv == ASSUME IInv, NEW c \in Call, CallStep(c) PROVE IInv'
<1> USE DEF sessionVars, closeVars, roomVars, Position, State
<1>a. pc[c] \notin {"failed", "joined", "done"} => ~HasJoined(c)
  BY DEF IInv, SessionsHaveCalls
<1>b. pc[c] \notin {"idle", "insert", "done"} => room[c] \in RoomId
  BY DEF IInv, CallsHaveRooms, Types
<1>c. /\ room \in [Call -> 0..MaxRooms] /\ found \in [Call -> 0..MaxCalls]
      /\ rooms \in 0..MaxRooms /\ created \in 0..MaxRooms
  BY DEF IInv, Types
<1>1. CASE FindOther(c)
  <2>1. CASE HasRoom
    <3>1. Goto(c, "room")
      BY <1>1, <2>1 DEF FindOther
    <3> QED
      BY <1>1, <2>1, <3>1, <1>a, <1>c, CallMoves DEF FindOther, HasRoom
  <2>2. CASE ~HasRoom
    BY <1>1, <2>2, <1>c, NothingMoves DEF FindOther
  <2> QED BY <2>1, <2>2
<1>2. CASE InsertRoom(c)
  <2>1. created + 1 \in RoomId
    BY <1>2, <1>c DEF InsertRoom
  <2>2. Goto(c, "holdNew")
    BY <1>2 DEF InsertRoom
  <2>3. /\ ~HasJoined(c) /\ room' = [room EXCEPT ![c] = created + 1]
        /\ rooms' = created + 1 /\ created' = created + 1
        /\ UNCHANGED <<found, participants, state, removing, listening,
                       callbacks, isClosed>>
    BY <1>2, <1>a DEF InsertRoom
  <2>4. /\ room' \in [Call -> 0..MaxRooms] /\ room'[c] # 0
        /\ \A t \in Call : t # c => room'[t] = room[t]
    BY <2>1, <2>3, <1>c
  <2> QED BY <2>1, <2>2, <2>3, <2>4, <1>c, CallMoves
<1>3. CASE FindParticipant(c)
  <2>1. participants[room[c]] \in 0..MaxCalls
    BY <1>3, <1>b DEF FindParticipant, IInv, Types
  <2>2. /\ ~HasJoined(c) /\ room[c] # 0
        /\ UNCHANGED <<room, rooms, created, participants, state, removing,
                       listening, callbacks, isClosed>>
    BY <1>3, <1>a, <1>b DEF FindParticipant
  <2>3. found' \in [Call -> 0..MaxCalls]
    <3>1. \/ found' = [found EXCEPT ![c] = 0]
          \/ found' = [found EXCEPT ![c] = participants[room[c]]]
      <4>1. \/ Finish(c)
            \/ found' = [found EXCEPT ![c] = participants[room[c]]]
        BY <1>3 DEF FindParticipant
      <4>2. Finish(c) => found' = [found EXCEPT ![c] = 0]
        BY DEF Finish
      <4> QED BY ONLY <4>1, <4>2
    <3>2. found \in [Call -> 0..MaxCalls]
      BY <1>c
    <3>3. 0 \in 0..MaxCalls
      BY ONLY SessionAssumption
    <3> QED BY ONLY <2>1, <3>1, <3>2, <3>3, ExceptType
  <2>4. \/ Goto(c, "done") \/ Goto(c, "new") \/ Goto(c, "resume")
        \/ Goto(c, "remove")
    BY <1>3 DEF FindParticipant, Finish
  <2> QED BY <2>2, <2>3, <2>4, <1>c, CallMoves
<1>4. ASSUME NEW b \in BOOLEAN, HoldNew(c, b) PROVE IInv'
  <2>1. Goto(c, "done") \/ Goto(c, "room")
    BY <1>4 DEF HoldNew
  <2>2. /\ ~HasJoined(c) /\ room[c] # 0
        /\ UNCHANGED <<room, found, rooms, created, participants, state,
                       removing, listening, callbacks, isClosed>>
    BY <1>4, <1>a, <1>b DEF HoldNew
  <2> QED BY <2>1, <2>2, <1>c, CallMoves
<1>5. ASSUME NEW b \in BOOLEAN, ResumeParticipant(c, b) PROVE IInv'
  <2>1. /\ Goto(c, "done") /\ found' = [found EXCEPT ![c] = 0]
        /\ UNCHANGED <<room, rooms, created, participants, state, removing,
                       listening, callbacks, isClosed>>
    BY <1>5 DEF ResumeParticipant, Finish
  <2> QED BY <2>1, <1>c, CallMoves
<1>6. ASSUME NEW full \in BOOLEAN, NEW fails \in BOOLEAN, Join(c, full, fails)
      PROVE  IInv'
  <2>a. room[c] \in RoomId /\ pc[c] = "new" /\ ~HasJoined(c)
    BY <1>6, <1>a, <1>b DEF Join
  <2>1. CASE Refused(c, full)
    <3>1. /\ state' = [state EXCEPT ![c] = "JOINING"]
          /\ pc' = [pc EXCEPT ![c] = "failed"]
          /\ listening' = listening \cup {c}
          /\ UNCHANGED <<room, found, rooms, created, participants, isClosed,
                         removing, callbacks>>
      BY <1>6, <2>1 DEF Join, Goto
    <3>2. Types'
      BY <3>1 DEF IInv, Types
    <3>3. SessionsHaveCalls' /\ CallsHaveRooms'
      BY <3>1, <2>a DEF IInv, Types, SessionsHaveCalls, CallsHaveRooms
    <3>4. NoOrphanSession'
      BY <3>1 DEF IInv, Types, NoOrphanSession
    <3> QED BY <3>2, <3>3, <3>4 DEF IInv
  <2>2. CASE ~Refused(c, full)
    <3>1. PICK at \in {"failed", "joined"}, st \in {"JOINING", "JOINED"} :
            /\ state' = [state EXCEPT ![c] = st]
            /\ pc' = [pc EXCEPT ![c] = at]
      BY <1>6, <2>2 DEF Join, Goto
    <3>2. /\ participants' = [participants EXCEPT ![room[c]] = c]
          /\ listening' = listening \cup {c}
          /\ callbacks' \subseteq callbacks \cup {c}
          /\ UNCHANGED <<room, found, rooms, created, isClosed, removing>>
      BY <1>6, <2>2 DEF Join
    <3>3. participants[room[c]] = 0
      BY <2>2 DEF Refused
    <3>4. Types'
      <4>1. participants \in [RoomId -> 0..MaxCalls] /\ c \in 0..MaxCalls
        BY DEF IInv, Types
      <4>2. participants' \in [RoomId -> 0..MaxCalls]
        BY ONLY <3>2, <4>1, ExceptType
      <4> QED BY <3>1, <3>2, <4>2 DEF IInv, Types
    <3>5. SessionsHaveCalls' /\ CallsHaveRooms'
      BY <3>1, <3>2, <2>a DEF IInv, Types, SessionsHaveCalls, CallsHaveRooms
    <3>6. ASSUME NEW s \in Call, participants[room[s]] = s
          PROVE  participants'[room[s]] = s
      BY <3>2, <3>3, <3>6 DEF IInv, Types
    <3>7. participants'[room[c]] = c
      BY <2>a, <3>2 DEF IInv, Types
    <3>8. \A s \in Call : s # c => state'[s] = state[s]
      BY <3>1 DEF IInv, Types
    <3>9. NoOrphanSession'
      BY <3>2, <3>6, <3>7, <3>8 DEF IInv, NoOrphanSession
    <3> QED BY <3>4, <3>5, <3>9 DEF IInv
  <2> QED BY <2>1, <2>2
<1>7. CASE RemoveDuplicate(c)
  <2>a. /\ ~HasJoined(c) /\ room[c] \in RoomId
        /\ RemoveParticipant(room[c], found[c])
        /\ UNCHANGED <<room, found, rooms, created, state, isClosed,
                       listening, callbacks>>
    BY <1>7, <1>a, <1>b DEF RemoveDuplicate
  <2>b. PICK at \in {"evict", "new"} : pc' = [pc EXCEPT ![c] = at]
    BY <1>7 DEF RemoveDuplicate, Goto
  <2>1. NoOrphanSession' /\ participants' \in [RoomId -> 0..MaxCalls]
    BY <2>a, <1>c, RemoveKeepsTrack DEF IInv
  <2>2. Types'
    BY <2>a, <2>b, <2>1 DEF IInv, Types
  <2>3. SessionsHaveCalls' /\ CallsHaveRooms'
    <3>1. \A t \in Call : pc'[t] = IF t = c THEN at ELSE pc[t]
      <4>1. pc \in [Call -> Position]
        BY DEF IInv, Types
      <4> QED BY ONLY <2>b, <4>1, c \in Call
    <3>2. SessionsHaveCalls'
      BY <2>a, <2>b, <3>1 DEF IInv, SessionsHaveCalls
    <3>3. room' = room /\ room[c] \in RoomId /\ CallsHaveRooms
      BY <2>a DEF IInv
    <3>4. CallsHaveRooms'
      BY ONLY <3>1, <3>3, SessionAssumption DEF CallsHaveRooms, RoomId
    <3> QED BY <3>2, <3>4
  <2> QED BY <2>1, <2>2, <2>3 DEF IInv
<1>8. CASE CloseDuplicate(c)
  BY <1>8, CloseRemovedIInv DEF CloseDuplicate
<1>9. CASE DuplicateClosed(c)
  <2>1. /\ Goto(c, "new") /\ ~HasJoined(c) /\ room[c] # 0
        /\ UNCHANGED <<room, found, rooms, created, participants, state,
                       removing, listening, callbacks, isClosed>>
    BY <1>9, <1>a, <1>b DEF DuplicateClosed
  <2> QED BY <2>1, <1>c, CallMoves
<1>10. CASE JoinFailed(c)
  <2>1. /\ Goto(c, "done") /\ found' = [found EXCEPT ![c] = 0]
        /\ UNCHANGED <<room, rooms, created, participants, state, removing,
                       listening, callbacks>>
        /\ isClosed \subseteq isClosed'
    BY <1>10 DEF JoinFailed, Close, Finish
  <2> QED BY <2>1, <1>c, CallMoves
<1>11. CASE Serve(c) \/ NewParticipantFails(c)
  <2>1. /\ Goto(c, "done") /\ found' = [found EXCEPT ![c] = 0]
        /\ UNCHANGED <<room, rooms, created, participants, state, removing,
                       listening, callbacks>>
        /\ isClosed \subseteq isClosed'
    BY <1>11 DEF Serve, NewParticipantFails, Finish
  <2> QED BY <2>1, <1>c, CallMoves
<1> QED
  BY <1>1, <1>2, <1>3, <1>4, <1>5, <1>6, <1>7, <1>8, <1>9, <1>10, <1>11
     DEF CallStep

(* The steps of a session: Close, state changes and their callbacks.       *)
LEMMA SessionStepIInv ==
  ASSUME IInv, NEW s \in Call, SessionStep(s) PROVE IInv'
<1>1. CASE Disconnect(s)
  <2>1. /\ s \in isClosed /\ state' = [state EXCEPT ![s] = "DISCONNECTED"]
        /\ callbacks' \subseteq callbacks \cup {s}
        /\ UNCHANGED <<pc, room, found, rooms, created, participants, isClosed,
                       removing, listening>>
    BY <1>1 DEF Disconnect, updateState, callVars, roomVars
  <2>2. Types'
    BY <2>1 DEF IInv, Types, State
  <2>3. SessionsHaveCalls' /\ CallsHaveRooms' /\ NoOrphanSession'
    <3>1. \A t \in Call : t # s => state'[t] = state[t]
      BY <2>1 DEF IInv, Types
    <3>2. SessionsHaveCalls' /\ CallsHaveRooms'
      <4>1. ~HasJoined(s)'
        BY <2>1 DEF IInv, Types
      <4> QED
        BY <2>1, <3>1, <4>1
           DEF IInv, SessionsHaveCalls, CallsHaveRooms
    <3>3. NoOrphanSession'
      BY <2>1, <3>1 DEF IInv, NoOrphanSession
    <3> QED BY <3>2, <3>3
  <2> QED BY <2>2, <2>3 DEF IInv
<1>2. CASE StateChanged(s)
  <2>1. NoOrphanSession' /\ participants' \in [RoomId -> 0..MaxCalls]
    <3>1. CASE state[s] = "DISCONNECTED"
      <4>1. room[s] \in 0..MaxRooms
        BY DEF IInv, Types
      <4> QED
        BY <1>2, <3>1, <4>1, RemoveKeepsTrack
           DEF IInv, StateChanged, callVars, closeVars
    <3>2. CASE state[s] # "DISCONNECTED"
      BY <1>2, <3>2 DEF IInv, Types, NoOrphanSession, StateChanged, callVars,
                        closeVars
    <3> QED BY <3>1, <3>2
  <2> QED
    BY <1>2, <2>1 DEF IInv, Types, SessionsHaveCalls, CallsHaveRooms,
                      StateChanged, callVars, closeVars
<1>3. CASE CloseRemoved(s, 0)
  BY <1>3, CloseRemovedIInv
<1> QED BY <1>1, <1>2, <1>3 DEF SessionStep

(* Faults, time-outs, and requests that remove or delete.                  *)
LEMMA EventIInv == ASSUME IInv, Event PROVE IInv'
<1>1. ASSUME NEW c \in Call, ClientDisconnects(c) \/ WorkerEnds(c, TRUE)
      PROVE  IInv'
  BY <1>1 DEF ClientDisconnects, WorkerEnds, Unserved, IInv, Types,
              SessionsHaveCalls, CallsHaveRooms, NoOrphanSession,
              callVars, roomVars, sessionVars, closeVars
<1>2. ASSUME NEW c \in Call, Leave(c) PROVE IInv'
  <2>1. worker[c].session \in Call
    BY <1>2 DEF Leave, IInv, Types
  <2>2. room[worker[c].session] \in 0..MaxRooms
    BY <2>1 DEF IInv, Types
  <2> QED BY <1>2, <2>1, <2>2, RemoveFromIInv DEF Leave
<1>3. ASSUME NEW s \in Call, JoinTimeout(s) PROVE IInv'
  <2>1. room[s] \in 0..MaxRooms
    BY DEF IInv, Types
  <2> QED BY <1>3, <2>1, RemoveFromIInv DEF JoinTimeout
<1>4. ASSUME NEW s \in Call, Fault(s) PROVE IInv'
  BY <1>4 DEF Fault, Close, IInv, Types, SessionsHaveCalls, CallsHaveRooms,
              NoOrphanSession, callVars, roomVars
<1>5. CASE RemoveRequest
  <2>1. rooms \in RoomId /\ participants[rooms] \in Call
    BY <1>5 DEF RemoveRequest, IInv, Types
  <2> QED BY <1>5, <2>1, RemoveFromIInv DEF RemoveRequest
<1>6. CASE DeleteRoomRequest
  BY <1>6 DEF DeleteRoomRequest, IInv, Types, SessionsHaveCalls,
              CallsHaveRooms, NoOrphanSession, callVars, sessionVars, closeVars
<1> QED BY <1>1, <1>2, <1>3, <1>4, <1>5, <1>6 DEF Event

(* The workers of connections, closing rooms and the janitor.              *)
LEMMA RestIInv ==
  ASSUME IInv,
         \/ \E c \in Call : WorkerStep(c)
         \/ \E r \in RoomId : RoomStep(r)
         \/ Janitor
  PROVE  IInv'
<1> USE DEF callVars, roomVars, sessionVars, closeVars
<1>a. rooms \in 0..MaxRooms
  BY DEF IInv, Types
<1>1. ASSUME NEW c \in Call, WorkerEnds(c, FALSE) PROVE IInv'
  BY <1>1, <1>a, NothingMoves DEF WorkerEnds, Unserved
<1>2. ASSUME NEW c \in Call, SourceEnds(c) PROVE IInv'
  <2>1. UNCHANGED <<Unserved, sessionVars>>
    BY <1>2, Zenon DEF SourceEnds
  <2> QED BY <2>1, <1>a, NothingMoves DEF Unserved
<1>3. ASSUME NEW c \in Call, HandleSignalSourceClose(c) PROVE IInv'
  BY <1>3, <1>a, NothingMoves DEF HandleSignalSourceClose, Close, Unserved
<1>4. ASSUME NEW r \in RoomId, CloseParticipants(r) PROVE IInv'
  BY <1>4, <1>a, NothingMoves DEF CloseParticipants, Close
<1>5. ASSUME NEW r \in RoomId, deleteRoom(r) PROVE IInv'
  BY <1>5, NothingMoves DEF deleteRoom
<1>6. CASE Janitor
  BY <1>6, <1>a, NothingMoves DEF Janitor, CloseIfEmpty, CloseIdle
<1> QED BY <1>1, <1>2, <1>3, <1>4, <1>5, <1>6 DEF WorkerStep, RoomStep

(* Every step preserves the invariant.                                     *)
LEMMA NextIInv == IInv /\ [Next]_vars => IInv'
<1> SUFFICES ASSUME IInv, [Next]_vars PROVE IInv'
  OBVIOUS
<1>1. CASE Run
  BY <1>1, CallStepIInv, SessionStepIInv, RestIInv DEF Run
<1>2. CASE Request
  BY <1>2, RequestIInv
<1>3. CASE Event
  BY <1>3, EventIInv
<1>4. CASE UNCHANGED vars
  BY <1>4 DEF IInv, Types, SessionsHaveCalls, CallsHaveRooms, NoOrphanSession,
              vars, callVars, roomVars, sessionVars, closeVars
<1> QED BY <1>1, <1>2, <1>3, <1>4 DEF Next

-----------------------------------------------------------------------------
(* The invariant holds in every behaviour.                                 *)
THEOREM AlwaysIInv == Spec => []IInv
<1>1. Init => IInv
  BY InitIInv
<1>2. IInv /\ [Next]_vars => IInv'
  BY NextIInv
<1> QED BY <1>1, <1>2, PTL DEF Spec

(* However duplicates, time-outs, faults and late callbacks interleave with
   Join and RemoveParticipant, a session that has joined and is not closed is
   its room's session of the identity, or about to be closed.              *)
THEOREM NoSessionIsOrphaned == Spec => []NoOrphanSession
<1>1. IInv => NoOrphanSession
  BY DEF IInv
<1> QED BY <1>1, AlwaysIInv, PTL

-----------------------------------------------------------------------------
(* The holds of a room, counted: every path of StartSession that takes one
   gives it up.                                                            *)

(* The types that IInv leaves out.                                         *)
OtherTypes ==
  /\ reconnect \in [Call -> BOOLEAN] /\ seen \in [Call -> 0..MaxRooms]
  /\ janitor \in 0..MaxRooms
  /\ roomState \in [RoomId -> {"none", "open", "closed", "closing", "deleted"}]
  /\ leaving \in [RoomId -> 0..MaxCalls]
  /\ holds \in [RoomId -> Int]
  /\ requestSources \in [RoomId -> 0..MaxCalls]
  /\ isClosed \subseteq Call /\ closer \in [Call -> 0..(MaxCalls + MaxRooms)]
  /\ removing \subseteq Call /\ sourceClosed \subseteq Call
  /\ worker \in [Call -> [at : {"none", "running", "lost", "ended"},
                          session : 0..MaxCalls]]

(* A call that found a session, and a worker that runs, know which.        *)
SessionsAreNamed ==
  \A c \in Call :
    /\ pc[c] \in {"remove", "evict", "resume"} => found[c] # 0
    /\ worker[c].at \in {"running", "lost"} => worker[c].session # 0

Holding == {"room", "remove", "evict", "new", "failed", "joined", "resume"}

(* The calls that will release room r.                                     *)
Holders(r) == {c \in Call : pc[c] \in Holding /\ room[c] = r}

(* A room has as many holds as calls that will release it, or one less: its
   creator's hold, which is asked for without the manager's lock, may come
   after the room was closed, and is released nevertheless.                *)
HoldsAreCounted ==
  \A r \in RoomId :
    /\ holds[r] \in {Cardinality(Holders(r)) - 1, Cardinality(Holders(r))}
    /\ (\E c \in Call : pc[c] = "holdNew" /\ room[c] = r) =>
         holds[r] = Cardinality(Holders(r))

(* Calls know only rooms that were created, each by one call.              *)
RoomsAreCreated ==
  /\ rooms <= created
  /\ \A c \in Call : room[c] <= created
  /\ \A c, d \in Call :
       pc[c] = "holdNew" /\ pc[d] = "holdNew" /\ room[c] = room[d] => c = d
  /\ \A r \in RoomId : r > created => holds[r] = 0

TInv == IInv /\ OtherTypes /\ SessionsAreNamed /\ HoldsAreCounted /\ RoomsAreCreated

LEMMA InitTInv == Init => TInv
<1> SUFFICES ASSUME Init PROVE TInv
  OBVIOUS
<1>1. IInv
  BY InitIInv
<1>2. OtherTypes /\ SessionsAreNamed
  BY DEF Init, OtherTypes, SessionsAreNamed, NoWorker
<1>3. \A r \in RoomId : Holders(r) = {}
  BY DEF Init, Holders, Holding
<1>4. HoldsAreCounted
  BY <1>3, FS_EmptySet DEF Init, HoldsAreCounted
<1>5. RoomsAreCreated
  BY DEF Init, RoomsAreCreated
<1> QED BY <1>1, <1>2, <1>4, <1>5 DEF TInv

(* The types of what the parts of an action change.                        *)
LEMMA RemoveTypes ==
  ASSUME OtherTypes, NEW r, NEW s \in Call, RemoveParticipant(r, s)
  PROVE  /\ requestSources' \in [RoomId -> 0..MaxCalls]
         /\ removing' \subseteq Call
<1>0. 0 \in 0..MaxCalls
  BY ONLY SessionAssumption
<1>1. requestSources \in [RoomId -> 0..MaxCalls] /\ removing \subseteq Call /\ 0 \in 0..MaxCalls
  BY <1>0, Zenon DEF OtherTypes
<1>2. CASE participants[r] = s
  <2>1. /\ requestSources' = [requestSources EXCEPT ![r] = 0]
        /\ removing' = removing \cup {s}
    BY <1>2 DEF RemoveParticipant
  <2>2. requestSources' \in [RoomId -> 0..MaxCalls]
    BY ONLY <1>1, <2>1, ExceptType
  <2> QED BY <1>1, <2>1, <2>2
<1>3. CASE participants[r] # s
  BY <1>1, <1>3 DEF RemoveParticipant
<1> QED BY <1>2, <1>3

LEMMA CloseTypes ==
  ASSUME OtherTypes, NEW s \in Call, NEW by \in 0..(MaxCalls + MaxRooms), Close(s, by)
  PROVE  isClosed' \subseteq Call /\ closer' \in [Call -> 0..(MaxCalls + MaxRooms)]
<1>1. isClosed \subseteq Call /\ closer \in [Call -> 0..(MaxCalls + MaxRooms)]
  BY DEF OtherTypes
<1>2. [closer EXCEPT ![s] = by] \in [Call -> 0..(MaxCalls + MaxRooms)]
  BY <1>1, ExceptType
<1> QED BY <1>1, <1>2 DEF Close

LEMMA FinishTypes ==
  ASSUME IInv, OtherTypes, NEW c \in Call, room[c] # 0, Finish(c)
  PROVE  /\ reconnect' \in [Call -> BOOLEAN] /\ seen' \in [Call -> 0..MaxRooms]
         /\ holds' = [holds EXCEPT ![room[c]] = holds[room[c]] - 1]
         /\ holds' \in [RoomId -> Int]
         /\ pc' = [pc EXCEPT ![c] = "done"]
<1>1. room[c] \in RoomId
  BY DEF IInv, Types
<1>2. /\ reconnect \in [Call -> BOOLEAN] /\ seen \in [Call -> 0..MaxRooms]
      /\ holds \in [RoomId -> Int] /\ FALSE \in BOOLEAN /\ 0 \in 0..MaxRooms
  <2>1. 0 \in 0..MaxRooms
    BY ONLY SessionAssumption
  <2> QED BY <2>1, Zenon DEF OtherTypes
<1>3. /\ reconnect' = [reconnect EXCEPT ![c] = FALSE]
      /\ seen' = [seen EXCEPT ![c] = 0]
      /\ holds' = [holds EXCEPT ![room[c]] = holds[room[c]] - 1]
      /\ pc' = [pc EXCEPT ![c] = "done"]
  BY DEF Finish, Goto
<1>4. reconnect' \in [Call -> BOOLEAN]
  BY ONLY <1>2, <1>3, ExceptType
<1>5. seen' \in [Call -> 0..MaxRooms]
  BY ONLY <1>2, <1>3, ExceptType
<1>6. holds[room[c]] - 1 \in Int
  BY <1>1, <1>2
<1>7. holds' \in [RoomId -> Int]
  BY ONLY <1>2, <1>3, <1>6, ExceptType
<1> QED BY <1>3, <1>4, <1>5, <1>7

-----------------------------------------------------------------------------
(* How the count of holds follows the calls.                               *)

LEMMA HoldersAreFinite ==
  ASSUME NEW r
  PROVE  /\ IsFiniteSet(Holders(r)) /\ Cardinality(Holders(r)) \in Nat
         /\ Cardinality(Holders(r)) <= MaxCalls
<1>1. IsFiniteSet(Call) /\ Cardinality(Call) = MaxCalls
  BY FS_Interval
<1>2. Holders(r) \subseteq Call
  BY DEF Holders
<1>3. IsFiniteSet(Holders(r)) /\ Cardinality(Holders(r)) <= Cardinality(Call)
  BY <1>1, <1>2, FS_Subset
<1> QED BY <1>1, <1>3, FS_CardinalityType

(* The part of the invariant that is about holds.                          *)
Counted == HoldsAreCounted /\ RoomsAreCreated

LEMMA CountTypes ==
  ASSUME TInv
  PROVE  /\ pc \in [Call -> Position] /\ holds \in [RoomId -> Int]
         /\ room \in [Call -> 0..MaxRooms] /\ created \in Nat
         /\ \A c \in Call :
              /\ room[c] <= created
              /\ pc[c] \in Holding \cup {"holdNew"} => room[c] \in RoomId
<1>1. /\ pc \in [Call -> Position] /\ room \in [Call -> 0..MaxRooms] /\ created \in Nat
  BY DEF TInv, IInv, Types
<1>2. holds \in [RoomId -> Int]
  BY DEF TInv, OtherTypes
<1>3. \A c \in Call :
        /\ room[c] <= created
        /\ pc[c] \in Holding \cup {"holdNew"} => room[c] \in RoomId
  BY <1>1 DEF TInv, IInv, CallsHaveRooms, RoomsAreCreated, Holding
<1> QED BY <1>1, <1>2, <1>3

(* A call moves on, with the room it has, and keeps its hold.              *)
LEMMA CountMoves ==
  ASSUME TInv, NEW c \in Call, NEW at,
         pc' = [pc EXCEPT ![c] = at], at # "holdNew",
         pc[c] # "holdNew", at \in Holding <=> pc[c] \in Holding,
         UNCHANGED <<room, holds, created>>, rooms' \in {0, rooms}
  PROVE  Counted'
<1>1. /\ pc \in [Call -> Position] /\ created \in Nat /\ rooms \in Nat
  BY DEF TInv, IInv, Types
<1>2. \A d \in Call : /\ pc'[d] \in Holding <=> pc[d] \in Holding
                      /\ pc'[d] = "holdNew" <=> pc[d] = "holdNew"
  BY <1>1
<1>3. \A r \in RoomId : Holders(r)' = Holders(r)
  BY <1>2 DEF Holders
<1>4. HoldsAreCounted'
  BY <1>2, <1>3 DEF TInv, HoldsAreCounted
<1>5. RoomsAreCreated'
  BY <1>1, <1>2 DEF TInv, RoomsAreCreated
<1> QED BY <1>4, <1>5 DEF Counted

(* Nothing that counts changes.                                            *)
LEMMA CountRests ==
  ASSUME TInv, UNCHANGED <<pc, room, holds, created>>, rooms' \in {0, rooms}
  PROVE  Counted'
<1>1. created \in Nat /\ rooms \in Nat
  BY DEF TInv, IInv, Types
<1>2. \A r \in RoomId : Holders(r)' = Holders(r)
  BY DEF Holders
<1>3. HoldsAreCounted'
  BY <1>2 DEF TInv, HoldsAreCounted
<1>4. RoomsAreCreated'
  BY <1>1 DEF TInv, RoomsAreCreated
<1> QED BY <1>3, <1>4 DEF Counted

(* A call gives up its hold.                                               *)
LEMMA CountReleases ==
  ASSUME TInv, NEW c \in Call, pc[c] \in Holding,
         pc' = [pc EXCEPT ![c] = "done"],
         holds' = [holds EXCEPT ![room[c]] = holds[room[c]] - 1],
         UNCHANGED <<room, rooms, created>>
  PROVE  Counted'
<1>1. /\ pc \in [Call -> Position] /\ holds \in [RoomId -> Int]
      /\ room \in [Call -> 0..MaxRooms] /\ created \in Nat
  BY CountTypes
<1>2. room[c] \in RoomId /\ room[c] <= created
  BY CountTypes
<1>3. \A d \in Call : /\ d # c => pc'[d] = pc[d]
                      /\ pc'[c] = "done"
                      /\ pc'[d] = "holdNew" <=> pc[d] = "holdNew"
  BY <1>1 DEF Holding
<1>4. \A r \in RoomId : r # room[c] => Holders(r)' = Holders(r) /\ holds'[r] = holds[r]
  BY <1>1, <1>3 DEF Holders, Holding
<1>5. /\ Holders(room[c])' = Holders(room[c]) \ {c} /\ c \in Holders(room[c])
      /\ holds'[room[c]] = holds[room[c]] - 1
  BY <1>1, <1>2, <1>3 DEF Holders, Holding
<1>6. /\ Cardinality(Holders(room[c])') = Cardinality(Holders(room[c])) - 1
      /\ Cardinality(Holders(room[c])) \in Nat
  BY <1>5, HoldersAreFinite, FS_RemoveElement
<1>7. HoldsAreCounted'
  <2> SUFFICES ASSUME NEW r \in RoomId
               PROVE  /\ holds'[r] \in {Cardinality(Holders(r)') - 1, Cardinality(Holders(r)')}
                      /\ (\E d \in Call : pc'[d] = "holdNew" /\ room[d] = r) =>
                           holds'[r] = Cardinality(Holders(r)')
    BY DEF HoldsAreCounted
  <2>1. CASE r # room[c]
    BY <1>3, <1>4, <2>1 DEF TInv, HoldsAreCounted
  <2>2. CASE r = room[c]
    BY <1>1, <1>2, <1>3, <1>5, <1>6, <2>2 DEF TInv, HoldsAreCounted
  <2> QED BY <2>1, <2>2
<1>8. RoomsAreCreated'
  <2>1. \A r \in RoomId : r > created => holds'[r] = 0
    BY <1>1, <1>2, <1>4 DEF TInv, RoomsAreCreated
  <2> QED BY <1>3, <2>1 DEF TInv, RoomsAreCreated
<1> QED BY <1>7, <1>8 DEF Counted

(* A call takes hold of an open room, or its creator of a closed one: only
   the latter comes without a hold.                                        *)
LEMMA CountHolds ==
  ASSUME TInv, NEW c \in Call, NEW r \in RoomId, r <= created,
         pc[c] \in {"idle", "insert"} \/ (pc[c] = "holdNew" /\ room[c] = r),
         pc' = [pc EXCEPT ![c] = "room"], room' = [room EXCEPT ![c] = r],
         \/ holds' = [holds EXCEPT ![r] = holds[r] + 1]
         \/ holds' = holds /\ pc[c] = "holdNew",
         UNCHANGED <<rooms, created>>
  PROVE  Counted'
<1>1. /\ pc \in [Call -> Position] /\ holds \in [RoomId -> Int]
      /\ room \in [Call -> 0..MaxRooms] /\ created \in Nat
  BY CountTypes
<1>2. \A d \in Call : /\ d # c => pc'[d] = pc[d] /\ room'[d] = room[d]
                      /\ pc'[c] = "room" /\ room'[c] = r
  BY <1>1
<1>3. \A q \in RoomId : q # r => Holders(q)' = Holders(q) /\ holds'[q] = holds[q]
  <2>1. \A q \in RoomId : q # r => holds'[q] = holds[q]
    BY <1>1
  <2>2. pc[c] \notin Holding
    BY DEF Holding
  <2>3. \A q \in RoomId : q # r => Holders(q)' = Holders(q)
    BY <1>2, <2>2 DEF Holders
  <2> QED BY <2>1, <2>3
<1>4. Holders(r)' = Holders(r) \cup {c} /\ c \notin Holders(r)
  BY <1>2 DEF Holders, Holding
<1>5. /\ Cardinality(Holders(r)') = Cardinality(Holders(r)) + 1
      /\ Cardinality(Holders(r)) \in Nat
  BY <1>4, HoldersAreFinite, FS_AddElement
<1>6. holds'[r] \in {holds[r], holds[r] + 1} /\ (pc[c] # "holdNew" => holds'[r] = holds[r] + 1)
  BY <1>1
<1>7. \A d \in Call : pc'[d] = "holdNew" => d # c /\ pc[d] = "holdNew" /\ room'[d] = room[d]
  BY <1>2
<1>8. HoldsAreCounted'
  <2> SUFFICES ASSUME NEW q \in RoomId
               PROVE  /\ holds'[q] \in {Cardinality(Holders(q)') - 1, Cardinality(Holders(q)')}
                      /\ (\E d \in Call : pc'[d] = "holdNew" /\ room'[d] = q) =>
                           holds'[q] = Cardinality(Holders(q)')
    BY DEF HoldsAreCounted
  <2>1. CASE q # r
    BY <1>3, <1>7, <2>1 DEF TInv, HoldsAreCounted
  <2>2. CASE q = r /\ pc[c] = "holdNew"
    <3>1. holds[r] = Cardinality(Holders(r))
      BY <2>2 DEF TInv, HoldsAreCounted
    <3>2. ~ \E d \in Call : pc'[d] = "holdNew" /\ room'[d] = r
      BY <1>7, <2>2 DEF TInv, RoomsAreCreated
    <3> QED BY <1>5, <1>6, <2>2, <3>1, <3>2
  <2>3. CASE q = r /\ pc[c] # "holdNew"
    <3>1. holds'[r] = holds[r] + 1 /\ holds[r] \in Int
      BY <1>1, <1>6, <2>3
    <3>2. /\ holds[r] \in {Cardinality(Holders(r)) - 1, Cardinality(Holders(r))}
          /\ (\E d \in Call : pc'[d] = "holdNew" /\ room'[d] = r) =>
               holds[r] = Cardinality(Holders(r))
      BY <1>7 DEF TInv, HoldsAreCounted
    <3> QED BY <1>5, <2>3, <3>1, <3>2
  <2> QED BY <2>1, <2>2, <2>3
<1>9. RoomsAreCreated'
  <2>1. \A q \in RoomId : q > created => holds'[q] = 0
    BY <1>1, <1>3 DEF TInv, RoomsAreCreated
  <2>2. \A d \in Call : room'[d] <= created
    BY <1>2 DEF TInv, RoomsAreCreated
  <2>3. \A d, e \in Call :
          pc'[d] = "holdNew" /\ pc'[e] = "holdNew" /\ room'[d] = room'[e] => d = e
    BY <1>7 DEF TInv, RoomsAreCreated
  <2> QED BY <2>1, <2>2, <2>3 DEF TInv, RoomsAreCreated
<1> QED BY <1>8, <1>9 DEF Counted

(* A creator gives up before it holds its room, which it releases if it was
   closed in the meantime.                                                 *)
LEMMA CountGivesUp ==
  ASSUME TInv, NEW c \in Call, pc[c] = "holdNew",
         pc' = [pc EXCEPT ![c] = "done"],
         \/ holds' = [holds EXCEPT ![room[c]] = holds[room[c]] - 1]
         \/ holds' = holds,
         UNCHANGED <<room, rooms, created>>
  PROVE  Counted'
<1>1. /\ pc \in [Call -> Position] /\ holds \in [RoomId -> Int]
      /\ room \in [Call -> 0..MaxRooms] /\ created \in Nat
  BY CountTypes
<1>2. room[c] \in RoomId /\ room[c] <= created
  BY CountTypes
<1>3. \A d \in Call : /\ d # c => pc'[d] = pc[d]
                      /\ pc'[c] = "done"
                      /\ pc'[d] = "holdNew" => pc[d] = "holdNew" /\ d # c
  BY <1>1
<1>4. \A r \in RoomId : Holders(r)' = Holders(r)
  BY <1>3 DEF Holders, Holding
<1>5. \A r \in RoomId : r # room[c] => holds'[r] = holds[r]
  BY <1>1
<1>6. HoldsAreCounted'
  <2> SUFFICES ASSUME NEW r \in RoomId
               PROVE  /\ holds'[r] \in {Cardinality(Holders(r)) - 1, Cardinality(Holders(r))}
                      /\ (\E d \in Call : pc'[d] = "holdNew" /\ room[d] = r) =>
                           holds'[r] = Cardinality(Holders(r))
    BY <1>4 DEF HoldsAreCounted
  <2>1. CASE r # room[c]
    BY <1>3, <1>5, <2>1 DEF TInv, HoldsAreCounted
  <2>2. CASE r = room[c]
    <3>1. holds[r] = Cardinality(Holders(r))
      BY <2>2 DEF TInv, HoldsAreCounted
    <3>2. holds'[r] \in {holds[r] - 1, holds[r]}
      BY <1>1, <1>2, <2>2
    <3>3. ~ \E d \in Call : pc'[d] = "holdNew" /\ room[d] = r
      BY <1>3, <2>2 DEF TInv, RoomsAreCreated
    <3> QED BY <3>1, <3>2, <3>3
  <2> QED BY <2>1, <2>2
<1>7. RoomsAreCreated'
  <2>1. \A r \in RoomId : r > created => holds'[r] = 0
    BY <1>1, <1>2, <1>5 DEF TInv, RoomsAreCreated
  <2> QED BY <1>3, <2>1 DEF TInv, RoomsAreCreated
<1> QED BY <1>6, <1>7 DEF Counted

(* A call creates a room, which it does not hold yet.                      *)
LEMMA CountCreates ==
  ASSUME TInv, NEW c \in Call, InsertRoom(c)
  PROVE  Counted'
<1> DEFINE n == created + 1
<1>1. /\ pc \in [Call -> Position] /\ holds \in [RoomId -> Int]
      /\ room \in [Call -> 0..MaxRooms] /\ created \in Nat
  BY CountTypes
<1>2. /\ n \in RoomId /\ pc[c] = "insert"
      /\ rooms' = n /\ created' = n /\ holds' = holds
      /\ pc' = [pc EXCEPT ![c] = "holdNew"] /\ room' = [room EXCEPT ![c] = n]
  BY <1>1 DEF InsertRoom, Goto
<1>3. \A d \in Call : /\ d # c => pc'[d] = pc[d] /\ room'[d] = room[d]
                      /\ pc'[c] = "holdNew" /\ room'[c] = n
  BY <1>1, <1>2
<1>4. \A d \in Call : room[d] \in Nat /\ room[d] <= created /\ room[d] # n
  BY <1>1 DEF TInv, RoomsAreCreated
<1>5. \A r \in RoomId : Holders(r)' = Holders(r)
  BY <1>2, <1>3 DEF Holders, Holding
<1>6. Holders(n) = {} /\ holds[n] = 0
  BY <1>1, <1>2, <1>4 DEF Holders, TInv, RoomsAreCreated
<1>7. HoldsAreCounted'
  <2> SUFFICES ASSUME NEW r \in RoomId
               PROVE  /\ holds[r] \in {Cardinality(Holders(r)) - 1, Cardinality(Holders(r))}
                      /\ (\E d \in Call : pc'[d] = "holdNew" /\ room'[d] = r) =>
                           holds[r] = Cardinality(Holders(r))
    BY <1>2, <1>5 DEF HoldsAreCounted
  <2>1. CASE r = n
    BY <1>6, <2>1, FS_EmptySet
  <2>2. CASE r # n
    BY <1>3, <2>2 DEF TInv, HoldsAreCounted
  <2> QED BY <2>1, <2>2
<1>8. RoomsAreCreated'
  <2>1. \A d \in Call : room'[d] <= n
    BY <1>1, <1>3, <1>4
  <2>2. \A d, e \in Call :
          pc'[d] = "holdNew" /\ pc'[e] = "holdNew" /\ room'[d] = room'[e] => d = e
    BY <1>3, <1>4 DEF TInv, RoomsAreCreated
  <2>3. \A r \in RoomId : r > n => holds'[r] = 0
    BY <1>1, <1>2 DEF TInv, RoomsAreCreated
  <2> QED BY <1>1, <1>2, <2>1, <2>2, <2>3 DEF RoomsAreCreated
<1> QED BY <1>7, <1>8 DEF Counted

-----------------------------------------------------------------------------
(* The other types, action by action.                                      *)

Rest == OtherTypes /\ SessionsAreNamed /\ Counted

(* An action that leaves the calls alone.                                  *)
LEMMA RestOfSession ==
  ASSUME TInv, UNCHANGED <<callVars, created, holds>>, rooms' \in {0, rooms},
         janitor' \in 0..MaxRooms,
         roomState' \in [RoomId -> {"none", "open", "closed", "closing", "deleted"}],
         leaving' \in [RoomId -> 0..MaxCalls],
         requestSources' \in [RoomId -> 0..MaxCalls],
         isClosed' \subseteq Call, closer' \in [Call -> 0..(MaxCalls + MaxRooms)],
         removing' \subseteq Call, UNCHANGED <<sourceClosed, worker>>
  PROVE  Rest'
<1>1. Counted'
  BY CountRests DEF callVars
<1>2. OtherTypes' /\ SessionsAreNamed'
  BY DEF TInv, OtherTypes, SessionsAreNamed, callVars
<1> QED BY <1>1, <1>2 DEF Rest

(* An action of a connection's worker.                                     *)
LEMMA RestOfWorker ==
  ASSUME TInv, UNCHANGED <<Unserved, removing>>, NEW c \in Call, NEW w,
         w \in [at : {"none", "running", "lost", "ended"}, session : 0..MaxCalls],
         worker' = [worker EXCEPT ![c] = w] \/ UNCHANGED worker,
         w.at \in {"running", "lost"} => w.session # 0,
         isClosed' \subseteq Call, closer' \in [Call -> 0..(MaxCalls + MaxRooms)],
         sourceClosed' \subseteq Call
  PROVE  Rest'
<1>1. Counted'
  BY CountRests DEF Unserved, callVars, roomVars
<1>2. worker \in [Call -> [at : {"none", "running", "lost", "ended"},
                           session : 0..MaxCalls]]
  BY DEF TInv, OtherTypes
<1>3. worker' \in [Call -> [at : {"none", "running", "lost", "ended"},
                            session : 0..MaxCalls]]
  BY <1>2, ExceptType
<1>4. \A d \in Call : worker'[d] = worker[d] \/ (d = c /\ worker'[d] = w)
  BY <1>2
<1>5. OtherTypes'
  BY <1>3 DEF TInv, OtherTypes, Unserved, callVars, roomVars
<1>6. SessionsAreNamed'
  BY <1>4 DEF TInv, SessionsAreNamed, Unserved, callVars
<1> QED BY <1>1, <1>5, <1>6 DEF Rest

(* An action of call c, in terms of what it changes.                       *)
LEMMA RestOfCall ==
  ASSUME TInv, NEW c \in Call, NEW at,
         pc' = [pc EXCEPT ![c] = at], Counted',
         at \in {"remove", "evict", "resume"} => found'[c] # 0,
         \A d \in Call : d # c => found'[d] = found[d],
         reconnect' \in [Call -> BOOLEAN], seen' \in [Call -> 0..MaxRooms],
         holds' \in [RoomId -> Int],
         roomState' \in [RoomId -> {"none", "open", "closed", "closing", "deleted"}],
         requestSources' \in [RoomId -> 0..MaxCalls],
         isClosed' \subseteq Call, closer' \in [Call -> 0..(MaxCalls + MaxRooms)],
         removing' \subseteq Call, sourceClosed' \subseteq Call,
         UNCHANGED <<janitor, leaving>>,
         NEW w \in [at : {"running"}, session : Call],
         worker' = [worker EXCEPT ![c] = w] \/ UNCHANGED worker
  PROVE  Rest'
<1>1. /\ worker \in [Call -> [at : {"none", "running", "lost", "ended"},
                              session : 0..MaxCalls]]
      /\ janitor \in 0..MaxRooms /\ leaving \in [RoomId -> 0..MaxCalls]
  BY DEF TInv, OtherTypes
<1>2. /\ w \in [at : {"none", "running", "lost", "ended"}, session : 0..MaxCalls]
      /\ worker' = [worker EXCEPT ![c] = w] \/ worker' = worker
  OBVIOUS
<1>3. worker' \in [Call -> [at : {"none", "running", "lost", "ended"},
                            session : 0..MaxCalls]]
  BY ONLY <1>1, <1>2, ExceptType
<1>4. \A d \in Call : worker'[d] = worker[d] \/ worker'[d] = w
  BY ONLY <1>1, <1>2
<1>5. OtherTypes'
  BY <1>1, <1>3 DEF OtherTypes
<1>6. \A d \in Call : (pc'[d] = pc[d] /\ d # c) \/ (pc'[d] = at /\ d = c)
  BY CountTypes
<1>7. w.session # 0
  OBVIOUS
<1>8. SessionsAreNamed'
  BY <1>4, <1>6, <1>7 DEF TInv, SessionsAreNamed
<1> QED BY <1>5, <1>8 DEF Rest

(* Hold changes the number of holds of the room at most.                   *)
LEMMA HoldFacts ==
  ASSUME TInv, NEW r \in RoomId, Hold(r)
  PROVE  /\ holds' \in [RoomId -> Int]
         /\ ~IsClosed(r) => holds' = [holds EXCEPT ![r] = holds[r] + 1]
         /\ IsClosed(r) => holds' = holds
<1>1. holds \in [RoomId -> Int] /\ holds[r] \in Int /\ holds[r] + 1 \in Int
  BY CountTypes
<1>2. CASE IsClosed(r)
  <2>1. holds' = [holds EXCEPT ![r] = holds[r]]
    BY <1>2 DEF Hold
  <2> QED BY <1>1, <1>2, <2>1
<1>3. CASE ~IsClosed(r)
  <2>1. holds' = [holds EXCEPT ![r] = holds[r] + 1]
    BY <1>3 DEF Hold
  <2>2. holds' \in [RoomId -> Int]
    BY ONLY <1>1, <2>1, ExceptType
  <2> QED BY <1>3, <2>1, <2>2
<1> QED BY <1>2, <1>3

(* RemoveParticipant from elsewhere.                                       *)
LEMMA RemoveFromRest ==
  ASSUME TInv, NEW r, NEW s \in Call, RemoveFrom(r, s) PROVE Rest'
<1>1. requestSources' \in [RoomId -> 0..MaxCalls] /\ removing' \subseteq Call
  BY RemoveTypes DEF TInv, RemoveFrom
<1>2. UNCHANGED <<callVars, rooms, created, janitor, roomState, leaving,
                  holds, closeVars, connVars>>
  BY DEF RemoveFrom
<1> QED BY <1>1, <1>2, RestOfSession DEF TInv, OtherTypes, closeVars, connVars

LEMMA CloseRemovedRest ==
  ASSUME TInv, NEW s, NEW by \in 0..(MaxCalls + MaxRooms), CloseRemoved(s, by)
  PROVE  Rest'
<1>1. s \in Call /\ Close(s, by) /\ removing' \subseteq Call
  BY DEF CloseRemoved, TInv, OtherTypes
<1>2. isClosed' \subseteq Call /\ closer' \in [Call -> 0..(MaxCalls + MaxRooms)]
  BY <1>1, CloseTypes DEF TInv
<1>3. UNCHANGED <<callVars, rooms, created, janitor, roomVars, connVars>>
  BY DEF CloseRemoved
<1> QED BY <1>1, <1>2, <1>3, RestOfSession DEF TInv, OtherTypes, roomVars, connVars

LEMMA RequestRest == ASSUME TInv, Request PROVE Rest'
<1> USE DEF sessionVars, closeVars, connVars, roomVars
<1>a. /\ rooms \in 0..MaxRooms /\ created \in Nat /\ rooms <= created
      /\ pc \in [Call -> Position] /\ room \in [Call -> 0..MaxRooms]
  BY DEF TInv, IInv, Types, RoomsAreCreated
<1>b. /\ reconnect \in [Call -> BOOLEAN] /\ seen \in [Call -> 0..MaxRooms]
      /\ janitor \in 0..MaxRooms
      /\ roomState \in [RoomId -> {"none", "open", "closed", "closing", "deleted"}]
      /\ requestSources \in [RoomId -> 0..MaxCalls]
      /\ isClosed \subseteq Call /\ closer \in [Call -> 0..(MaxCalls + MaxRooms)]
      /\ removing \subseteq Call /\ sourceClosed \subseteq Call
      /\ holds \in [RoomId -> Int]
  BY DEF TInv, OtherTypes
<1>1. ASSUME NEW c \in Call, NEW again \in BOOLEAN, FindRoom(c, again)
      PROVE  Rest'
  <2>1. /\ pc[c] = "idle" /\ Hold(rooms) /\ pc' = [pc EXCEPT ![c] = "room"]
        /\ room' = [room EXCEPT ![c] = rooms]
        /\ reconnect' = [reconnect EXCEPT ![c] = again]
        /\ UNCHANGED <<seen, found, rooms, created, janitor, roomState, leaving,
                       participants, requestSources, sessionVars, connVars>>
    BY <1>1 DEF FindRoom, Goto
  <2>2. rooms \in RoomId /\ ~IsClosed(rooms)
    BY <1>1, <1>a DEF FindRoom, HasRoom
  <2>3. holds' = [holds EXCEPT ![rooms] = holds[rooms] + 1] /\ holds' \in [RoomId -> Int]
    BY <2>1, <2>2, HoldFacts
  <2>4. Counted'
    BY <1>a, <2>1, <2>2, <2>3, CountHolds
  <2>5. reconnect' \in [Call -> BOOLEAN]
    BY ONLY <1>b, <2>1, ExceptType, again \in BOOLEAN
  <2>6. [at |-> "running", session |-> c] \in [at : {"running"}, session : Call]
    OBVIOUS
  <2> QED BY <1>b, <2>1, <2>3, <2>4, <2>5, <2>6, RestOfCall
<1>2. ASSUME NEW c \in Call, NEW again \in BOOLEAN, NEW fails \in BOOLEAN,
             CreateRoom(c, again, fails)
      PROVE  Rest'
  <2>1. PICK at \in {"done", "insert"} : pc' = [pc EXCEPT ![c] = at]
    BY <1>2 DEF CreateRoom, Goto
  <2>2. /\ pc[c] = "idle"
        /\ reconnect' = [reconnect EXCEPT ![c] = again /\ ~fails]
        /\ seen' = [seen EXCEPT ![c] = IF fails THEN 0 ELSE rooms]
        /\ UNCHANGED <<room, found, rooms, created, janitor, roomVars, sessionVars,
                       connVars>>
    BY <1>2 DEF CreateRoom
  <2>3. Counted'
    BY <2>1, <2>2, CountMoves DEF Holding
  <2>4. reconnect' \in [Call -> BOOLEAN]
    BY <1>b, <2>2, ExceptType
  <2>5. (IF fails THEN 0 ELSE rooms) \in 0..MaxRooms
    BY <1>a
  <2>6. seen' \in [Call -> 0..MaxRooms]
    BY ONLY <1>b, <2>2, <2>5, ExceptType
  <2>7. [at |-> "running", session |-> c] \in [at : {"running"}, session : Call]
    OBVIOUS
  <2> QED BY <1>b, <2>1, <2>2, <2>3, <2>4, <2>6, <2>7, RestOfCall
<1>3. ASSUME NEW c \in Call, CreateOnly(c) PROVE Rest'
  <2>1. /\ pc[c] = "room" /\ room[c] # 0 /\ Finish(c) /\ found' = [found EXCEPT ![c] = 0]
        /\ UNCHANGED <<room, rooms, created, janitor,
                 roomState, leaving, participants, requestSources, sessionVars,
                 connVars>>
    BY <1>3 DEF CreateOnly, Finish, TInv, IInv, CallsHaveRooms
  <2>2. /\ reconnect' \in [Call -> BOOLEAN] /\ seen' \in [Call -> 0..MaxRooms]
        /\ holds' = [holds EXCEPT ![room[c]] = holds[room[c]] - 1]
        /\ holds' \in [RoomId -> Int]
        /\ pc' = [pc EXCEPT ![c] = "done"]
    BY <2>1, FinishTypes DEF TInv
  <2>3. Counted'
    BY <2>1, <2>2, CountReleases DEF Holding
  <2>4. \A d \in Call : d # c => found'[d] = found[d]
    BY <2>1 DEF TInv, IInv, Types
  <2>5. [at |-> "running", session |-> c] \in [at : {"running"}, session : Call]
    OBVIOUS
  <2> QED BY <1>b, <2>1, <2>2, <2>3, <2>4, <2>5, RestOfCall
<1>4. ASSUME NEW c \in Call, TransportConnected(c) PROVE Rest'
  <2>1. UNCHANGED <<callVars, rooms, created, janitor, roomVars, closeVars,
                    removing, connVars>>
    BY <1>4 DEF TransportConnected
  <2> QED BY <1>b, <2>1, RestOfSession DEF TInv, OtherTypes
<1>5. ASSUME NEW c \in Call, setConnectedAt(c) PROVE Rest'
  <2>1. UNCHANGED <<callVars, rooms, created, janitor, roomVars, closeVars,
                    removing, connVars>>
    BY <1>5 DEF setConnectedAt
  <2> QED BY <1>b, <2>1, RestOfSession DEF TInv, OtherTypes
<1> QED BY <1>1, <1>2, <1>3, <1>4, <1>5 DEF Request

(* The types of state that calls leave alone or change.                    *)
LEMMA CallTypes ==
  ASSUME TInv
  PROVE  /\ rooms \in 0..MaxRooms /\ created \in Nat /\ rooms <= created
         /\ pc \in [Call -> Position] /\ room \in [Call -> 0..MaxRooms]
         /\ found \in [Call -> 0..MaxCalls]
         /\ participants \in [RoomId -> 0..MaxCalls]
         /\ reconnect \in [Call -> BOOLEAN] /\ seen \in [Call -> 0..MaxRooms]
         /\ janitor \in 0..MaxRooms
         /\ roomState \in [RoomId -> {"none", "open", "closed", "closing", "deleted"}]
         /\ leaving \in [RoomId -> 0..MaxCalls]
         /\ requestSources \in [RoomId -> 0..MaxCalls]
         /\ isClosed \subseteq Call /\ closer \in [Call -> 0..(MaxCalls + MaxRooms)]
         /\ removing \subseteq Call /\ sourceClosed \subseteq Call
         /\ holds \in [RoomId -> Int]
         /\ \A c \in Call : pc[c] \notin {"idle", "insert", "done"} => room[c] \in RoomId
<1>1. /\ rooms \in 0..MaxRooms /\ created \in Nat
      /\ pc \in [Call -> Position] /\ room \in [Call -> 0..MaxRooms]
      /\ found \in [Call -> 0..MaxCalls]
      /\ participants \in [RoomId -> 0..MaxCalls]
  BY DEF TInv, IInv, Types
<1>2. /\ reconnect \in [Call -> BOOLEAN] /\ seen \in [Call -> 0..MaxRooms]
      /\ janitor \in 0..MaxRooms
      /\ roomState \in [RoomId -> {"none", "open", "closed", "closing", "deleted"}]
      /\ leaving \in [RoomId -> 0..MaxCalls]
      /\ requestSources \in [RoomId -> 0..MaxCalls]
      /\ isClosed \subseteq Call /\ closer \in [Call -> 0..(MaxCalls + MaxRooms)]
      /\ removing \subseteq Call /\ sourceClosed \subseteq Call
      /\ holds \in [RoomId -> Int]
  BY DEF TInv, OtherTypes
<1>3. rooms <= created
  BY DEF TInv, RoomsAreCreated
<1>4. \A c \in Call : pc[c] \notin {"idle", "insert", "done"} => room[c] \in RoomId
  BY <1>1 DEF TInv, IInv, CallsHaveRooms
<1> QED BY <1>1, <1>2, <1>3, <1>4

(* A call that finishes.                                                   *)
LEMMA FinishRest ==
  ASSUME TInv, NEW c \in Call, pc[c] \in Holding, Finish(c),
         UNCHANGED <<room, rooms, created, janitor, roomState, leaving>>,
         requestSources' \in [RoomId -> 0..MaxCalls],
         isClosed' \subseteq Call, closer' \in [Call -> 0..(MaxCalls + MaxRooms)],
         removing' \subseteq Call, sourceClosed' \subseteq Call,
         NEW w \in [at : {"running"}, session : Call],
         worker' = [worker EXCEPT ![c] = w] \/ UNCHANGED worker
  PROVE  Rest'
<1>1. /\ room[c] # 0 /\ found \in [Call -> 0..MaxCalls]
      /\ roomState' \in [RoomId -> {"none", "open", "closed", "closing", "deleted"}]
  <2>1. room[c] \in RoomId
    BY CountTypes
  <2>2. found \in [Call -> 0..MaxCalls]
    BY CallTypes
  <2>3. roomState \in [RoomId -> {"none", "open", "closed", "closing", "deleted"}]
    BY CallTypes
  <2>4. roomState' = roomState
    OBVIOUS
  <2>5. room[c] # 0
    BY ONLY <2>1, SessionAssumption DEF RoomId
  <2> QED BY ONLY <2>2, <2>3, <2>4, <2>5
<1>2. /\ reconnect' \in [Call -> BOOLEAN] /\ seen' \in [Call -> 0..MaxRooms]
      /\ holds' = [holds EXCEPT ![room[c]] = holds[room[c]] - 1]
      /\ holds' \in [RoomId -> Int]
      /\ pc' = [pc EXCEPT ![c] = "done"]
  BY <1>1, FinishTypes DEF TInv
<1>3. Counted'
  BY <1>2, CountReleases
<1>4. \A d \in Call : d # c => found'[d] = found[d]
  BY <1>1 DEF Finish
<1> QED BY <1>1, <1>2, <1>3, <1>4, RestOfCall

LEMMA RoomStepsOfCallRest ==
  ASSUME TInv, NEW c \in Call,
         \/ FindOther(c) \/ InsertRoom(c) \/ \E b \in BOOLEAN : HoldNew(c, b)
  PROVE  Rest'
<1> USE DEF sessionVars, closeVars, connVars, roomVars
<1> DEFINE w == [at |-> "running", session |-> c]
<1>w. w \in [at : {"running"}, session : Call]
  OBVIOUS
<1> HIDE DEF w
<1>1. CASE FindOther(c)
  <2>1. /\ pc[c] = "insert" /\ seen' = [seen EXCEPT ![c] = rooms]
        /\ UNCHANGED <<reconnect, found, rooms, created, janitor, roomState,
                       leaving, participants, requestSources, sessionVars, connVars>>
    BY <1>1 DEF FindOther
  <2>2. seen' \in [Call -> 0..MaxRooms]
    <3>1. seen \in [Call -> 0..MaxRooms] /\ rooms \in 0..MaxRooms
      BY CallTypes
    <3> QED BY ONLY <2>1, <3>1, ExceptType
  <2>3. CASE HasRoom
    <3>1. /\ Hold(rooms) /\ room' = [room EXCEPT ![c] = rooms]
          /\ pc' = [pc EXCEPT ![c] = "room"]
      BY <1>1, <2>3 DEF FindOther, Goto
    <3>2. rooms \in RoomId /\ ~IsClosed(rooms)
      BY <2>3, CallTypes DEF HasRoom
    <3>3. holds' = [holds EXCEPT ![rooms] = holds[rooms] + 1] /\ holds' \in [RoomId -> Int]
      BY <3>1, <3>2, HoldFacts
    <3>4. Counted'
      BY <2>1, <3>1, <3>2, <3>3, CallTypes, CountHolds
    <3> QED BY <1>w, <2>1, <2>2, <3>1, <3>3, <3>4, CallTypes, RestOfCall
  <2>4. CASE ~HasRoom
    <3>1. UNCHANGED <<holds, room, pc>>
      BY <1>1, <2>4 DEF FindOther
    <3>2. Counted'
      BY <2>1, <3>1, CountRests
    <3>3. OtherTypes' /\ SessionsAreNamed'
      BY <2>1, <2>2, <3>1 DEF TInv, OtherTypes, SessionsAreNamed
    <3> QED BY <3>2, <3>3 DEF Rest
  <2> QED BY <2>3, <2>4
<1>2. CASE InsertRoom(c)
  <2>1. /\ pc' = [pc EXCEPT ![c] = "holdNew"]
        /\ roomState' = [roomState EXCEPT ![created + 1] = "open"]
        /\ UNCHANGED <<reconnect, seen, found, janitor, leaving, holds,
                       participants, requestSources, sessionVars, connVars>>
    BY <1>2 DEF InsertRoom, Goto
  <2>2. Counted'
    BY <1>2, CountCreates
  <2>3. roomState' \in [RoomId -> {"none", "open", "closed", "closing", "deleted"}]
    BY <2>1, CallTypes, ExceptType
  <2> QED BY <1>w, <2>1, <2>2, <2>3, CallTypes, RestOfCall
<1>3. ASSUME NEW b \in BOOLEAN, HoldNew(c, b) PROVE Rest'
  <2>1. /\ pc[c] = "holdNew"
        /\ UNCHANGED <<reconnect, room, seen, found, rooms, created, janitor,
                       roomState, leaving, participants, requestSources,
                       sessionVars, connVars>>
    BY <1>3 DEF HoldNew
  <2>2. room[c] \in RoomId /\ room[c] <= created /\ room' = [room EXCEPT ![c] = room[c]]
    BY <2>1, CallTypes, CountTypes
  <2>3. CASE b
    <3>1. pc' = [pc EXCEPT ![c] = "done"]
      BY <1>3, <2>3 DEF HoldNew, Goto
    <3>2. /\ \/ holds' = [holds EXCEPT ![room[c]] = holds[room[c]] - 1]
             \/ holds' = holds
          /\ holds' \in [RoomId -> Int]
      <4>1. holds \in [RoomId -> Int] /\ holds[room[c]] - 1 \in Int
        BY <2>2, CallTypes
      <4>2. CASE IsClosed(room[c])
        <5>1. holds' = [holds EXCEPT ![room[c]] = holds[room[c]] - 1]
          BY <1>3, <2>3, <4>2 DEF HoldNew
        <5>2. holds' \in [RoomId -> Int]
          BY ONLY <4>1, <5>1, ExceptType
        <5> QED BY <5>1, <5>2
      <4>3. CASE ~IsClosed(room[c])
        <5>1. holds' = [holds EXCEPT ![room[c]] = holds[room[c]]]
          BY <1>3, <2>3, <4>3 DEF HoldNew
        <5> QED BY <2>2, <4>1, <5>1
      <4> QED BY <4>2, <4>3
    <3>3. Counted'
      BY <2>1, <3>1, <3>2, CountGivesUp
    <3> QED BY <1>w, <2>1, <3>1, <3>2, <3>3, CallTypes, RestOfCall
  <2>4. CASE ~b
    <3>1. pc' = [pc EXCEPT ![c] = "room"] /\ Hold(room[c])
      BY <1>3, <2>4 DEF HoldNew, Goto
    <3>2. /\ \/ holds' = [holds EXCEPT ![room[c]] = holds[room[c]] + 1]
             \/ holds' = holds
          /\ holds' \in [RoomId -> Int]
      BY <2>2, <3>1, HoldFacts
    <3>3. Counted'
      BY <2>1, <2>2, <3>1, <3>2, CountHolds
    <3> QED BY <1>w, <2>1, <3>1, <3>2, <3>3, CallTypes, RestOfCall
  <2> QED BY <2>3, <2>4
<1> QED BY <1>1, <1>2, <1>3

LEMMA CallStepRest == ASSUME TInv, NEW c \in Call, CallStep(c) PROVE Rest'
<1> USE DEF sessionVars, closeVars, connVars, roomVars
<1> DEFINE w == [at |-> "running", session |-> c]
<1>w. w \in [at : {"running"}, session : Call]
  OBVIOUS
<1>t. /\ found \in [Call -> 0..MaxCalls] /\ pc \in [Call -> Position]
      /\ participants \in [RoomId -> 0..MaxCalls]
      /\ requestSources \in [RoomId -> 0..MaxCalls] /\ sourceClosed \subseteq Call
      /\ isClosed \subseteq Call /\ closer \in [Call -> 0..(MaxCalls + MaxRooms)]
      /\ removing \subseteq Call
      /\ pc[c] \in Holding => room[c] \in RoomId
  BY CallTypes, CountTypes
<1>n. pc[c] \in {"remove", "evict", "resume"} => found[c] \in Call
  BY <1>t DEF TInv, SessionsAreNamed
<1>1. CASE FindOther(c) \/ InsertRoom(c) \/ \E b \in BOOLEAN : HoldNew(c, b)
  BY <1>1, RoomStepsOfCallRest
<1>2. CASE FindParticipant(c)
  <2> DEFINE p == participants[room[c]]
  <2>1. /\ pc[c] = "room"
        /\ UNCHANGED <<room, rooms, created, janitor, roomState, leaving,
                       participants, requestSources, sessionVars, connVars>>
    BY <1>2 DEF FindParticipant
  <2>2. CASE Finish(c)
    BY <1>t, <1>w, <2>1, <2>2, FinishRest DEF Holding
  <2>3. CASE ~Finish(c)
    <3>1. /\ found' = [found EXCEPT ![c] = p]
          /\ UNCHANGED <<holds, seen, reconnect>>
          /\ Goto(c, IF p = 0 THEN "new" ELSE IF reconnect[c] THEN "resume"
                                                            ELSE "remove")
      BY <1>2, <2>3 DEF FindParticipant
    <3>2. PICK at \in {"new", "resume", "remove"} :
            pc' = [pc EXCEPT ![c] = at] /\ (at # "new" => p # 0)
      BY <3>1 DEF Goto
    <3>3. found'[c] = p /\ \A d \in Call : d # c => found'[d] = found[d]
      BY <1>t, <3>1
    <3>4. Counted'
      BY <2>1, <3>1, <3>2, CountMoves DEF Holding
    <3> HIDE DEF p, w
    <3> QED BY <1>w, <2>1, <3>1, <3>2, <3>3, <3>4, CallTypes, RestOfCall
  <2> QED BY <2>2, <2>3
<1>3. ASSUME NEW b \in BOOLEAN, ResumeParticipant(c, b) PROVE Rest'
  <2>1. /\ pc[c] = "resume" /\ Finish(c)
        /\ requestSources' = [requestSources EXCEPT ![room[c]] = c]
        /\ sourceClosed' = sourceClosed \cup ({requestSources[room[c]]} \ {0})
        /\ \/ worker' = [worker EXCEPT ![c] = [at |-> "running", session |-> found[c]]]
           \/ UNCHANGED worker
        /\ UNCHANGED <<room, rooms, created, janitor, roomState, leaving,
                       participants, sessionVars>>
    BY <1>3 DEF ResumeParticipant
  <2>2. [at |-> "running", session |-> found[c]] \in [at : {"running"}, session : Call]
    BY <1>n, <2>1
  <2>3. requestSources' \in [RoomId -> 0..MaxCalls]
    <3>1. c \in 0..MaxCalls
      OBVIOUS
    <3> QED BY ONLY <1>t, <2>1, <3>1, ExceptType
  <2>4. sourceClosed' \subseteq Call
    <3>1. requestSources[room[c]] \in 0..MaxCalls
      BY <1>t, <2>1 DEF Holding
    <3>2. requestSources[room[c]] # 0 => requestSources[room[c]] \in Call
      BY <3>1
    <3>3. {requestSources[room[c]]} \ {0} \subseteq Call
      BY <3>2
    <3>4. sourceClosed' = sourceClosed \cup ({requestSources[room[c]]} \ {0})
      BY <2>1
    <3> QED BY ONLY <1>t, <3>3, <3>4
  <2> QED BY <1>t, <2>1, <2>2, <2>3, <2>4, FinishRest DEF Holding
<1>4. ASSUME NEW full \in BOOLEAN, NEW fails \in BOOLEAN, Join(c, full, fails)
      PROVE  Rest'
  <2>1. /\ pc[c] = "new"
        /\ UNCHANGED <<reconnect, room, seen, found, rooms, created, janitor,
                       roomState, leaving, holds, closeVars, removing, connVars>>
    BY <1>4 DEF Join
  <2>2. PICK at \in {"failed", "joined"} : pc' = [pc EXCEPT ![c] = at]
    BY <1>4 DEF Join, Goto
  <2>3. requestSources' \in [RoomId -> 0..MaxCalls]
    <3>1. c \in 0..MaxCalls
      OBVIOUS
    <3>2. \/ requestSources' = [requestSources EXCEPT ![room[c]] = c]
          \/ UNCHANGED requestSources
      BY <1>4 DEF Join
    <3>3. [requestSources EXCEPT ![room[c]] = c] \in [RoomId -> 0..MaxCalls]
      BY ONLY <1>t, <3>1, ExceptType
    <3> QED BY <1>t, <3>2, <3>3
  <2>4. Counted'
    BY <2>1, <2>2, CountMoves DEF Holding
  <2> HIDE DEF w
  <2> QED BY <1>w, <2>1, <2>2, <2>3, <2>4, CallTypes, RestOfCall
<1>5. CASE RemoveDuplicate(c)
  <2>1. /\ pc[c] = "remove" /\ RemoveParticipant(room[c], found[c])
        /\ UNCHANGED <<reconnect, room, seen, found, rooms, created, janitor,
                 roomState, leaving, holds, state, closeVars, connVars>>
    BY <1>5 DEF RemoveDuplicate
  <2>2. PICK at \in {"evict", "new"} : pc' = [pc EXCEPT ![c] = at]
    BY <1>5 DEF RemoveDuplicate, Goto
  <2>3. requestSources' \in [RoomId -> 0..MaxCalls] /\ removing' \subseteq Call
    BY <1>n, <2>1, RemoveTypes DEF TInv
  <2>4. Counted'
    BY <2>1, <2>2, CountMoves DEF Holding
  <2>5. found'[c] # 0
    BY <1>n, <2>1
  <2> HIDE DEF w
  <2> QED BY <1>w, <2>1, <2>2, <2>3, <2>4, <2>5, CallTypes, RestOfCall
<1>6. CASE CloseDuplicate(c)
  <2>1. c \in 0..(MaxCalls + MaxRooms)
    OBVIOUS
  <2> QED BY <1>6, <2>1, CloseRemovedRest DEF CloseDuplicate
<1>7. CASE DuplicateClosed(c)
  <2>1. /\ pc[c] = "evict" /\ pc' = [pc EXCEPT ![c] = "new"]
        /\ UNCHANGED <<reconnect, room, seen, found, rooms, created, janitor,
                       roomVars, sessionVars, connVars>>
    BY <1>7 DEF DuplicateClosed, Goto
  <2>2. Counted'
    BY <2>1, CountMoves DEF Holding
  <2> HIDE DEF w
  <2> QED BY <1>w, <2>1, <2>2, CallTypes, RestOfCall
<1>8. CASE NewParticipantFails(c)
  <2>1. /\ pc[c] = "new" /\ Finish(c)
        /\ UNCHANGED <<room, rooms, created, janitor, roomState, leaving,
                       participants, requestSources, sessionVars, connVars>>
    BY <1>8 DEF NewParticipantFails
  <2> QED BY <1>t, <1>w, <2>1, FinishRest DEF Holding
<1>9. CASE JoinFailed(c)
  <2>1. /\ pc[c] \in Holding /\ Finish(c) /\ Close(c, 0)
        /\ UNCHANGED <<room, rooms, created, janitor, roomState, leaving,
                       participants, requestSources, removing, connVars>>
    BY <1>9 DEF JoinFailed, Holding
  <2>2. isClosed' \subseteq Call /\ closer' \in [Call -> 0..(MaxCalls + MaxRooms)]
    BY <2>1, CloseTypes DEF TInv
  <2> QED BY <1>t, <1>w, <2>1, <2>2, FinishRest
<1>10. CASE Serve(c)
  <2>1. /\ pc[c] \in Holding /\ Finish(c)
        /\ worker' = [worker EXCEPT ![c] = w]
        /\ UNCHANGED <<room, rooms, created, janitor, roomState, leaving,
                       participants, requestSources, sessionVars, sourceClosed>>
    BY <1>10 DEF Serve, Holding
  <2> QED BY <1>t, <1>w, <2>1, FinishRest
<1> QED
  BY <1>1, <1>2, <1>3, <1>4, <1>5, <1>6, <1>7, <1>8, <1>9, <1>10 DEF CallStep

LEMMA SessionStepRest == ASSUME TInv, NEW s \in Call, SessionStep(s) PROVE Rest'
<1> USE DEF closeVars, connVars, roomVars
<1>1. CASE Disconnect(s)
  <2>1. /\ closer' = [closer EXCEPT ![s] = 0]
        /\ UNCHANGED <<callVars, rooms, created, janitor, roomVars, isClosed,
                       removing, connVars>>
    BY <1>1 DEF Disconnect
  <2>2. closer \in [Call -> 0..(MaxCalls + MaxRooms)] /\ 0 \in 0..(MaxCalls + MaxRooms)
    <3>1. closer \in [Call -> 0..(MaxCalls + MaxRooms)]
      BY CallTypes
    <3>2. 0 \in 0..(MaxCalls + MaxRooms)
      BY ONLY SessionAssumption
    <3> QED BY <3>1, <3>2
  <2>3. closer' \in [Call -> 0..(MaxCalls + MaxRooms)]
    BY ONLY <2>1, <2>2, ExceptType
  <2> QED BY <2>1, <2>3, CallTypes, RestOfSession
<1>2. CASE StateChanged(s)
  <2>1. UNCHANGED <<callVars, rooms, created, janitor, roomState, leaving,
                    holds, closeVars, connVars>>
    BY <1>2 DEF StateChanged
  <2>2. requestSources' \in [RoomId -> 0..MaxCalls] /\ removing' \subseteq Call
    <3>1. CASE state[s] = "DISCONNECTED"
      BY <1>2, <3>1, RemoveTypes DEF TInv, StateChanged
    <3>2. CASE state[s] # "DISCONNECTED"
      BY <1>2, <3>2, CallTypes DEF StateChanged
    <3> QED BY <3>1, <3>2
  <2> QED BY <2>1, <2>2, CallTypes, RestOfSession
<1>3. CASE CloseRemoved(s, 0)
  <2>1. 0 \in 0..(MaxCalls + MaxRooms)
    OBVIOUS
  <2> QED BY <1>3, <2>1, CloseRemovedRest
<1> QED BY <1>1, <1>2, <1>3 DEF SessionStep

LEMMA EventRest == ASSUME TInv, Event PROVE Rest'
<1> USE DEF sessionVars, closeVars, connVars, roomVars
<1>1. ASSUME NEW c \in Call, ClientDisconnects(c) PROVE Rest'
  <2>1. /\ sourceClosed' = sourceClosed \cup {c}
        /\ UNCHANGED <<Unserved, sessionVars, worker>>
    BY <1>1 DEF ClientDisconnects
  <2>2. Ended \in [at : {"none", "running", "lost", "ended"}, session : 0..MaxCalls]
        /\ Ended.at = "ended"
    BY DEF Ended
  <2>3. sourceClosed' \subseteq Call
    BY <2>1, CallTypes
  <2> QED BY <2>1, <2>2, <2>3, CallTypes, RestOfWorker
<1>2. ASSUME NEW c \in Call, WorkerEnds(c, TRUE) PROVE Rest'
  <2>1. /\ sourceClosed' = sourceClosed \cup {c}
        /\ worker' = [worker EXCEPT ![c] = Ended]
        /\ UNCHANGED <<Unserved, sessionVars>>
    BY <1>2 DEF WorkerEnds
  <2>2. Ended \in [at : {"none", "running", "lost", "ended"}, session : 0..MaxCalls]
        /\ Ended.at = "ended"
    BY DEF Ended
  <2>3. sourceClosed' \subseteq Call
    BY <2>1, CallTypes
  <2> QED BY <2>1, <2>2, <2>3, CallTypes, RestOfWorker
<1>3. ASSUME NEW c \in Call, Leave(c) PROVE Rest'
  <2>1. worker[c].session \in Call
    BY <1>3 DEF Leave, TInv, IInv, Types
  <2> QED BY <1>3, <2>1, RemoveFromRest DEF Leave
<1>4. ASSUME NEW s \in Call, JoinTimeout(s) PROVE Rest'
  BY <1>4, RemoveFromRest DEF JoinTimeout
<1>5. ASSUME NEW s \in Call, Fault(s) PROVE Rest'
  <2>1. /\ Close(s, 0)
        /\ UNCHANGED <<callVars, rooms, created, janitor, roomVars,
                       removing, connVars>>
    BY <1>5 DEF Fault
  <2>2. isClosed' \subseteq Call /\ closer' \in [Call -> 0..(MaxCalls + MaxRooms)]
    BY <2>1, CloseTypes DEF TInv
  <2> QED BY <2>1, <2>2, CallTypes, RestOfSession
<1>6. CASE RemoveRequest
  <2>1. participants[rooms] \in Call
    <3>1. rooms \in 0..MaxRooms /\ participants \in [RoomId -> 0..MaxCalls]
      BY CallTypes
    <3>2. rooms # 0 /\ participants[rooms] # 0
      BY <1>6 DEF RemoveRequest
    <3> QED BY ONLY <3>1, <3>2, SessionAssumption DEF RoomId, Call
  <2> QED BY <1>6, <2>1, RemoveFromRest DEF RemoveRequest
<1>7. CASE DeleteRoomRequest
  <2>1. /\ CloseRoom(rooms)
        /\ UNCHANGED <<callVars, rooms, created, janitor, leaving, holds,
                       requestSources, sessionVars, connVars>>
    BY <1>7 DEF DeleteRoomRequest
  <2>2. roomState' \in [RoomId -> {"none", "open", "closed", "closing", "deleted"}]
    BY <2>1, CallTypes DEF CloseRoom
  <2> QED BY <2>1, <2>2, CallTypes, RestOfSession
<1> QED BY <1>1, <1>2, <1>3, <1>4, <1>5, <1>6, <1>7 DEF Event

LEMMA OthersRest ==
  ASSUME TInv,
         \/ \E c \in Call : WorkerStep(c)
         \/ \E r \in RoomId : RoomStep(r)
         \/ Janitor
  PROVE  Rest'
<1> USE DEF sessionVars, closeVars, connVars, roomVars
<1>e. /\ Ended \in [at : {"none", "running", "lost", "ended"}, session : 0..MaxCalls]
      /\ Ended.at = "ended"
  BY DEF Ended
<1>1. ASSUME NEW c \in Call, WorkerEnds(c, FALSE) PROVE Rest'
  <2>1. /\ sourceClosed' = sourceClosed \cup {c}
        /\ worker' = [worker EXCEPT ![c] = Ended]
        /\ UNCHANGED <<Unserved, sessionVars>>
    BY <1>1 DEF WorkerEnds
  <2>2. sourceClosed' \subseteq Call
    BY <2>1, CallTypes
  <2> QED BY <1>e, <2>1, <2>2, CallTypes, RestOfWorker
<1>2. ASSUME NEW c \in Call, SourceEnds(c) PROVE Rest'
  <2> DEFINE w == IF requestSources[room[c]] = c THEN [worker[c] EXCEPT !.at = "lost"]
                                                 ELSE Ended
  <2>1. /\ worker' = [worker EXCEPT ![c] = w]
        /\ worker[c].at = "running"
        /\ UNCHANGED <<Unserved, sessionVars, sourceClosed>>
    BY <1>2, Zenon DEF SourceEnds
  <2>2. /\ worker[c] \in [at : {"none", "running", "lost", "ended"},
                          session : 0..MaxCalls]
        /\ worker[c].session # 0
    BY <2>1 DEF TInv, OtherTypes, SessionsAreNamed
  <2>3. /\ w \in [at : {"none", "running", "lost", "ended"}, session : 0..MaxCalls]
        /\ w.at \in {"running", "lost"} => w.session # 0
    BY <1>e, <2>2
  <2> HIDE DEF w
  <2> QED BY <2>1, <2>3, CallTypes, RestOfWorker
<1>3. ASSUME NEW c \in Call, HandleSignalSourceClose(c) PROVE Rest'
  <2>1. /\ worker[c].at = "lost" /\ worker' = [worker EXCEPT ![c] = Ended]
        /\ UNCHANGED closeVars \/ Close(worker[c].session, 0)
        /\ UNCHANGED <<Unserved, state, listening, callbacks, removing, sourceClosed>>
    BY <1>3 DEF HandleSignalSourceClose
  <2>2. worker[c].session \in Call
    <3>1. worker \in [Call -> [at : {"none", "running", "lost", "ended"},
                             session : 0..MaxCalls]]
      BY DEF TInv, OtherTypes
    <3>2. worker[c].session # 0
      BY <2>1 DEF TInv, SessionsAreNamed
    <3>3. worker[c].session \in 0..MaxCalls
      BY ONLY <3>1, c \in Call
    <3> QED BY ONLY <3>2, <3>3, SessionAssumption DEF Call
  <2>3. isClosed' \subseteq Call /\ closer' \in [Call -> 0..(MaxCalls + MaxRooms)]
    <3>1. CASE UNCHANGED closeVars
      BY <3>1, CallTypes
    <3>2. CASE Close(worker[c].session, 0)
      BY <2>2, <3>2, CloseTypes DEF TInv
    <3> QED BY <2>1, <3>1, <3>2
  <2> QED BY <1>e, <2>1, <2>3, CallTypes, RestOfWorker
<1>4. ASSUME NEW r \in RoomId, CloseParticipants(r) PROVE Rest'
  <2>1. /\ roomState' = [roomState EXCEPT ![r] = "closing"]
        /\ leaving' = [leaving EXCEPT ![r] = participants[r]]
        /\ \/ UNCHANGED closeVars
           \/ participants[r] # 0 /\ Close(participants[r], MaxCalls + r)
        /\ UNCHANGED <<callVars, rooms, created, janitor, holds,
                       requestSources, removing, connVars>>
    BY <1>4 DEF CloseParticipants
  <2>2. participants[r] \in 0..MaxCalls /\ MaxCalls + r \in 0..(MaxCalls + MaxRooms)
    <3>1. participants[r] \in 0..MaxCalls
      BY CallTypes
    <3>2. MaxCalls + r \in 0..(MaxCalls + MaxRooms)
      BY ONLY r \in RoomId, SessionAssumption DEF RoomId
    <3> QED BY <3>1, <3>2
  <2>3. isClosed' \subseteq Call /\ closer' \in [Call -> 0..(MaxCalls + MaxRooms)]
    <3>1. CASE UNCHANGED closeVars
      BY <3>1, CallTypes
    <3>2. CASE participants[r] # 0 /\ Close(participants[r], MaxCalls + r)
      <4>1. participants[r] \in Call
        BY <2>2, <3>2
      <4> QED BY <2>2, <3>2, <4>1, CloseTypes DEF TInv
    <3> QED BY <2>1, <3>1, <3>2
  <2>4. leaving' \in [RoomId -> 0..MaxCalls]
    <3>1. leaving \in [RoomId -> 0..MaxCalls]
      BY CallTypes
    <3> QED BY ONLY <2>1, <2>2, <3>1, ExceptType
  <2>5. roomState' \in [RoomId -> {"none", "open", "closed", "closing", "deleted"}]
    BY <2>1, CallTypes, ExceptType
  <2> QED BY <2>1, <2>3, <2>4, <2>5, CallTypes, RestOfSession
<1>5. ASSUME NEW r \in RoomId, deleteRoom(r) PROVE Rest'
  <2>1. /\ roomState' = [roomState EXCEPT ![r] = "deleted"] /\ rooms' = 0
        /\ UNCHANGED <<callVars, created, janitor, leaving, holds,
                       requestSources, sessionVars, connVars>>
    BY <1>5 DEF deleteRoom
  <2>2. roomState' \in [RoomId -> {"none", "open", "closed", "closing", "deleted"}]
    BY <2>1, CallTypes, ExceptType
  <2> QED BY <2>1, <2>2, CallTypes, RestOfSession
<1>6. CASE CloseIfEmpty
  <2>1. /\ janitor' = rooms
        /\ UNCHANGED <<callVars, rooms, created, roomVars, sessionVars, connVars>>
    BY <1>6 DEF CloseIfEmpty
  <2>2. janitor' \in 0..MaxRooms
    BY <2>1, CallTypes
  <2> QED BY <2>1, <2>2, CallTypes, RestOfSession
<1>7. CASE CloseIdle
  <2>1. /\ CloseRoom(janitor) /\ janitor' = 0
        /\ UNCHANGED <<callVars, rooms, created, leaving, holds,
                       requestSources, sessionVars, connVars>>
    BY <1>7 DEF CloseIdle
  <2>2. roomState' \in [RoomId -> {"none", "open", "closed", "closing", "deleted"}]
    BY <2>1, CallTypes DEF CloseRoom
  <2>3. janitor' \in 0..MaxRooms
    BY <2>1
  <2> QED BY <2>1, <2>2, <2>3, CallTypes, RestOfSession
<1> QED
  BY <1>1, <1>2, <1>3, <1>4, <1>5, <1>6, <1>7 DEF WorkerStep, RoomStep, Janitor

(* A transport that connects is a session's, and stays noted.              *)
LEMMA ConnectedGrows ==
  ASSUME [Next]_vars
  PROVE  \/ UNCHANGED connected
         \/ \E s \in Call : connected' = connected \cup {s}
<1> USE DEF sessionVars
<1>1. CASE \E c \in Call : CallStep(c)
  BY <1>1 DEF CallStep, FindOther, InsertRoom, FindParticipant, HoldNew,
     ResumeParticipant, Join, RemoveDuplicate, CloseDuplicate, CloseRemoved,
     DuplicateClosed, NewParticipantFails, JoinFailed, Serve
<1>2. CASE \E s \in Call : SessionStep(s)
  BY <1>2 DEF SessionStep, Disconnect, StateChanged, CloseRemoved
<1>3. CASE \E c \in Call : WorkerStep(c)
  BY <1>3 DEF WorkerStep, WorkerEnds, SourceEnds, HandleSignalSourceClose
<1>4. CASE (\E r \in RoomId : RoomStep(r)) \/ Janitor
  BY <1>4 DEF RoomStep, Janitor, CloseParticipants, deleteRoom, CloseIfEmpty,
     CloseIdle
<1>5. CASE Request
  BY <1>5 DEF Request, FindRoom, CreateRoom, CreateOnly, setConnectedAt,
     TransportConnected
<1>6. CASE Event
  BY <1>6 DEF Event, ClientDisconnects, Leave, WorkerEnds, JoinTimeout, Fault,
     RemoveRequest, RemoveFrom, DeleteRoomRequest
<1>7. CASE UNCHANGED vars
  BY <1>7 DEF vars
<1> QED BY <1>1, <1>2, <1>3, <1>4, <1>5, <1>6, <1>7 DEF Next, Run

HInv == TInv /\ events \in 0..MaxEvents /\ connected \subseteq Call

(* Every step preserves the types and the count.                           *)
LEMMA NextHInv == HInv /\ [Next]_vars => HInv'
<1> SUFFICES ASSUME TInv, events \in 0..MaxEvents, connected \subseteq Call,
                    [Next]_vars
             PROVE  HInv'
  BY DEF HInv
<1>0. connected' \subseteq Call
  BY ConnectedGrows
<1>1. IInv'
  BY NextIInv DEF TInv
<1>2. events' \in 0..MaxEvents
  BY DEF Next, vars
<1>3. CASE Run
  BY <1>0, <1>1, <1>2, <1>3, CallStepRest, SessionStepRest, OthersRest
     DEF Run, TInv, Rest, Counted, HInv
<1>4. CASE Request
  BY <1>0, <1>1, <1>2, <1>4, RequestRest DEF TInv, Rest, Counted, HInv
<1>5. CASE Event
  BY <1>0, <1>1, <1>2, <1>5, EventRest DEF TInv, Rest, Counted, HInv
<1>6. CASE UNCHANGED vars
  <2>1. Counted'
    BY <1>6, CountRests DEF vars, callVars, roomVars
  <2>2. OtherTypes' /\ SessionsAreNamed'
    BY <1>6 DEF TInv, OtherTypes, SessionsAreNamed, vars, callVars, roomVars,
       sessionVars, closeVars, connVars
  <2> QED BY <1>0, <1>1, <1>2, <2>1, <2>2 DEF TInv, Counted, HInv
<1> QED BY <1>3, <1>4, <1>5, <1>6 DEF Next

(* With the count, a room never has more holds than there are calls, nor
   misses more than the one its creator failed to get.                     *)
LEMMA HInvTypes == HInv => TypeOK
<1> SUFFICES ASSUME TInv, events \in 0..MaxEvents, connected \subseteq Call
             PROVE  TypeOK
  BY DEF HInv
<1>1. ASSUME NEW r \in RoomId PROVE holds[r] \in -1..MaxCalls
  <2>1. /\ Cardinality(Holders(r)) \in Nat /\ Cardinality(Holders(r)) <= MaxCalls
    BY HoldersAreFinite
  <2>2. holds[r] \in {Cardinality(Holders(r)) - 1, Cardinality(Holders(r))}
    BY DEF TInv, HoldsAreCounted
  <2> QED BY <2>1, <2>2
<1>2. holds \in [RoomId -> -1..MaxCalls]
  BY <1>1, CountTypes
<1>3. Types /\ OtherTypes
  BY DEF TInv, IInv
<1> QED
  BY <1>2, <1>3, Zenon DEF TypeOK, Types, OtherTypes, Position, State

(* The holds of a room are those of the calls that will release it, less
   one at most: no path of StartSession keeps a hold or releases one twice. *)
THEOREM HoldsFollowCalls == Spec => []HoldsAreCounted
<1>1. Init => HInv
  BY InitTInv DEF Init, HInv
<1>2. HInv /\ [Next]_vars => HInv'
  BY NextHInv
<1>3. HInv => HoldsAreCounted
  BY DEF HInv, TInv
<1> QED BY <1>1, <1>2, <1>3, PTL DEF Spec

(* The state of rooms, sessions and connections keeps its types; that of
   the holds says how far a room's count can be off.                       *)
THEOREM SessionTypes == Spec => []TypeOK
<1>1. Init => HInv
  BY InitTInv DEF Init, HInv
<1>2. HInv /\ [Next]_vars => HInv'
  BY NextHInv
<1>3. HInv => TypeOK
  BY HInvTypes
<1> QED BY <1>1, <1>2, <1>3, PTL DEF Spec

-----------------------------------------------------------------------------
(* A settled session is ended by nothing that is left of others.           *)

(* Has the call made a session?                                            *)
Known(s) == s \in Call /\ pc[s] \in {"failed", "joined", "done"}

(* An active session has connected.  Only sessions that were made are
   closed, taken out of the room or called back about.                     *)
ActiveIsConnected ==
  \A s \in Call : state[s] = "ACTIVE" => s \in connected
ActedOnIsKnown ==
  \A s \in Call : s \in isClosed \cup removing \cup callbacks => Known(s)

(* The session in a room's map joined that room and is not taken out.      *)
PresentIsLocated ==
  \A s \in Call, r \in RoomId :
    participants[r] = s => Known(s) /\ room[s] = r /\ s \notin removing

(* Calls and workers act on sessions that were made.                       *)
FoundIsKnown ==
  \A c \in Call :
    /\ pc[c] \in {"remove", "evict", "resume"} => Known(found[c])
    /\ worker[c].at \in {"running", "lost"} => Known(worker[c].session)

Located ==
  ActiveIsConnected /\ ActedOnIsKnown /\ PresentIsLocated /\ FoundIsKnown

(* The parts of Located are kept by a step of call c that, as far as it
   closes, takes out, calls back or serves sessions, does so with c's own
   session once it is made, and with sessions that were made before.       *)
LEMMA CallLocated ==
  ASSUME TInv, Located, NEW c \in Call, NEW at,
         pc' = [pc EXCEPT ![c] = at] \/ (at = pc[c] /\ UNCHANGED pc),
         Known(c) => at \in {"failed", "joined", "done"},
         \A t \in Call : Known(t) => room'[t] = room[t],
         \A d \in Call : d # c => found'[d] = found[d],
         at \in {"remove", "evict", "resume"} => Known(found'[c]),
         connected \subseteq connected',
         \A s \in Call : state'[s] = "ACTIVE" => state[s] = "ACTIVE" \/ s \in connected',
         \A s \in Call : s \in isClosed' \cup removing' \cup callbacks' =>
           \/ s \in isClosed \cup removing \cup callbacks \/ Known(s)
           \/ s = c /\ at \in {"failed", "joined", "done"},
         \A s \in Call, r \in RoomId : participants'[r] = s =>
           \/ participants[r] = s /\ (s \in removing' => s \in removing)
           \/ /\ s = c /\ at \in {"failed", "joined", "done"}
              /\ r = room'[c] /\ c \notin removing',
         \A d \in Call : worker'[d].at \in {"running", "lost"} =>
           \/ /\ worker[d].at \in {"running", "lost"}
              /\ worker'[d].session = worker[d].session
           \/ Known(worker'[d].session)
           \/ worker'[d].session = c /\ at \in {"failed", "joined", "done"}
  PROVE  Located'
<1>1. \A d \in Call : pc'[d] = IF d = c THEN at ELSE pc[d]
  BY CountTypes
<1>2. \A s : Known(s) => Known(s)'
  BY <1>1 DEF Known
<1>3. at \in {"failed", "joined", "done"} => Known(c)'
  BY <1>1 DEF Known
<1>4. ActiveIsConnected'
  BY DEF Located, ActiveIsConnected
<1>5. ActedOnIsKnown'
  BY <1>2, <1>3 DEF Located, ActedOnIsKnown
<1>6. PresentIsLocated'
  BY <1>2, <1>3 DEF Located, PresentIsLocated
<1>7. FoundIsKnown'
  <2> SUFFICES ASSUME NEW d \in Call
               PROVE  /\ pc'[d] \in {"remove", "evict", "resume"} => Known(found[d])'
                      /\ worker'[d].at \in {"running", "lost"} => Known(worker[d].session)'
    BY DEF FoundIsKnown
  <2>1. pc'[d] \in {"remove", "evict", "resume"} => Known(found'[d])
    BY <1>1 DEF Located, FoundIsKnown
  <2>2. worker'[d].at \in {"running", "lost"} =>
          Known(worker'[d].session) \/ (worker'[d].session = c /\ Known(c)')
    BY <1>3 DEF Located, FoundIsKnown
  <2>3. Known(found'[d]) => Known(found[d])'
    BY <1>2 DEF Known
  <2>4. Known(worker'[d].session) \/ (worker'[d].session = c /\ Known(c)') =>
          Known(worker[d].session)'
    BY <1>2 DEF Known
  <2> QED BY <2>1, <2>2, <2>3, <2>4
<1> QED BY <1>4, <1>5, <1>6, <1>7 DEF Located

(* The simple case: only the call moves.                                   *)
LEMMA CallGoesOn ==
  ASSUME TInv, Located, NEW c \in Call, NEW at, pc' = [pc EXCEPT ![c] = at],
         Known(c) => at \in {"failed", "joined", "done"},
         \A t \in Call : Known(t) => room'[t] = room[t],
         \A d \in Call : d # c => found'[d] = found[d],
         at \in {"remove", "evict", "resume"} => Known(found'[c]),
         UNCHANGED <<connected, state, isClosed, removing, callbacks,
                     participants, worker>>
  PROVE  Located'
BY CallLocated

(* A call that takes a session out of its room.                            *)
LEMMA CallRemoves ==
  ASSUME TInv, Located, NEW c \in Call, NEW at, pc' = [pc EXCEPT ![c] = at],
         ~Known(c), Known(found[c]),
         UNCHANGED <<room, found, connected, state, isClosed, callbacks, worker>>,
         \A s \in Call : s \in isClosed' \cup removing' \cup callbacks' =>
           s \in isClosed \cup removing \cup callbacks \/ Known(s),
         \A s \in Call, r \in RoomId : participants'[r] = s =>
           participants[r] = s /\ (s \in removing' => s \in removing)
  PROVE  Located'
BY CallLocated

(* The same for a step that leaves the calls alone.                        *)
LEMMA SessionLocated ==
  ASSUME TInv, Located, UNCHANGED <<pc, room, found>>,
         connected \subseteq connected',
         \A s \in Call : state'[s] = "ACTIVE" => state[s] = "ACTIVE" \/ s \in connected',
         \A s \in Call : s \in isClosed' \cup removing' \cup callbacks' =>
           s \in isClosed \cup removing \cup callbacks \/ Known(s),
         \A s \in Call, r \in RoomId : participants'[r] = s =>
           participants[r] = s /\ (s \in removing' => s \in removing),
         \A d \in Call : worker'[d].at \in {"running", "lost"} =>
           /\ worker[d].at \in {"running", "lost"}
           /\ worker'[d].session = worker[d].session
  PROVE  Located'
<1>1. \A s : Known(s)' <=> Known(s)
  BY DEF Known
<1>2. ActiveIsConnected'
  BY DEF Located, ActiveIsConnected
<1>3. ActedOnIsKnown'
  BY <1>1 DEF Located, ActedOnIsKnown
<1>4. PresentIsLocated'
  BY <1>1 DEF Located, PresentIsLocated
<1>5. FoundIsKnown'
  BY DEF Located, FoundIsKnown, Known
<1> QED BY <1>2, <1>3, <1>4, <1>5 DEF Located

(* RemoveParticipant takes out nobody but s, from the one room s is in.    *)
LEMMA RemoveLocated ==
  ASSUME TInv, Located, NEW r, NEW s, r \in RoomId \/ r = room[s],
         RemoveParticipant(r, s)
  PROVE  /\ removing' \subseteq removing \cup {s}
         /\ \A t \in Call, q \in RoomId : participants'[q] = t =>
              participants[q] = t /\ (t \in removing' => t \in removing)
         /\ \A t \in Call, q \in RoomId :
              t # s /\ participants[q] = t => participants'[q] = t
<1>0. participants \in [RoomId -> 0..MaxCalls]
  BY DEF TInv, IInv, Types
<1>1. CASE participants[r] # s
  BY <1>1 DEF RemoveParticipant
<1>2. CASE participants[r] = s
  <2>1. /\ participants' = [participants EXCEPT ![r] = 0]
        /\ removing' = removing \cup {s}
    BY <1>2 DEF RemoveParticipant
  <2>2. ASSUME NEW t \in Call, NEW q \in RoomId, participants'[q] = t
        PROVE  participants[q] = t /\ (t \in removing' => t \in removing)
    <3>1. q # r
      BY <1>0, <2>1, <2>2
    <3>2. participants[q] = t
      BY <1>0, <2>1, <2>2, <3>1
    <3>3. room[t] = q
      BY <3>2 DEF Located, PresentIsLocated
    <3>4. t # s
      BY <1>2, <3>1, <3>3 DEF Located, PresentIsLocated
    <3> QED BY <2>1, <3>2, <3>4
  <2>3. ASSUME NEW t \in Call, NEW q \in RoomId, t # s, participants[q] = t
        PROVE  participants'[q] = t
    BY <1>0, <1>2, <2>1, <2>3
  <2> QED BY <2>1, <2>2, <2>3
<1> QED BY <1>1, <1>2

LEMMA InitLocated == Init => Located
BY DEF Init, NoWorker, Known, Located, ActiveIsConnected, ActedOnIsKnown,
       PresentIsLocated, FoundIsKnown

(* RemoveParticipant from elsewhere, and the Close that ends it.           *)
LEMMA RemoveFromLocated ==
  ASSUME TInv, Located, NEW r, NEW s, r \in RoomId \/ r = room[s], Known(s),
         RemoveFrom(r, s)
  PROVE  Located'
<1>1. /\ RemoveParticipant(r, s)
      /\ UNCHANGED <<pc, room, found, connected, state, isClosed, callbacks, worker>>
  BY DEF RemoveFrom, callVars, closeVars, connVars
<1>2. /\ removing' \subseteq removing \cup {s}
      /\ \A t \in Call, q \in RoomId : participants'[q] = t =>
           participants[q] = t /\ (t \in removing' => t \in removing)
  BY <1>1, RemoveLocated
<1> QED BY <1>1, <1>2, SessionLocated

LEMMA CloseRemovedLocated ==
  ASSUME TInv, Located, NEW s, NEW by, CloseRemoved(s, by)
  PROVE  Located'
<1>1. /\ s \in removing /\ isClosed' = isClosed \cup {s}
      /\ removing' = removing \ {s}
      /\ UNCHANGED <<pc, room, found, connected, state, callbacks, participants, worker>>
  BY DEF CloseRemoved, Close, callVars, roomVars, connVars
<1> QED BY <1>1, SessionLocated

LEMMA RequestLocated == ASSUME TInv, Located, Request PROVE Located'
<1> USE DEF sessionVars, closeVars, connVars, roomVars, callVars
<1>a. room \in [Call -> 0..MaxRooms] /\ found \in [Call -> 0..MaxCalls]
  BY DEF TInv, IInv, Types
<1>1. ASSUME NEW c \in Call, NEW again \in BOOLEAN, FindRoom(c, again)
      PROVE  Located'
  <2>1. /\ pc[c] = "idle" /\ pc' = [pc EXCEPT ![c] = "room"]
        /\ room' = [room EXCEPT ![c] = rooms]
        /\ UNCHANGED <<found, connected, state, isClosed, removing, callbacks,
                       participants, worker>>
    BY <1>1 DEF FindRoom, Goto
  <2>2. ~Known(c)
    BY <2>1 DEF Known
  <2>3. \A t \in Call : Known(t) => room'[t] = room[t]
    BY <1>a, <2>1, <2>2
  <2> QED BY <2>1, <2>2, <2>3, CallGoesOn
<1>2. ASSUME NEW c \in Call, NEW again \in BOOLEAN, NEW fails \in BOOLEAN,
             CreateRoom(c, again, fails)
      PROVE  Located'
  <2>1. PICK at \in {"done", "insert"} : pc' = [pc EXCEPT ![c] = at]
    BY <1>2 DEF CreateRoom, Goto
  <2>2. /\ pc[c] = "idle"
        /\ UNCHANGED <<room, found, connected, state, isClosed, removing,
                       callbacks, participants, worker>>
    BY <1>2 DEF CreateRoom
  <2>3. ~Known(c)
    BY <2>2 DEF Known
  <2> QED BY <2>1, <2>2, <2>3, CallGoesOn
<1>3. ASSUME NEW c \in Call, CreateOnly(c) PROVE Located'
  <2>1. /\ pc' = [pc EXCEPT ![c] = "done"] /\ found' = [found EXCEPT ![c] = 0]
        /\ UNCHANGED <<room, connected, state, isClosed, removing, callbacks,
                       participants, worker>>
    BY <1>3 DEF CreateOnly, Finish, Goto
  <2>2. \A d \in Call : d # c => found'[d] = found[d]
    BY <1>a, <2>1
  <2> QED BY <2>1, <2>2, CallGoesOn
<1>4. ASSUME NEW s \in Call, TransportConnected(s) PROVE Located'
  <2>1. /\ state[s] = "JOINED" /\ connected' = connected \cup {s}
        /\ state' = [state EXCEPT ![s] = "ACTIVE"]
        /\ callbacks' \subseteq callbacks \cup {s}
        /\ UNCHANGED <<pc, room, found, isClosed, removing, participants, worker>>
    BY <1>4 DEF TransportConnected, updateState
  <2>2. Known(s)
    BY <2>1 DEF TInv, IInv, SessionsHaveCalls, Known
  <2>3. \A t \in Call : state'[t] = "ACTIVE" => state[t] = "ACTIVE" \/ t \in connected'
    BY <2>1 DEF TInv, IInv, Types
  <2> QED BY <2>1, <2>2, <2>3, SessionLocated
<1>5. ASSUME NEW s \in Call, setConnectedAt(s) PROVE Located'
  <2>1. /\ connected' = connected \cup {s}
        /\ UNCHANGED <<pc, room, found, state, isClosed, removing, callbacks,
                       participants, worker>>
    BY <1>5 DEF setConnectedAt
  <2> QED BY <2>1, SessionLocated
<1> QED BY <1>1, <1>2, <1>3, <1>4, <1>5 DEF Request

LEMMA SessionStepLocated ==
  ASSUME TInv, Located, NEW s \in Call, SessionStep(s) PROVE Located'
<1> USE DEF closeVars, connVars, roomVars, callVars
<1>1. CASE Disconnect(s)
  <2>1. /\ s \in isClosed /\ state' = [state EXCEPT ![s] = "DISCONNECTED"]
        /\ callbacks' \subseteq callbacks \cup {s}
        /\ UNCHANGED <<pc, room, found, connected, isClosed, removing,
                       participants, worker>>
    BY <1>1 DEF Disconnect, updateState
  <2>2. \A t \in Call : state'[t] = "ACTIVE" => state[t] = "ACTIVE"
    BY <2>1 DEF TInv, IInv, Types
  <2> QED BY <2>1, <2>2, SessionLocated
<1>2. CASE StateChanged(s)
  <2>1. /\ s \in callbacks /\ callbacks' = callbacks \ {s}
        /\ \/ RemoveParticipant(room[s], s)
           \/ UNCHANGED <<participants, removing>>
        /\ UNCHANGED <<pc, room, found, connected, state, isClosed, worker>>
    BY <1>2 DEF StateChanged
  <2>2. Known(s)
    BY <2>1 DEF Located, ActedOnIsKnown
  <2>3. /\ removing' \subseteq removing \cup {s}
        /\ \A t \in Call, q \in RoomId : participants'[q] = t =>
             participants[q] = t /\ (t \in removing' => t \in removing)
    BY <2>1, RemoveLocated
  <2> QED BY <2>1, <2>2, <2>3, SessionLocated
<1>3. CASE CloseRemoved(s, 0)
  BY <1>3, CloseRemovedLocated
<1> QED BY <1>1, <1>2, <1>3 DEF SessionStep

LEMMA WorkerEndsLocated ==
  ASSUME TInv, Located, NEW c \in Call, NEW fails, WorkerEnds(c, fails)
  PROVE  Located'
<1>1. /\ worker' = [worker EXCEPT ![c] = Ended]
      /\ UNCHANGED <<pc, room, found, connected, state, isClosed, removing,
                     callbacks, participants>>
  BY DEF WorkerEnds, Unserved, sessionVars, closeVars, roomVars, callVars
<1>2. worker \in [Call -> [at : {"none", "running", "lost", "ended"},
                           session : 0..MaxCalls]]
  BY DEF TInv, OtherTypes
<1>3. \A d \in Call : worker'[d].at \in {"running", "lost"} =>
        /\ worker[d].at \in {"running", "lost"}
        /\ worker'[d].session = worker[d].session
  BY ONLY <1>1, <1>2, c \in Call DEF Ended
<1> QED BY <1>1, <1>3, SessionLocated

LEMMA EventLocated == ASSUME TInv, Located, Event PROVE Located'
<1> USE DEF sessionVars, closeVars, connVars, roomVars, callVars
<1>1. ASSUME NEW c \in Call, ClientDisconnects(c) PROVE Located'
  BY <1>1, SessionLocated DEF ClientDisconnects, Unserved
<1>2. ASSUME NEW c \in Call, WorkerEnds(c, TRUE) PROVE Located'
  BY <1>2, WorkerEndsLocated
<1>3. ASSUME NEW c \in Call, Leave(c) PROVE Located'
  <2>1. /\ Known(worker[c].session)
        /\ RemoveFrom(room[worker[c].session], worker[c].session)
    BY <1>3 DEF Leave, Located, FoundIsKnown
  <2> QED BY <2>1, RemoveFromLocated
<1>4. ASSUME NEW s \in Call, JoinTimeout(s) PROVE Located'
  <2>1. Known(s) /\ RemoveFrom(room[s], s)
    BY <1>4 DEF JoinTimeout, Known
  <2> QED BY <2>1, RemoveFromLocated
<1>5. ASSUME NEW s \in Call, Fault(s) PROVE Located'
  <2>1. /\ state[s] \in {"JOINED", "ACTIVE"} /\ isClosed' = isClosed \cup {s}
        /\ UNCHANGED <<pc, room, found, connected, state, removing, callbacks,
                       participants, worker>>
    BY <1>5 DEF Fault, Close
  <2>2. Known(s)
    BY <2>1 DEF TInv, IInv, SessionsHaveCalls, Known
  <2> QED BY <2>1, <2>2, SessionLocated
<1>6. CASE RemoveRequest
  <2>1. rooms \in RoomId /\ participants[rooms] \in Call
    BY <1>6 DEF RemoveRequest, TInv, IInv, Types
  <2>2. Known(participants[rooms])
    BY <2>1 DEF Located, PresentIsLocated
  <2> QED BY <1>6, <2>1, <2>2, RemoveFromLocated DEF RemoveRequest
<1>7. CASE DeleteRoomRequest
  BY <1>7, SessionLocated DEF DeleteRoomRequest
<1> QED BY <1>1, <1>2, <1>3, <1>4, <1>5, <1>6, <1>7 DEF Event

LEMMA OthersLocated ==
  ASSUME TInv, Located,
         \/ \E c \in Call : WorkerStep(c)
         \/ \E r \in RoomId : RoomStep(r)
         \/ Janitor
  PROVE  Located'
<1> USE DEF sessionVars, closeVars, connVars, roomVars, callVars
<1>w. worker \in [Call -> [at : {"none", "running", "lost", "ended"},
                           session : 0..MaxCalls]]
  BY DEF TInv, OtherTypes
<1>1. ASSUME NEW c \in Call, WorkerEnds(c, FALSE) PROVE Located'
  BY <1>1, WorkerEndsLocated
<1>2. ASSUME NEW c \in Call, SourceEnds(c) PROVE Located'
  <2>1. /\ worker[c].at = "running"
        /\ \/ worker' = [worker EXCEPT ![c] = [worker[c] EXCEPT !.at = "lost"]]
           \/ worker' = [worker EXCEPT ![c] = Ended]
        /\ UNCHANGED <<pc, room, found, connected, state, isClosed, removing,
                       callbacks, participants>>
    BY <1>2 DEF SourceEnds, Unserved
  <2>2. \A d \in Call : worker'[d].at \in {"running", "lost"} =>
          /\ worker[d].at \in {"running", "lost"}
          /\ worker'[d].session = worker[d].session
    <3>1. CASE worker' = [worker EXCEPT ![c] = Ended]
      BY ONLY <1>w, <3>1, c \in Call DEF Ended
    <3>2. CASE worker' = [worker EXCEPT ![c] = [worker[c] EXCEPT !.at = "lost"]]
      <4>1. worker'[c].session = worker[c].session
        BY ONLY <1>w, <3>2, c \in Call
      <4>2. \A d \in Call : d # c => worker'[d] = worker[d]
        BY ONLY <1>w, <3>2, c \in Call
      <4> QED BY ONLY <2>1, <4>1, <4>2, c \in Call
    <3> QED BY <2>1, <3>1, <3>2
  <2> QED BY <2>1, <2>2, SessionLocated
<1>3. ASSUME NEW c \in Call, HandleSignalSourceClose(c) PROVE Located'
  <2>1. /\ worker[c].at = "lost" /\ worker' = [worker EXCEPT ![c] = Ended]
        /\ isClosed' \subseteq isClosed \cup {worker[c].session}
        /\ UNCHANGED <<pc, room, found, connected, state, removing, callbacks,
                       participants>>
    BY <1>3 DEF HandleSignalSourceClose, Close, Unserved
  <2>2. Known(worker[c].session)
    BY <2>1 DEF Located, FoundIsKnown
  <2>3. \A d \in Call : worker'[d].at \in {"running", "lost"} =>
          /\ worker[d].at \in {"running", "lost"}
          /\ worker'[d].session = worker[d].session
    BY ONLY <1>w, <2>1, c \in Call DEF Ended
  <2> QED BY <2>1, <2>2, <2>3, SessionLocated
<1>4. ASSUME NEW r \in RoomId, CloseParticipants(r) PROVE Located'
  <2>1. /\ isClosed' = isClosed \/ isClosed' = isClosed \cup {participants[r]}
        /\ UNCHANGED <<pc, room, found, connected, state, removing, callbacks,
                       participants, worker>>
    BY <1>4 DEF CloseParticipants, Close
  <2>2. participants[r] \in Call => Known(participants[r])
    BY DEF Located, PresentIsLocated
  <2> QED BY <2>1, <2>2, SessionLocated
<1>5. ASSUME NEW r \in RoomId, deleteRoom(r) PROVE Located'
  BY <1>5, SessionLocated DEF deleteRoom
<1>6. CASE Janitor
  BY <1>6, SessionLocated DEF Janitor, CloseIfEmpty, CloseIdle
<1> QED BY <1>1, <1>2, <1>3, <1>4, <1>5, <1>6 DEF WorkerStep, RoomStep

LEMMA CallStepLocated ==
  ASSUME TInv, Located, NEW c \in Call, CallStep(c) PROVE Located'
<1> USE DEF sessionVars, closeVars, connVars, roomVars
<1>a. /\ room \in [Call -> 0..MaxRooms] /\ found \in [Call -> 0..MaxCalls]
      /\ participants \in [RoomId -> 0..MaxCalls]
      /\ worker \in [Call -> [at : {"none", "running", "lost", "ended"},
                              session : 0..MaxCalls]]
  BY DEF TInv, IInv, Types, OtherTypes
<1>b. pc[c] \notin {"idle", "insert", "done"} => room[c] \in RoomId
  BY <1>a DEF TInv, IInv, CallsHaveRooms
<1>c. pc[c] \notin {"failed", "joined", "done"} => ~Known(c)
  BY DEF Known
<1>d. Finish(c) => /\ pc' = [pc EXCEPT ![c] = "done"]
                   /\ found' = [found EXCEPT ![c] = 0]
  BY DEF Finish, Goto
<1>1. CASE FindOther(c)
  <2>1. CASE HasRoom
    <3>1. /\ pc[c] = "insert" /\ pc' = [pc EXCEPT ![c] = "room"]
          /\ room' = [room EXCEPT ![c] = rooms]
          /\ UNCHANGED <<found, connected, state, isClosed, removing,
                         callbacks, participants, worker>>
      BY <1>1, <2>1 DEF FindOther, Goto
    <3>2. \A t \in Call : Known(t) => room'[t] = room[t]
      BY <1>a, <1>c, <3>1
    <3> QED BY <1>c, <3>1, <3>2, CallGoesOn
  <2>2. CASE ~HasRoom
    <3>1. UNCHANGED <<pc, room, found, connected, state, isClosed, removing,
                      callbacks, participants, worker>>
      BY <1>1, <2>2 DEF FindOther
    <3> QED BY <3>1, SessionLocated
  <2> QED BY <2>1, <2>2
<1>2. CASE InsertRoom(c)
  <2>1. /\ pc[c] = "insert" /\ pc' = [pc EXCEPT ![c] = "holdNew"]
        /\ room' = [room EXCEPT ![c] = created + 1]
        /\ UNCHANGED <<found, connected, state, isClosed, removing,
                       callbacks, participants, worker>>
    BY <1>2 DEF InsertRoom, Goto
  <2>2. \A t \in Call : Known(t) => room'[t] = room[t]
    BY <1>a, <1>c, <2>1
  <2> QED BY <1>c, <2>1, <2>2, CallGoesOn
<1>3. CASE FindParticipant(c)
  <2> DEFINE p == participants[room[c]]
  <2>1. /\ pc[c] = "room"
        /\ UNCHANGED <<room, connected, state, isClosed, removing, callbacks,
                       participants, worker>>
    BY <1>3 DEF FindParticipant
  <2>2. \/ Finish(c)
        \/ /\ found' = [found EXCEPT ![c] = p]
           /\ \E at \in {"new", "resume", "remove"} :
                pc' = [pc EXCEPT ![c] = at] /\ (at # "new" => p # 0)
    BY <1>3 DEF FindParticipant, Goto
  <2>3. p \in 0..MaxCalls /\ (p # 0 => Known(p))
    <3>1. p \in 0..MaxCalls /\ room[c] \in RoomId
      BY <1>a, <1>b, <2>1
    <3> QED BY <3>1 DEF Located, PresentIsLocated
  <2>4. CASE Finish(c)
    <3>1. \A d \in Call : d # c => found'[d] = found[d]
      BY <1>a, <1>d, <2>4
    <3> QED BY <1>c, <1>d, <2>1, <2>4, <3>1, CallGoesOn
  <2>5. CASE found' = [found EXCEPT ![c] = p]
    <3>1. \A d \in Call : found'[d] = IF d = c THEN p ELSE found[d]
      BY <1>a, <2>5
    <3>2. CASE Finish(c)
      BY <2>4, <3>2
    <3>3. ASSUME NEW at \in {"new", "resume", "remove"},
                 pc' = [pc EXCEPT ![c] = at], at # "new" => p # 0
          PROVE  Located'
      <4>1. at \in {"remove", "evict", "resume"} => Known(found'[c])
        BY <2>3, <3>1, <3>3
      <4> HIDE DEF p
      <4> QED BY <1>c, <2>1, <3>1, <3>3, <4>1, CallGoesOn
    <3> QED BY <2>2, <3>2, <3>3
  <2> QED BY <2>2, <2>4, <2>5
<1>4. ASSUME NEW b \in BOOLEAN, HoldNew(c, b) PROVE Located'
  <2>1. /\ pc[c] = "holdNew"
        /\ \E at \in {"done", "room"} : pc' = [pc EXCEPT ![c] = at]
        /\ UNCHANGED <<room, found, connected, state, isClosed, removing,
                       callbacks, participants, worker>>
    BY <1>4 DEF HoldNew, Goto
  <2> QED BY <1>c, <2>1, CallGoesOn
<1>5. ASSUME NEW b \in BOOLEAN, ResumeParticipant(c, b) PROVE Located'
  <2> DEFINE w == [at |-> "running", session |-> found[c]]
  <2>1. /\ pc[c] = "resume" /\ Finish(c)
        /\ worker' = worker \/ worker' = [worker EXCEPT ![c] = w]
        /\ UNCHANGED <<room, connected, state, isClosed, removing, callbacks,
                       participants>>
    BY <1>5 DEF ResumeParticipant
  <2>2. /\ \A d \in Call : d # c => found'[d] = found[d]
        /\ Known(found[c])
    BY <1>a, <1>d, <2>1 DEF Located, FoundIsKnown
  <2>3. w.session = found[c]
    OBVIOUS
  <2> HIDE DEF w
  <2>4. \A d \in Call : worker'[d] = worker[d] \/ worker'[d] = w
    BY ONLY <1>a, <2>1, c \in Call
  <2> QED BY <1>c, <1>d, <2>1, <2>2, <2>3, <2>4, CallLocated
<1>6. ASSUME NEW full \in BOOLEAN, NEW fails \in BOOLEAN, Join(c, full, fails)
      PROVE  Located'
  <2>1. /\ pc[c] = "new"
        /\ UNCHANGED <<room, found, connected, isClosed, removing, worker>>
    BY <1>6 DEF Join
  <2>2. ~Known(c) /\ c \notin removing /\ room[c] \in RoomId
    BY <1>b, <1>c, <2>1 DEF Located, ActedOnIsKnown
  <2>3. PICK at \in {"failed", "joined"}, st \in {"JOINING", "JOINED"} :
          /\ pc' = [pc EXCEPT ![c] = at] /\ state' = [state EXCEPT ![c] = st]
    BY <1>6 DEF Join, Goto
  <2>4. \A s \in Call : state'[s] = "ACTIVE" => state[s] = "ACTIVE"
    BY <2>3 DEF TInv, IInv, Types
  <2>5. /\ callbacks' \subseteq callbacks \cup {c}
        /\ \/ participants' = [participants EXCEPT ![room[c]] = c]
           \/ participants' = participants
    BY <1>6 DEF Join
  <2>6. \A r \in RoomId : \/ participants'[r] = participants[r]
                          \/ participants'[r] = c /\ r = room[c]
    BY ONLY <1>a, <2>2, <2>5
  <2>7. \A s \in Call, r \in RoomId : participants'[r] = s =>
          \/ participants[r] = s /\ (s \in removing' => s \in removing)
          \/ /\ s = c /\ at \in {"failed", "joined", "done"}
             /\ r = room'[c] /\ c \notin removing'
    BY <2>1, <2>2, <2>6
  <2>8. \A s \in Call : s \in isClosed' \cup removing' \cup callbacks' =>
          \/ s \in isClosed \cup removing \cup callbacks \/ Known(s)
          \/ s = c /\ at \in {"failed", "joined", "done"}
    BY <2>1, <2>5
  <2>9. /\ at \in {"failed", "joined", "done"}
        /\ at \notin {"remove", "evict", "resume"}
        /\ pc' = [pc EXCEPT ![c] = at]
    BY <2>3
  <2>10. /\ connected \subseteq connected'
         /\ \A t \in Call : Known(t) => room'[t] = room[t]
         /\ \A d \in Call : d # c => found'[d] = found[d]
         /\ \A d \in Call : worker'[d] = worker[d]
    BY ONLY <2>1
  <2>11. \A s \in Call : state'[s] = "ACTIVE" => state[s] = "ACTIVE" \/ s \in connected'
    BY ONLY <2>4
  <2>12. \A d \in Call : worker'[d].at \in {"running", "lost"} =>
           \/ /\ worker[d].at \in {"running", "lost"}
              /\ worker'[d].session = worker[d].session
           \/ Known(worker'[d].session)
           \/ worker'[d].session = c /\ at \in {"failed", "joined", "done"}
    BY ONLY <2>10
  <2> HIDE <2>3
  <2> QED
    BY <2>7, <2>8, <2>9, <2>10, <2>11, <2>12, CallLocated, Zenon
<1>7. CASE RemoveDuplicate(c)
  <2>1. /\ pc[c] = "remove" /\ RemoveParticipant(room[c], found[c])
        /\ \E at \in {"evict", "new"} : pc' = [pc EXCEPT ![c] = at]
        /\ UNCHANGED <<room, found, connected, state, isClosed, callbacks, worker>>
    BY <1>7 DEF RemoveDuplicate, Goto
  <2>2. Known(found[c]) /\ room[c] \in RoomId
    BY <1>b, <2>1 DEF Located, FoundIsKnown
  <2>3. /\ removing' \subseteq removing \cup {found[c]}
        /\ \A t \in Call, q \in RoomId : participants'[q] = t =>
             participants[q] = t /\ (t \in removing' => t \in removing)
    BY <2>1, <2>2, RemoveLocated
  <2>4. \A s \in Call : s \in isClosed' \cup removing' \cup callbacks' =>
          s \in isClosed \cup removing \cup callbacks \/ Known(s)
    BY <2>1, <2>2, <2>3
  <2> QED BY <1>c, <2>1, <2>2, <2>3, <2>4, CallRemoves
<1>8. CASE CloseDuplicate(c)
  BY <1>8, CloseRemovedLocated DEF CloseDuplicate
<1>9. CASE DuplicateClosed(c)
  <2>1. /\ pc[c] = "evict" /\ pc' = [pc EXCEPT ![c] = "new"]
        /\ UNCHANGED <<room, found, connected, state, isClosed, removing,
                       callbacks, participants, worker>>
    BY <1>9 DEF DuplicateClosed, Goto
  <2> QED BY <1>c, <2>1, CallGoesOn
<1>10. CASE JoinFailed(c)
  <2>1. /\ Finish(c) /\ isClosed' = isClosed \cup {c}
        /\ UNCHANGED <<room, connected, state, removing, callbacks,
                       participants, worker>>
    BY <1>10 DEF JoinFailed, Close
  <2>2. \A d \in Call : d # c => found'[d] = found[d]
    BY <1>a, <1>d, <2>1
  <2> QED BY <1>d, <2>1, <2>2, CallLocated
<1>11. CASE NewParticipantFails(c)
  <2>1. /\ Finish(c)
        /\ UNCHANGED <<room, connected, state, isClosed, removing, callbacks,
                       participants, worker>>
    BY <1>11 DEF NewParticipantFails
  <2>2. \A d \in Call : d # c => found'[d] = found[d]
    BY <1>a, <1>d, <2>1
  <2> QED BY <1>d, <2>1, <2>2, CallGoesOn
<1>12. CASE Serve(c)
  <2> DEFINE w == [at |-> "running", session |-> c]
  <2>1. /\ Finish(c) /\ worker' = [worker EXCEPT ![c] = w]
        /\ UNCHANGED <<room, connected, state, isClosed, removing, callbacks,
                       participants>>
    BY <1>12 DEF Serve
  <2>2. \A d \in Call : d # c => found'[d] = found[d]
    BY <1>a, <1>d, <2>1
  <2>3. w.session = c
    OBVIOUS
  <2> HIDE DEF w
  <2>4. \A d \in Call : worker'[d] = worker[d] \/ worker'[d] = w
    BY ONLY <1>a, <2>1, c \in Call
  <2> QED BY <1>d, <2>1, <2>2, <2>3, <2>4, CallLocated
<1> QED
  BY <1>1, <1>2, <1>3, <1>4, <1>5, <1>6, <1>7, <1>8, <1>9, <1>10, <1>11, <1>12
     DEF CallStep

LInv == HInv /\ Located

(* Every step keeps sessions where they can be found.                      *)
LEMMA NextLInv == LInv /\ [Next]_vars => LInv'
<1> SUFFICES ASSUME TInv, Located, [Next]_vars PROVE Located'
  BY NextHInv DEF LInv, HInv
<1>2. CASE Run
  BY <1>2, CallStepLocated, SessionStepLocated, OthersLocated DEF Run
<1>3. CASE Request
  BY <1>3, RequestLocated
<1>4. CASE Event
  BY <1>4, EventLocated
<1>5. CASE UNCHANGED vars
  BY <1>5, SessionLocated DEF vars, callVars, roomVars, sessionVars,
     closeVars, connVars
<1> QED BY <1>2, <1>3, <1>4, <1>5 DEF Next

(* A step that neither closes session s nor takes it out of room r.        *)
Keeps(s, r) == participants'[r] = s /\ s \notin isClosed'

(* RemoveParticipant for another session, and Close of one that was taken
   out, are such steps.                                                    *)
LEMMA RemoveKeeps ==
  ASSUME TInv, Located, NEW s \in Call, NEW r \in RoomId, Settled(s, r),
         NEW q, NEW t, q \in RoomId \/ q = room[t], t # s,
         RemoveParticipant(q, t), UNCHANGED isClosed
  PROVE  Keeps(s, r)
BY RemoveLocated DEF Settled, Keeps

LEMMA CloseRemovedKeeps ==
  ASSUME TInv, Located, NEW s \in Call, NEW r \in RoomId, Settled(s, r),
         NEW t, NEW by, CloseRemoved(t, by)
  PROVE  Keeps(s, r)
<1>1. s \notin removing
  BY DEF Located, PresentIsLocated, Settled
<1> QED BY <1>1 DEF CloseRemoved, Close, roomVars, Settled, Keeps

(* A step that is not a request or fault that ends the settled session s
   leaves it in its room, and open.                                        *)
LEMMA SettledStays ==
  ASSUME TInv, Located, [Next]_vars, NEW s \in Call, NEW r \in RoomId,
         Settled(s, r), ~Ends(s)
  PROVE  Keeps(s, r)
<1> USE DEF sessionVars, closeVars, connVars, roomVars
<1>a. /\ state[s] = "ACTIVE" /\ s \notin isClosed /\ pc[s] = "done"
      /\ participants[r] = s /\ ~IsClosed(r)
      /\ \A c \in Call : pc[c] = "remove" => found[c] # s
  BY DEF Settled
<1>b. participants \in [RoomId -> 0..MaxCalls]
  BY DEF TInv, IInv, Types
<1>c. s \in connected
  BY <1>a DEF Located, ActiveIsConnected
<1>d. UNCHANGED <<participants, isClosed>> => Keeps(s, r)
  BY <1>a DEF Keeps
<1>1. ASSUME NEW c \in Call, CallStep(c) PROVE Keeps(s, r)
  <2>1. ASSUME NEW full \in BOOLEAN, NEW fails \in BOOLEAN, Join(c, full, fails)
        PROVE  Keeps(s, r)
    <3>1. CASE Refused(c, full)
      BY <1>d, <2>1, <3>1 DEF Join
    <3>2. CASE ~Refused(c, full)
      <4>1. /\ participants' = [participants EXCEPT ![room[c]] = c]
            /\ participants[room[c]] = 0 /\ UNCHANGED isClosed
        BY <2>1, <3>2 DEF Join, Refused
      <4>2. r # room[c]
        BY <1>a, <4>1
      <4> QED BY <1>a, <1>b, <4>1, <4>2 DEF Keeps
    <3> QED BY <3>1, <3>2
  <2>2. CASE RemoveDuplicate(c)
    <3>0. /\ pc[c] = "remove"
          /\ RemoveParticipant(room[c], found[c]) /\ UNCHANGED isClosed
      BY <2>2 DEF RemoveDuplicate
    <3>1. found[c] # s
      BY <1>a, <3>0
    <3>2. room[c] \in RoomId
      <4>1. room[c] \in 0..MaxRooms
        BY DEF TInv, IInv, Types
      <4>2. room[c] # 0
        BY <3>0 DEF TInv, IInv, CallsHaveRooms
      <4> QED BY <4>1, <4>2
    <3> QED BY <3>0, <3>1, <3>2, RemoveKeeps
  <2>3. CASE CloseDuplicate(c)
    BY <2>3, CloseRemovedKeeps DEF CloseDuplicate
  <2>4. CASE JoinFailed(c)
    <3>1. c # s
      BY <1>a, <2>4 DEF JoinFailed
    <3> QED BY <1>a, <2>4, <3>1 DEF JoinFailed, Close, Keeps
  <2>5. CASE \/ FindOther(c) \/ InsertRoom(c) \/ FindParticipant(c)
             \/ \E b \in BOOLEAN : HoldNew(c, b) \/ ResumeParticipant(c, b)
             \/ DuplicateClosed(c) \/ NewParticipantFails(c) \/ Serve(c)
    BY <1>d, <2>5 DEF FindOther, InsertRoom, FindParticipant, HoldNew,
       ResumeParticipant, DuplicateClosed, NewParticipantFails, Serve
  <2> QED BY <1>1, <2>1, <2>2, <2>3, <2>4, <2>5 DEF CallStep
<1>2. ASSUME NEW t \in Call, SessionStep(t) PROVE Keeps(s, r)
  <2>1. CASE Disconnect(t)
    BY <1>d, <2>1 DEF Disconnect
  <2>2. CASE StateChanged(t)
    <3>1. CASE state[t] = "DISCONNECTED"
      <4>1. t # s /\ RemoveParticipant(room[t], t) /\ UNCHANGED isClosed
        BY <1>a, <2>2, <3>1 DEF StateChanged
      <4> QED BY <4>1, RemoveKeeps
    <3>2. CASE state[t] # "DISCONNECTED"
      BY <1>d, <2>2, <3>2 DEF StateChanged
    <3> QED BY <3>1, <3>2
  <2>3. CASE CloseRemoved(t, 0)
    BY <2>3, CloseRemovedKeeps
  <2> QED BY <1>2, <2>1, <2>2, <2>3 DEF SessionStep
<1>3. ASSUME NEW c \in Call, WorkerStep(c) PROVE Keeps(s, r)
  <2>1. CASE HandleSignalSourceClose(c)
    <3>1. CASE worker[c].session = s
      BY <1>c, <1>d, <2>1, <3>1 DEF HandleSignalSourceClose, Unserved
    <3>2. CASE worker[c].session # s
      BY <1>a, <2>1, <3>2 DEF HandleSignalSourceClose, Unserved, Close, Keeps
    <3> QED BY <3>1, <3>2
  <2>2. CASE WorkerEnds(c, FALSE) \/ SourceEnds(c)
    BY <1>d, <2>2 DEF WorkerEnds, SourceEnds, Unserved
  <2> QED BY <1>3, <2>1, <2>2 DEF WorkerStep
<1>4. ASSUME NEW q \in RoomId, RoomStep(q) PROVE Keeps(s, r)
  <2>1. CASE CloseParticipants(q)
    <3>1. participants[q] # s
      <4>1. q # r
        BY <1>a, <2>1 DEF CloseParticipants, IsClosed
      <4> QED BY <1>a, <4>1 DEF Located, PresentIsLocated
    <3> QED BY <1>a, <2>1, <3>1 DEF CloseParticipants, Close, Keeps
  <2>2. CASE deleteRoom(q)
    BY <1>d, <2>2 DEF deleteRoom
  <2> QED BY <1>4, <2>1, <2>2 DEF RoomStep
<1>5. CASE Janitor \/ Request
  BY <1>d, <1>5 DEF Janitor, CloseIfEmpty, CloseIdle, Request, FindRoom,
     CreateRoom, CreateOnly, setConnectedAt, TransportConnected
<1>6. CASE Event
  <2>1. ASSUME NEW c \in Call, ClientDisconnects(c) \/ WorkerEnds(c, TRUE)
        PROVE  Keeps(s, r)
    BY <1>d, <2>1 DEF ClientDisconnects, WorkerEnds, Unserved
  <2>2. ASSUME NEW c \in Call, Leave(c) PROVE Keeps(s, r)
    <3>1. worker[c].session # s
      BY <2>2 DEF Ends
    <3>2. /\ RemoveParticipant(room[worker[c].session], worker[c].session)
          /\ UNCHANGED isClosed
      BY <2>2 DEF Leave, RemoveFrom
    <3> QED BY <3>1, <3>2, RemoveKeeps
  <2>3. ASSUME NEW t \in Call, JoinTimeout(t) PROVE Keeps(s, r)
    <3>1. t # s /\ RemoveParticipant(room[t], t) /\ UNCHANGED isClosed
      BY <1>a, <2>3 DEF JoinTimeout, Verify, RemoveFrom
    <3> QED BY <3>1, RemoveKeeps
  <2>4. ASSUME NEW t \in Call, Fault(t) PROVE Keeps(s, r)
    <3>1. t # s
      BY <2>4 DEF Ends
    <3> QED BY <1>a, <2>4, <3>1 DEF Fault, Close, Keeps
  <2>5. ~RemoveRequest
    BY DEF Ends
  <2>6. CASE DeleteRoomRequest
    BY <1>d, <2>6 DEF DeleteRoomRequest
  <2> QED BY <1>6, <2>1, <2>2, <2>3, <2>4, <2>5, <2>6 DEF Event
<1>7. CASE UNCHANGED vars
  BY <1>d, <1>7 DEF vars
<1> QED BY <1>1, <1>2, <1>3, <1>4, <1>5, <1>6, <1>7 DEF Next, Run

(* For any number of calls, rooms and events: what is left of the sessions
   an identity had before - state callbacks, join timers, workers, Leave
   requests, closers and the Close of other rooms - and the session's own
   timer, callbacks and lost connection never end an active session that
   is settled in an open room.                                             *)
THEOREM SettledSessionsStay == Spec => SettledSessionStays
<1> DEFINE Stays ==
      \A s \in Call, r \in RoomId :
        Settled(s, r) /\ ~Ends(s) => participants'[r] = s /\ s \notin isClosed'
<1>1. Init => LInv
  BY InitTInv, InitLocated DEF Init, HInv, LInv
<1>2. LInv /\ [Next]_vars => LInv'
  BY NextLInv
<1>3. LInv /\ [Next]_vars => [Stays]_vars
  BY SettledStays DEF LInv, HInv, Keeps
<1> QED BY <1>1, <1>2, <1>3, PTL DEF Spec, SettledSessionStays
=============================================================================
