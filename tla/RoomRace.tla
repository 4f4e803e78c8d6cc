----------------------------- MODULE RoomRace -----------------------------
(***************************************************************************)
(* The packet handlers of Rooms as the worker threads really run them:     *)
(* statement by statement, several at a time.  vl_lock is the lock of the  *)
(* acting client, so it keeps nobody out of a room; g_RoomNum, the ROOM    *)
(* records and their sets are shared without protection.                   *)
(*                                                                         *)
(* A client has one handler at a time, because its next receive is posted  *)
(* when the last one was handled.  Every slot is connected.  Answers reach *)
(* the clients at once: how long they travel is the subject of Session.    *)
(* A loop over users or members is one step, and so is one SendRoomInfo to *)
(* everybody; a test and what follows it, an increment's load and store,   *)
(* and a set's insert and its surroundings are steps of their own.         *)
(***************************************************************************)
EXTENDS Rooms

CONSTANT MayCollide     \* does a run go on after a Collision?

ASSUME RaceAssumption == MayCollide \in BOOLEAN /\ ~MayDrop /\ ~MayOverflow

VARIABLES
    task,           \* what the handler of each slot does next, and for
                    \* which room; n is a value it holds in a register
    stage,          \* what the client shows: LOBBY, ROOM, LOADING or GAME
    myRoom,         \* MyRoomNumber of the client; 0 while it is not used
    pressed,        \* RoomUI[myGame_id].IsReady of the client
    list,           \* gLobby.room of the client: status and player count;
                    \* NoList while the lobby is not shown
    overlapped,     \* history: have two handlers ever run at a time?
    collided,       \* history: was there a Collision in an earlier state?
    before          \* history: the server when the only handler began

server == <<connect, lobby, gameID, roomNum, status, members, accepted,
            readycount, loadcount, hung>>
client == <<stage, myRoom, pressed, list>>
raceVars == <<vars, task, client, overlapped, collided, before>>

Idle == [at |-> "idle", r |-> 0, n |-> 0]
Snapshot == [lobby |-> lobby, gameID |-> gameID, roomNum |-> roomNum,
             status |-> status, members |-> members, accepted |-> accepted,
             readycount |-> readycount, loadcount |-> loadcount]
Listed(r) == [status |-> status[r], count |-> Size(r)]
NoList == [r \in RoomIds |-> [status |-> "EMPTY", count |-> 0]]

\* All are in the lobby and have got the list of empty rooms.
RaceInit ==
    /\ connect = [s \in Users |-> TRUE]
    /\ lobby = [s \in Users |-> TRUE]
    /\ gameID = [s \in Users |-> 0]
    /\ roomNum = 0
    /\ status = [r \in RoomIds |-> "EMPTY"]
    /\ members = [r \in RoomIds |-> {}]
    /\ accepted = [r \in RoomIds |-> {}]
    /\ readycount = [r \in RoomIds |-> 0]
    /\ loadcount = [r \in RoomIds |-> 0]
    /\ hung = {}
    /\ task = [s \in Users |-> Idle]
    /\ stage = [s \in Users |-> "LOBBY"]
    /\ myRoom = [s \in Users |-> 0]
    /\ pressed = [s \in Users |-> FALSE]
    /\ list = [s \in Users |-> NoList]
    /\ overlapped = FALSE
    /\ collided = FALSE
    /\ before = <<>>

-----------------------------------------------------------------------------
(* Threads *)

Running == {s \in Users : task[s] # Idle}
Quiet == Running = {}
At(s, where) == task[s].at = where

\* The room a handler works on.  CS_MAKE_ROOM works on whatever g_RoomNum is
\* at that moment; a handler that only sends the list works on none.
Making(t) == t.at \in {"make.leave", "make.fill", "make.insert", "make.tell", "make.info"}
WorksOn(t, r) == t # Idle /\ t.at # "leave.info" /\ r = IF Making(t) THEN roomNum ELSE t.r
Untouched(r) == \A s \in Users : ~WorksOn(task[s], r)

\* Two handlers work on one room, or two make one.
Collision ==
    \E s, t \in Users : s # t /\
        \/ Making(task[s]) /\ Making(task[t])
        \/ \E r \in RoomIds : WorksOn(task[s], r) /\ WorksOn(task[t], r)

\* The handler of s goes on at "at", for room r
Goto(s, at, r, n) ==
    /\ Collision => MayCollide
    /\ task' = [task EXCEPT ![s] = [at |-> at, r |-> r, n |-> n]]
    /\ overlapped' = (overlapped \/ Running \ {s} # {})
    /\ collided' = (collided \/ Collision)
    /\ before' = IF overlapped' THEN <<>> ELSE IF Quiet THEN Snapshot ELSE before

\* ProcessPacket returns
Return(s) ==
    /\ Collision => MayCollide
    /\ task' = [task EXCEPT ![s] = Idle]
    /\ collided' = (collided \/ Collision)
    /\ before' = <<>>
    /\ UNCHANGED overlapped

\* A worker takes a packet of s up.
Takes(s) == task[s] = Idle /\ Cardinality(Running) < Workers

-----------------------------------------------------------------------------
(* CS_MAKE_ROOM *)

MakeScan_bug(s) == FirstRoom({r \in RoomIds : status[r] # "INGAME"})
MakeScan(s) == FirstRoom(EmptyRooms)

ScanMake(s) ==
    /\ Takes(s) /\ stage[s] = "LOBBY" /\ EmptyRooms # {}
    /\ roomNum' = MakeScan(s)
    /\ Goto(s, "make.leave", 0, 0)
    /\ UNCHANGED <<clientVars, roomVars, hung, client>>

LeaveMake(s) ==
    /\ At(s, "make.leave")
    /\ gameID' = [gameID EXCEPT ![s] = 0]
    /\ lobby' = [lobby EXCEPT ![s] = FALSE]
    /\ Goto(s, "make.fill", 0, 0)
    /\ UNCHANGED <<connect, roomNum, roomVars, hung, client>>

FillMake(s) ==
    /\ At(s, "make.fill")
    /\ status' = [status EXCEPT ![roomNum] = "JOINABLE"]
    /\ Goto(s, "make.insert", 0, 0)
    /\ UNCHANGED <<clientVars, roomNum, members, accepted, readycount,
                   loadcount, hung, client>>

\* m_GameID_list.insert and m_AcceptLoading_list.insert.  Another thread
\* inside the same set at the same time may make it lose the element.
Busy(s, places, r) ==
    \E t \in Running \ {s} : task[t].at \in places /\ WorksOn(task[t], r)
MemberPlaces == {"make.insert", "join.insert", "leave.erase"}
Insert(s, r) ==
    \/ members' = [members EXCEPT ![r] = @ \cup {s}]
    \/ Busy(s, MemberPlaces, r) /\ UNCHANGED members

InsertMake(s) ==
    /\ At(s, "make.insert")
    /\ Insert(s, roomNum)
    /\ Goto(s, "make.tell", 0, 0)
    /\ UNCHANGED <<clientVars, roomNum, status, accepted, readycount,
                   loadcount, hung, client>>

\* SendJoinRoom
TellMake(s) ==
    /\ At(s, "make.tell")
    /\ stage' = [stage EXCEPT ![s] = "ROOM"]
    /\ myRoom' = [myRoom EXCEPT ![s] = roomNum]
    /\ pressed' = [pressed EXCEPT ![s] = FALSE]
    /\ list' = [list EXCEPT ![s] = NoList]
    /\ Goto(s, "make.info", 0, 0)
    /\ UNCHANGED vars

\* SendRoomInfo to everyone in the lobby, of the rooms of R
SendRoomInfo_bug(R) ==
    [u \in Users |-> [r \in RoomIds |->
        IF r \in R /\ stage[u] = "LOBBY" /\ status[r] # "EMPTY" THEN Listed(r) ELSE list[u][r]]]
SendRoomInfo(R) ==
    [u \in Users |-> [r \in RoomIds |->
        IF r \in R /\ connect[u] /\ lobby[u] THEN Listed(r) ELSE list[u][r]]]

InfoMake(s) ==
    /\ At(s, "make.info")
    /\ list' = SendRoomInfo({roomNum})
    /\ Return(s)
    /\ UNCHANGED <<vars, stage, myRoom, pressed>>

-----------------------------------------------------------------------------
(* CS_JOIN_ROOM and CS_QUICK_JOIN *)

TestJoin(s, r) ==
    /\ Takes(s) /\ stage[s] = "LOBBY" /\ status[r] \notin Refused
    /\ Goto(s, "join.enter", r, 0)
    /\ UNCHANGED <<vars, client>>

ScanQuick(s) ==
    /\ Takes(s) /\ stage[s] = "LOBBY" /\ Joinable # {}
    /\ Goto(s, "join.enter", FirstRoom(Joinable), 0)
    /\ UNCHANGED <<vars, client>>

ResetCount_bug(r) == readycount[r]
ResetCount(r) == 0
EnterJoin(s) ==
    LET r == task[s].r IN
    /\ At(s, "join.enter")
    /\ readycount' = [readycount EXCEPT ![r] = ResetCount(r)]
    /\ lobby' = [lobby EXCEPT ![s] = FALSE]
    /\ Goto(s, "join.insert", r, 0)
    /\ UNCHANGED <<connect, gameID, roomNum, status, members, accepted,
                   loadcount, hung, client>>

InsertJoin(s) ==
    /\ At(s, "join.insert")
    /\ Insert(s, task[s].r)
    /\ Goto(s, "join.number", task[s].r, 0)
    /\ UNCHANGED <<clientVars, roomNum, status, accepted, readycount,
                   loadcount, hung, client>>

NumberJoin(s) ==
    LET r == task[s].r IN
    /\ At(s, "join.number")
    /\ gameID' = [gameID EXCEPT ![s] = NewGameID(Size(r))]
    /\ Goto(s, "join.full", r, 0)
    /\ UNCHANGED <<connect, lobby, roomNum, roomVars, hung, client>>

FullJoin(s) ==
    LET r == task[s].r IN
    /\ At(s, "join.full")
    /\ status' = [status EXCEPT ![r] = EnteredStatus(Size(r), @)]
    /\ Goto(s, "join.tell", r, 0)
    /\ UNCHANGED <<clientVars, roomNum, members, accepted, readycount,
                   loadcount, hung, client>>

\* SendJoinRoom, then SendEnterNewPlayer to and about every other member
TellJoin(s) ==
    LET r == task[s].r IN
    /\ At(s, "join.tell")
    /\ stage' = [stage EXCEPT ![s] = "ROOM"]
    /\ myRoom' = [myRoom EXCEPT ![s] = r]
    /\ pressed' = [u \in Users |-> u \notin members[r] \cup {s} /\ pressed[u]]
    /\ list' = [list EXCEPT ![s] = NoList]
    /\ Goto(s, "join.info", r, 0)
    /\ UNCHANGED vars

InfoJoin(s) ==
    /\ At(s, "join.info")
    /\ list' = SendRoomInfo({task[s].r})
    /\ Return(s)
    /\ UNCHANGED <<vars, stage, myRoom, pressed>>

-----------------------------------------------------------------------------
(* CS_READY: ++m_readycount loads the byte and stores it *)

\* A click on READY
TakeReady(s) ==
    LET r == myRoom[s] IN
    /\ Takes(s) /\ stage[s] = "ROOM" /\ ~pressed[s] /\ readycount[r] < ReadyBound
    /\ pressed' = [pressed EXCEPT ![s] = TRUE]
    /\ Goto(s, "ready.store", r, readycount[r])
    /\ UNCHANGED <<vars, stage, myRoom, list>>

StoreReady(s) ==
    LET r == task[s].r IN
    /\ At(s, "ready.store")
    /\ readycount' = [readycount EXCEPT ![r] = Inc(task[s].n)]
    /\ Goto(s, "ready.test", r, 0)
    /\ UNCHANGED <<clientVars, roomNum, status, members, accepted, loadcount,
                   hung, client>>

\* The answer goes to the room before the test.
TestReady(s) ==
    LET r == task[s].r IN
    /\ At(s, "ready.test")
    /\ IF readycount[r] = Size(r)
       THEN /\ readycount' = [readycount EXCEPT ![r] = 0]
            /\ status' = [status EXCEPT ![r] = "INGAME"]
            /\ Goto(s, "ready.start", r, 0)
       ELSE UNCHANGED <<readycount, status>> /\ Return(s)
    /\ UNCHANGED <<clientVars, roomNum, members, accepted, loadcount, hung, client>>

\* SC_ALLREADY, a second later: whoever is a member now starts loading.
StartReady(s) ==
    /\ At(s, "ready.start")
    /\ stage' = [u \in Users |-> IF u \in members[task[s].r] THEN "LOADING" ELSE stage[u]]
    /\ Return(s)
    /\ UNCHANGED <<vars, myRoom, pressed, list>>

-----------------------------------------------------------------------------
(* CS_LOADCOMPLETE: the count is raised before the lock is taken *)

\* FrameAdvance with LoadingScene set
TakeLoaded(s) ==
    LET r == myRoom[s] IN
    /\ Takes(s) /\ stage[s] = "LOADING"
    /\ stage' = [stage EXCEPT ![s] = "LOADED"]
    /\ Goto(s, "load.store", r, loadcount[r])
    /\ UNCHANGED <<vars, myRoom, pressed, list>>

StoreLoaded(s) ==
    LET r == task[s].r IN
    /\ At(s, "load.store")
    /\ loadcount' = [loadcount EXCEPT ![r] = Inc(task[s].n)]
    /\ Goto(s, "load.insert", r, 0)
    /\ UNCHANGED <<clientVars, roomNum, status, members, accepted, readycount,
                   hung, client>>

InsertLoaded(s) ==
    LET r == task[s].r IN
    /\ At(s, "load.insert")
    /\ \/ accepted' = [accepted EXCEPT ![r] = AcceptedWith(s, r)]
       \/ Busy(s, {"load.insert"}, r) /\ UNCHANGED accepted
    /\ Goto(s, "load.test", r, 0)
    /\ UNCHANGED <<clientVars, roomNum, status, members, readycount, loadcount,
                   hung, client>>

\* SC_PUT_PLAYER to the members clears their room; the one with a client's own
\* id shows it the game.
TestLoaded(s) ==
    LET r == task[s].r
        put == {gameID[a] : a \in accepted[r]} IN
    /\ At(s, "load.test")
    /\ IF loadcount[r] = Size(r)
       THEN /\ loadcount' = [loadcount EXCEPT ![r] = 0]
            /\ stage' = [u \in Users |-> IF u \in members[r] /\ gameID[u] \in put
                                         THEN "GAME" ELSE stage[u]]
            /\ pressed' = [u \in Users |-> u \notin members[r] /\ pressed[u]]
       ELSE UNCHANGED <<loadcount, stage, pressed>>
    /\ Return(s)
    /\ UNCHANGED <<clientVars, roomNum, status, members, accepted, readycount,
                   hung, myRoom, list>>

-----------------------------------------------------------------------------
(* CS_RESULTCONFIRM (LobbyReset) *)

\* The match is over and its table was clicked away.
TakeConfirm(s) ==
    /\ Takes(s) /\ stage[s] = "GAME"
    /\ stage' = [stage EXCEPT ![s] = "LOBBY"]
    /\ lobby' = [lobby EXCEPT ![s] = TRUE]
    /\ gameID' = [gameID EXCEPT ![s] = 0]
    /\ myRoom' = [myRoom EXCEPT ![s] = 0]
    /\ Goto(s, "leave.erase", myRoom[s], 0)
    /\ UNCHANGED <<connect, roomNum, roomVars, hung, pressed, list>>

EraseConfirm(s) ==
    LET r == task[s].r IN
    /\ At(s, "leave.erase")
    /\ members' = [members EXCEPT ![r] = MembersWithout(s, r)]
    /\ Goto(s, "leave.test", r, 0)
    /\ UNCHANGED <<clientVars, roomNum, status, accepted, readycount, loadcount,
                   hung, client>>

TestConfirm(s) ==
    LET r == task[s].r IN
    /\ At(s, "leave.test")
    /\ Goto(s, IF members[r] = {} THEN "leave.clear" ELSE "leave.info", r, 0)
    /\ UNCHANGED <<vars, client>>

\* Also clears the list, whoever is in it by now
ClearConfirm(s) ==
    LET r == task[s].r IN
    /\ At(s, "leave.clear")
    /\ status' = [status EXCEPT ![r] = "EMPTY"]
    /\ members' = [members EXCEPT ![r] = {}]
    /\ accepted' = [accepted EXCEPT ![r] = {}]
    /\ readycount' = [readycount EXCEPT ![r] = 0]
    /\ loadcount' = [loadcount EXCEPT ![r] = 0]
    /\ Goto(s, "leave.info", r, 0)
    /\ UNCHANGED <<clientVars, roomNum, hung, client>>

InfoConfirm(s) ==
    /\ At(s, "leave.info")
    /\ list' = SendRoomInfo(RoomIds)
    /\ Return(s)
    /\ UNCHANGED <<vars, stage, myRoom, pressed>>

-----------------------------------------------------------------------------
RaceNext ==
    \E s \in Users :
        \/ ScanMake(s) \/ LeaveMake(s) \/ FillMake(s) \/ InsertMake(s)
        \/ TellMake(s) \/ InfoMake(s)
        \/ ScanQuick(s) \/ \E r \in RoomIds : TestJoin(s, r)
        \/ EnterJoin(s) \/ InsertJoin(s) \/ NumberJoin(s) \/ FullJoin(s)
        \/ TellJoin(s) \/ InfoJoin(s)
        \/ TakeReady(s) \/ StoreReady(s) \/ TestReady(s) \/ StartReady(s)
        \/ TakeLoaded(s) \/ StoreLoaded(s) \/ InsertLoaded(s) \/ TestLoaded(s)
        \/ TakeConfirm(s) \/ EraseConfirm(s) \/ TestConfirm(s)
        \/ ClearConfirm(s) \/ InfoConfirm(s)

RaceSpec == RaceInit /\ [][RaceNext]_raceVars

-----------------------------------------------------------------------------
(* Properties *)

\* What the server looks like between two handlers
Settled(now, then) == IF Quiet THEN now ELSE then
R == INSTANCE Rooms WITH
        lobby <- Settled(lobby, before.lobby),
        gameID <- Settled(gameID, before.gameID),
        roomNum <- Settled(roomNum, before.roomNum),
        status <- Settled(status, before.status),
        members <- Settled(members, before.members),
        accepted <- Settled(accepted, before.accepted),
        readycount <- Settled(readycount, before.readycount),
        loadcount <- Settled(loadcount, before.loadcount)

\* Rooms.tla takes a handler for one step.  As long as no two handlers have
\* overlapped, the statements of PacketFunc.cpp, run one after the other,
\* amount to a step of Rooms, taken at the return.
SerialIsAtomic == [][~overlapped' => R!Next \/ UNCHANGED R!vars]_raceVars

\* Handlers that overlap do no harm while they work on different rooms and
\* only one of them makes a room: g_RoomNum and the records are shared, but
\* every room that nobody is working on is sound, and every client that
\* waits for nothing is in the room that it believes to be in.
ApartIsSafe ==
    ~collided /\ ~Collision =>
        /\ \A r \in RoomIds : Untouched(r) =>
              /\ status[r] = "EMPTY" <=> members[r] = {}
              /\ status[r] = "FULL" => Size(r) = MaxGamer
              /\ status[r] = "JOINABLE" => readycount[r] < Size(r) /\ Size(r) < MaxGamer
              /\ loadcount[r] < Size(r) \/ loadcount[r] = 0
              /\ \A s, t \in members[r] : gameID[s] = gameID[t] => s = t
        /\ \A s \in Users : task[s] = Idle =>
              IF stage[s] = "LOBBY" THEN lobby[s] ELSE s \in members[myRoom[s]]

\* The list that a client in the lobby shows is what the rooms are, although
\* nobody asks for it and each handler sends only the rooms it believes to
\* have changed.  One change is never announced: the start of a game.
ListUpToDate ==
    ~overlapped /\ Quiet =>
        \A u \in Users, r \in RoomIds : lobby[u] =>
            /\ list[u][r].count = Size(r)
            /\ list[u][r].status = status[r] \/ (status[r] = "INGAME" /\ Size(r) > 0)

\* "When every player is ready, announce the start of the game"
\* (PacketFunc.cpp:652).
ReadyStartsGame ==
    Quiet => \A r \in RoomIds :
        members[r] # {} /\ (\A s \in members[r] : stage[s] = "ROOM")
            => \E s \in members[r] : ~pressed[s]
=============================================================================
