------------------------------ MODULE Session ------------------------------
(***************************************************************************)
(* The client programs around the server of Rooms: the scene each one      *)
(* shows, what it remembers of its room, and the packets on their way in   *)
(* both directions.  A client handles its packets one by one               *)
(* (ProcessPacket of LunaticProject.cpp) and sends at mouse clicks         *)
(* (Lobby.cpp, Room.cpp, WndProc) and frames (GameFramework.cpp).          *)
(*                                                                         *)
(* Nobody drops here.  The match itself is reduced to its end (EndMatch);  *)
(* Match.tla has the rest.  The packets that only change the lobby's list, *)
(* names or heroes are left out.                                           *)
(***************************************************************************)
EXTENDS Rooms, Sequences

CONSTANT Pace       \* how players click, see MayClick

\* No drops, and a room for every player who asks for one.
ASSUME SessionAssumption ==
    /\ Pace \in {"calm", "patient"}
    /\ ~MayDrop
    /\ MaxUser <= MaxRoom

Ids == 0 .. MaxGamer - 1

VARIABLES
    c2s, s2c,       \* packets in flight from and to each client
    scene,          \* ChangeScene; ENDING is LOBBY with isEnding
    building,       \* LoadingScene: BuildObjects is due in the next frame
    result,         \* isWinResult or isLoseResult
    myRoom, myGame, \* MyRoomNumber, myGame_id, -1 at first
    shown,          \* the ids whose RoomUI[id].IsReady is set
    serverID,       \* pHeroObject[id]->m_serverID
    teams,          \* the ids whose pHeroObject[id]->m_Team is set
    over            \* rooms whose match has ended

clientState == <<scene, building, result, myRoom, myGame, shown, serverID, teams>>
sessionVars == <<vars, c2s, s2c, clientState, over>>

SessionInit ==
    /\ Init
    /\ c2s = [s \in Users |-> <<>>]
    /\ s2c = [s \in Users |-> <<>>]
    /\ scene = [s \in Users |-> "MAINMENU"]
    /\ building = [s \in Users |-> FALSE]
    /\ result = [s \in Users |-> FALSE]
    /\ myRoom = [s \in Users |-> -1]
    /\ myGame = [s \in Users |-> -1]
    /\ shown = [s \in Users |-> {}]
    /\ serverID = [s \in Users |-> [i \in Ids |-> 0]]
    /\ teams = [s \in Users |-> {}]
    /\ over = {}

-----------------------------------------------------------------------------
(* Server: connecting, and handling the next packet of a client.           *)

\* Append to the stream of each d \in DOMAIN msgs the packets msgs[d]
SendTo(msgs) ==
    s2c' = [d \in Users |-> IF d \in DOMAIN msgs THEN s2c[d] \o msgs[d] ELSE s2c[d]]

\* One packet, to s only
Answer(s, p) == [d \in {s} |-> <<p>>]

\* The packets, each with what its sender fills in and a client reads
\* packet.serverID of SC_READY
ReadyServerID_bug(s) == gameID[s]
ReadyServerID(s) == s

\* The room number in an answer
RoomTold_bug(r) == roomNum
RoomTold(r) == r

IDPacket == [t |-> "ID"]
\* SC_JOIN_ROOM and SC_QUICK_JOIN
JoinedPacket(s, r) == [t |-> "JOINED", r |-> RoomTold(r), g |-> gameID'[s]]
\* SC_JOIN_FAIL_*, SC_QUICK_JOIN_FAIL
FailPacket == [t |-> "FAIL"]
EnterPacket == [t |-> "ENTER"]
ReadyPacket(s) == [t |-> "READY", g |-> gameID[s], sid |-> ReadyServerID(s)]
AllReadyPacket == [t |-> "ALLREADY"]
PutPacket(s) == [t |-> "PUT", g |-> gameID[s]]
ResultPacket == [t |-> "RESULT"]

Connect(s) ==
    /\ Accept(s)
    /\ SendTo(Answer(s, IDPacket))
    /\ UNCHANGED <<c2s, clientState, over>>

\* Answers to the three ways into a room: SC_JOIN_ROOM or SC_QUICK_JOIN to
\* the newcomer, then SC_ENTER_NEWPLAYER to and about every other member.
Joined(s, r) ==
    LET others == members'[r] \ {s} IN
    SendTo([d \in members'[r] |->
        IF d = s
        THEN <<JoinedPacket(s, r)>> \o [i \in 1 .. Cardinality(others) |-> EnterPacket]
        ELSE <<EnterPacket>>])

HandleMake(s) ==
    /\ MakeRoom(s)
    /\ SendTo(Answer(s, JoinedPacket(s, roomNum')))

HandleJoin(s, r) ==
    /\ JoinRoom(s, r)
    /\ IF status[r] \in Refused
       THEN SendTo(Answer(s, FailPacket))
       ELSE Joined(s, r)

HandleQuick(s) ==
    /\ QuickJoin(s)
    /\ IF Joinable = {}
       THEN SendTo(Answer(s, FailPacket))
       ELSE Joined(s, FirstRoom(Joinable))

\* SC_READY to the room, then SC_ALLREADY if the game starts.
HandleReady(s, r) ==
    /\ Ready(s, r)
    /\ SendTo([d \in members[r] |->
           <<ReadyPacket(s)>> \o IF AllReady(r) THEN <<AllReadyPacket>> ELSE <<>>])

\* A std::set is walked in ascending order.
InOrder(S) ==
    {q \in [1 .. Cardinality(S) -> S] : \A i, j \in DOMAIN q : i < j => q[i] < q[j]}

\* SC_PUT_PLAYER of everyone who has loaded, once all have.
HandleLoaded(s, r) ==
    /\ LoadComplete(s, r)
    /\ IF AllLoaded(r)
       THEN \E order \in InOrder(accepted'[r]) :
            SendTo([d \in members[r] |-> [i \in DOMAIN order |-> PutPacket(order[i])]])
       ELSE UNCHANGED s2c

HandleConfirm(s, r) ==
    /\ ResultConfirm(s, r)
    /\ over' = IF members'[r] = {} THEN over \ {r} ELSE over
    /\ UNCHANGED s2c

\* A worker reads a whole packet of s and runs ProcessPacket.
Serve(s) ==
    /\ Served(s) /\ c2s[s] # <<>>
    /\ c2s' = [c2s EXCEPT ![s] = Tail(@)]
    /\ LET p == Head(c2s[s]) IN
       \/ p.t = "MAKE" /\ HandleMake(s) /\ UNCHANGED over
       \/ p.t = "JOIN" /\ HandleJoin(s, p.r) /\ UNCHANGED over
       \/ p.t = "QUICK" /\ HandleQuick(s) /\ UNCHANGED over
       \/ p.t = "READY" /\ HandleReady(s, p.r) /\ UNCHANGED over
       \/ p.t = "LOADED" /\ HandleLoaded(s, p.r) /\ UNCHANGED over
       \/ p.t = "CONFIRM" /\ HandleConfirm(s, p.r)
    /\ UNCHANGED clientState

\* A kill decides the match of room r: SC_RESULT to its members.
EndMatch(r) ==
    /\ status[r] = "INGAME" /\ r \notin over
    /\ \E s \in members[r] : scene[s] = "GAME"
    /\ over' = over \cup {r}
    /\ SendTo([d \in members[r] |-> <<ResultPacket>>])
    /\ UNCHANGED <<vars, c2s, clientState>>

-----------------------------------------------------------------------------
(* Client: handling the next packet from the server.                       *)

Receives(s, t) ==
    /\ s2c[s] # <<>> /\ Head(s2c[s]).t = t
    /\ s2c' = [s2c EXCEPT ![s] = Tail(@)]
    /\ UNCHANGED <<vars, c2s, over>>

GotID(s) ==
    /\ Receives(s, "ID")
    /\ scene' = [scene EXCEPT ![s] = "LOBBY"]
    /\ UNCHANGED <<building, result, myRoom, myGame, shown, serverID, teams>>

\* SC_JOIN_ROOM, SC_QUICK_JOIN
GotJoined(s) ==
    /\ Receives(s, "JOINED")
    /\ scene' = [scene EXCEPT ![s] = "ROOM"]
    /\ myRoom' = [myRoom EXCEPT ![s] = Head(s2c[s]).r]
    /\ myGame' = [myGame EXCEPT ![s] = Head(s2c[s]).g]
    /\ UNCHANGED <<building, result, shown, serverID, teams>>

\* SC_JOIN_FAIL_*, SC_QUICK_JOIN_FAIL: nothing but a redraw
GotFail(s) == Receives(s, "FAIL") /\ UNCHANGED clientState

\* SC_ENTER_NEWPLAYER: all RoomUI[i].IsReady and HeroSelect are cleared.
ShownAfterEnter_bug(s) == shown[s]
ShownAfterEnter(s) == {}
GotEnter(s) ==
    /\ Receives(s, "ENTER")
    /\ shown' = [shown EXCEPT ![s] = ShownAfterEnter(s)]
    /\ UNCHANGED <<scene, building, result, myRoom, myGame, serverID, teams>>

\* SC_READY: the team of its sender; of another player also that it is ready
\* and which server id it has.
GotReady(s) ==
    LET p == Head(s2c[s]) IN
    /\ Receives(s, "READY")
    /\ teams' = [teams EXCEPT ![s] = @ \cup {p.g}]
    /\ IF p.g = myGame[s]
       THEN UNCHANGED <<shown, serverID>>
       ELSE /\ shown' = [shown EXCEPT ![s] = @ \cup {p.g}]
            /\ serverID' = [serverID EXCEPT ![s][p.g] = p.sid]
    /\ UNCHANGED <<scene, building, result, myRoom, myGame>>

GotAllReady(s) ==
    /\ Receives(s, "ALLREADY")
    /\ scene' = [scene EXCEPT ![s] = "LOADING"]
    /\ building' = [building EXCEPT ![s] = TRUE]
    /\ UNCHANGED <<result, myRoom, myGame, shown, serverID, teams>>

\* SC_PUT_PLAYER: gRoom.Init(); the own hero's one starts the game.
GotPut(s) ==
    /\ Receives(s, "PUT")
    /\ shown' = [shown EXCEPT ![s] = {}]
    /\ scene' = [scene EXCEPT ![s] = IF Head(s2c[s]).g = myGame[s] THEN "GAME" ELSE @]
    /\ UNCHANGED <<building, result, myRoom, myGame, serverID, teams>>

\* A client that knows no team of its own takes no side and no notice.
GotResult(s) ==
    /\ Receives(s, "RESULT")
    /\ result' = [result EXCEPT ![s] = @ \/ myGame[s] \in teams[s]]
    /\ UNCHANGED <<scene, building, myRoom, myGame, shown, serverID, teams>>

Receive(s) ==
    \/ GotID(s) \/ GotJoined(s) \/ GotFail(s) \/ GotEnter(s)
    \/ GotReady(s) \/ GotAllReady(s) \/ GotPut(s) \/ GotResult(s)

-----------------------------------------------------------------------------
(* Client: clicks and frames.                                              *)

Settled(s) == c2s[s] = <<>> /\ s2c[s] = <<>>

\* calm: players are slower than the whole network.  patient: a player is
\* slower than the packets on its own connection.
MayClick(s) ==
    \/ Pace = "calm" /\ \A d \in Users : Settled(d)
    \/ Pace = "patient" /\ Settled(s)

Sends(s, ps) ==
    /\ c2s' = [c2s EXCEPT ![s] = @ \o ps]
    /\ UNCHANGED <<vars, s2c, over>>

\* Confirming a new room shows the ROOM scene before the server answers.
ClickMake(s) ==
    /\ scene[s] = "LOBBY" /\ MayClick(s)
    /\ Sends(s, <<[t |-> "MAKE"]>>)
    /\ scene' = [scene EXCEPT ![s] = "ROOM"]
    /\ UNCHANGED <<building, result, myRoom, myGame, shown, serverID, teams>>

\* A click on a room of the list, or on quick join
LobbyRequest == {<<[t |-> "JOIN", r |-> r]>> : r \in RoomIds} \cup {<<[t |-> "QUICK"]>>}
ClickJoin(s) ==
    /\ scene[s] = "LOBBY" /\ MayClick(s)
    /\ \E ps \in LobbyRequest : Sends(s, ps)
    /\ UNCHANGED clientState

\* The ready button works once, until IsReady is cleared again.  Before the
\* first answer the client looks at RoomUI[-1]; that press is left out.
ClickReady(s) ==
    /\ scene[s] = "ROOM" /\ MayClick(s) /\ myGame[s] \in Ids \ shown[s]
    /\ shown' = [shown EXCEPT ![s] = @ \cup {myGame[s]}]
    /\ Sends(s, <<[t |-> "READY", r |-> myRoom[s]]>>)
    /\ UNCHANGED <<scene, building, result, myRoom, myGame, serverID, teams>>

\* The frame after SC_ALLREADY builds the scene and reports it.
AfterBuild_bug == TRUE
AfterBuild == FALSE
Build(s) ==
    /\ building[s]
    /\ building' = [building EXCEPT ![s] = AfterBuild]
    /\ Sends(s, <<[t |-> "LOADED", r |-> myRoom[s]]>>)
    /\ UNCHANGED <<scene, result, myRoom, myGame, shown, serverID, teams>>

\* Five seconds after a result the client shows the lobby with the table.
ShowEnding(s) ==
    /\ scene[s] = "GAME" /\ result[s]
    /\ scene' = [scene EXCEPT ![s] = "ENDING"]
    /\ result' = [result EXCEPT ![s] = FALSE]
    /\ UNCHANGED <<vars, c2s, s2c, over, building, myRoom, myGame, shown, serverID, teams>>

\* The click that leaves the table confirms it, and the same click may hit
\* a room or the quick join button behind it.  HeroInit forgets server ids
\* and teams.
ClickConfirm(s) ==
    /\ scene[s] = "ENDING" /\ MayClick(s)
    /\ \E ps \in {<<>>} \cup LobbyRequest :
           Sends(s, <<[t |-> "CONFIRM", r |-> myRoom[s]]>> \o ps)
    /\ scene' = [scene EXCEPT ![s] = "LOBBY"]
    /\ serverID' = [serverID EXCEPT ![s] = [i \in Ids |-> 0]]
    /\ teams' = [teams EXCEPT ![s] = {}]
    /\ UNCHANGED <<building, result, myRoom, myGame, shown>>

-----------------------------------------------------------------------------
SessionNext ==
    \/ \E s \in Users :
          \/ Connect(s) \/ Serve(s) \/ Receive(s)
          \/ ClickMake(s) \/ ClickJoin(s) \/ ClickReady(s)
          \/ Build(s) \/ ShowEnding(s) \/ ClickConfirm(s)
    \/ \E r \in RoomIds : EndMatch(r)

SessionSpec == SessionInit /\ [][SessionNext]_sessionVars

\* TCP delivers, a free worker takes the next packet, a client's message
\* loop handles what arrived and draws frames.  Players owe nothing.
FairSession ==
    /\ SessionSpec
    /\ \A s \in Users : /\ WF_sessionVars(Serve(s))
                        /\ WF_sessionVars(Receive(s))
                        /\ WF_sessionVars(Build(s))

-----------------------------------------------------------------------------
(* Properties.  Rooms!Spec itself is one: clients that wait for answers    *)
(* send the server only what Rooms lets them send.                         *)

Playing == {"LOADING", "GAME", "ENDING"}

\* No press is lost: once nothing is on its way and the screen of every
\* member says that it is ready, the game has started.  The server forgets
\* presses at a join; it relies on every client to forget its own.
NoLostReady ==
    \A r \in RoomIds :
        (/\ members[r] # {}
         /\ \A s \in members[r] : Settled(s) /\ myGame[s] \in shown[s])
        => status[r] = "INGAME"

\* m_MyRoomNumber and myGame_id are copies that no packet refreshes: from the
\* loading screen to the confirmation they are the server's.
CopiesAgree ==
    \A s \in Users : scene[s] \in Playing =>
        /\ myRoom[s] \in RoomIds /\ s \in members[myRoom[s]]
        /\ myGame[s] = gameID[s]

\* The loading barrier: nobody plays while a member of its room still loads
\* or has not even heard of the start.
LoadBarrier ==
    \A s \in Users, r \in RoomIds : (s \in members[r] /\ scene[s] = "GAME") =>
        \A d \in members[r] : scene[d] # "ROOM" /\ ~building[d]

\* A hit is addressed with m_serverID: in the game each client knows the
\* right slot for every hero of its room.
ServerIDsKnown ==
    \A s \in Users, r \in RoomIds : (s \in members[r] /\ scene[s] = "GAME") =>
        \A d \in members[r] \ {s} : serverID[s][gameID[d]] = d

\* Every member of a started game gets to play it.
EveryonePlays ==
    \A s \in Users, r \in RoomIds :
        (s \in members[r] \ accepted[r] /\ status[r] = "INGAME")
            ~> (scene[s] = "GAME")

\* "When every player is ready, announce the start of the game": whoever is
\* still in the room scene of a running game has pressed ready.
StartedByAll ==
    \A s \in Users, r \in RoomIds :
        (s \in members[r] /\ status[r] = "INGAME" /\ scene[s] = "ROOM")
        => myGame[s] \in shown[s]
=============================================================================
