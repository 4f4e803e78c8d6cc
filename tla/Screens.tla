------------------------------ MODULE Screens ------------------------------
(***************************************************************************)
(* The windows of one client between the login and the match: the boxes of *)
(* the main menu, the lobby with its dialog for a new room, the picks in a *)
(* room and the two chat windows (MainMenu.cpp, Lobby.cpp, Room.cpp, the   *)
(* messages of WndProc and the packets of ProcessPacket they wait for).    *)
(*                                                                         *)
(* The player clicks and types at any moment, whatever is on its way.      *)
(* Session.tla has the same scenes with players that wait for an answer;   *)
(* here the server is what one client sees of it: its own record of this   *)
(* client, and other players that join, pick, talk and start as they like. *)
(* A text is its length; a hero pick is a number; the mode of a room and   *)
(* which button the mouse is over are left out.                            *)
(***************************************************************************)
EXTENDS Integers, Sequences

CONSTANTS
    BoxSize,    \* MAX_ID_LEN, MAX_PASSWORD_LEN, MAX_PASSWORD_LEN of the dialog
    Lines,      \* rows of a chat window (11)
    Seats,      \* the seats of a room that are played, mine among them
    Heroes,     \* the heroes on offer
    Talk,       \* bound: lines of chat that reach this client
    Courses,    \* bound: what happens in one behaviour, "talk" or "play"
    Backlog     \* bound: packets waiting in one direction

ASSUME ScreensAssumption ==
    /\ BoxSize \in Nat \ {0, 1} /\ Lines \in Nat \ {0}
    /\ Seats \subseteq Nat /\ 0 \in Seats /\ Heroes \subseteq Nat \ {0}
    /\ Talk \in Nat /\ Courses \subseteq {"talk", "play"} /\ Backlog \in Nat \ {0}

EMPTY == 0
NoSeat == -1

VARIABLES
    scene,      \* ChangeScene
    isEnding,   \* the table of the match lies over the lobby
    loading,    \* LoadingScene: the next frame builds the scene
    result,     \* isWinResult or isLoseResult
    focus,      \* the window that gets the keys: "main" or "edit" (hChat)
    menu,       \* gMainMenu: user_id, user_password, LoginChat
    dialog,     \* gLobby: RoomCreateWindow, RoomCreateChat, IsPassword, RoomPassword
    chat,       \* gLobby's and gRoom's vOutPut, iLine, iFrontRange, iLastRange, bScrool
    my,         \* myGame_id, and whether the room was ever told (RoomInfo)
    picks, ready, \* gRoom.RoomUI[i]: HeroSelect, IsReady
    heroes,     \* pHeroObject[i]->m_HeroSelect
    srv,        \* the server's record: m_bLobby, its room ("none", "open", "game"),
                \* m_GameID, m_HeroPick, and whether the room has counted it as ready
    c2s, s2c,   \* packets on their way
    course,     \* bound: the course of this behaviour.  "talk": typing and
                \* chat, nobody gets ready.  "play": joins, picks and
                \* matches, with a player who waits for answers.
    talked,     \* bound: chat lines so far
    wiped,      \* history: a lobby chat with lines in it was cleared
    typing,     \* history: the edit box had the focus when the game was called
    hasty       \* history: the player went on before a request was answered

menuVars == <<scene, isEnding, loading, result, focus, menu, dialog>>
roomVars == <<my, picks, ready, heroes>>
netVars == <<srv, c2s, s2c>>
history == <<course, talked, wiped, typing, hasty>>
vars == <<menuVars, chat, roomVars, netVars, history>>

NewChat == [n |-> 0, line |-> 0, front |-> 0, last |-> 0, scroll |-> FALSE]

Init ==
    /\ scene = "MAINMENU" /\ isEnding = FALSE /\ loading = FALSE /\ result = FALSE /\ focus = "main"
    /\ menu = [id |-> 0, pw |-> 0, box |-> "RNOPE"]
    /\ dialog = [open |-> FALSE, box |-> "RNOPE", ticked |-> FALSE, pw |-> 0]
    /\ chat = [w \in {"LOBBY", "ROOM"} |-> NewChat]
    /\ my = [seat |-> NoSeat, told |-> FALSE]
    /\ picks = [i \in Seats |-> EMPTY]
    /\ ready = [i \in Seats |-> FALSE]
    /\ heroes = [i \in Seats |-> EMPTY]
    /\ srv = [lobby |-> FALSE, room |-> "none", seat |-> 0, pick |-> EMPTY, ready |-> FALSE]
    /\ c2s = <<>> /\ s2c = <<>>
    /\ course \in Courses
    /\ talked = 0 /\ wiped = FALSE /\ typing = FALSE /\ hasty = FALSE

-----------------------------------------------------------------------------
(* The player.                                                             *)

Requests == {"MAKE", "JOIN", "QUICK"}
Answers == {"JOINED", "NOJOIN"}

\* A request for a room is unanswered.
Pending ==
    \/ \E i \in DOMAIN c2s : c2s[i].t \in Requests
    \/ \E i \in DOMAIN s2c : s2c[i].t \in Answers

ToServer(m) == Len(c2s) < Backlog /\ c2s' = Append(c2s, m)
ToClient(ms) == Len(s2c) + Len(ms) <= Backlog /\ s2c' = s2c \o ms
Hurry(yes) ==
    /\ yes /\ course = "play" => ~Pending
    /\ hasty' = (hasty \/ (yes /\ Pending))
    /\ UNCHANGED <<course, talked, typing>>

\* One character into a box of n, of which the last place is for the zero.
TypeChar(n) == IF n > BoxSize - 2 THEN n ELSE n + 1
BackSpace(n) == IF n > 0 THEN n - 1 ELSE n

\* CMainMenu::ID_PASSWORD_Input: backspace, character or tab; a full box
\* returns before it looks at the tab.
ID_PASSWORD_Input ==
    /\ scene = "MAINMENU" /\ focus = "main"
    /\ \/ /\ menu.box = "RNAME"
          /\ \/ menu' = [menu EXCEPT !.id = BackSpace(@)]
             \/ menu' = [menu EXCEPT !.id = TypeChar(@)]
             \/ menu.id <= BoxSize - 2 /\ menu' = [menu EXCEPT !.box = "RPASSWORD"]
       \/ /\ menu.box = "RPASSWORD"
          /\ \/ menu' = [menu EXCEPT !.pw = BackSpace(@)]
             \/ menu' = [menu EXCEPT !.pw = TypeChar(@)]
             \/ menu.pw <= BoxSize - 2 /\ menu' = [menu EXCEPT !.box = "RNAME"]
    /\ UNCHANGED <<scene, isEnding, loading, result, focus, dialog, chat, roomVars, netVars, history>>

\* CMainMenu::L_ButtonDown on a box
MenuClick ==
    /\ scene = "MAINMENU"
    /\ \E b \in {"RNAME", "RPASSWORD"} : menu' = [menu EXCEPT !.box = b]
    /\ UNCHANGED <<scene, isEnding, loading, result, focus, dialog, chat, roomVars, netVars, history>>

\* The button and the return key: nothing prevents a second CS_LOGIN.
SendLogin ==
    /\ scene = "MAINMENU" /\ menu.id # 0 /\ menu.pw # 0
    /\ ToServer([t |-> "LOGIN"])
    /\ UNCHANGED <<menuVars, chat, roomVars, srv, s2c, history>>

\* VK_RETURN in the main window, and in the edit box (EditProc), which sends
\* the line, if there is one; over the dialog it is swallowed.
KeyReturn ==
    /\ scene \in {"LOBBY", "ROOM"} /\ focus = "main" /\ focus' = "edit"
    /\ UNCHANGED <<scene, isEnding, loading, result, menu, dialog, chat, roomVars, netVars, history>>

EditReturn ==
    /\ scene \in {"LOBBY", "ROOM"} /\ focus = "edit"
    /\ ~(scene = "LOBBY" /\ dialog.open)
    /\ focus' = "main"
    /\ \/ c2s' = c2s
       \/ course = "talk" /\ ToServer([t |-> IF scene = "LOBBY" THEN "LOBBY_CHAT" ELSE "ROOM_CHAT"])
    /\ UNCHANGED <<scene, isEnding, loading, result, menu, dialog, chat, roomVars, srv, s2c, history>>

\* The player leaves the program's window and comes back to it.
AltTab ==
    /\ focus = "edit" /\ focus' = "main"
    /\ UNCHANGED <<scene, isEnding, loading, result, menu, dialog, chat, roomVars, netVars, history>>

-----------------------------------------------------------------------------
(* The two chat windows.                                                   *)

\* vOutPut.push_back and what follows it
Push(w) ==
    LET n == w.n + 1
        m == [w EXCEPT !.n = n,
                       !.front = IF w.line >= Lines THEN @ + 1 ELSE @,
                       !.line = IF @ >= Lines THEN @ ELSE @ + 1]
    IN IF w.scroll THEN [m EXCEPT !.last = 0, !.front = n - Lines, !.scroll = FALSE]
                   ELSE m

\* MouseWheel.  size() is unsigned: with fewer than Lines lines the
\* difference is a huge number.
WheelDown(w) ==
    IF (w.n < Lines \/ w.n - Lines > w.front) /\ w.line >= Lines
    THEN [w EXCEPT !.front = @ + 1, !.last = @ + 1, !.scroll = TRUE] ELSE w
WheelUp_bug(w) == [w EXCEPT !.front = @ - 1, !.last = @ - 1, !.scroll = TRUE]
WheelUp(w) ==
    IF w.front > 0 THEN [w EXCEPT !.front = @ - 1, !.last = @ - 1, !.scroll = TRUE] ELSE w

\* What Draw iterates over: begin() + iFrontRange up to end() + iLastRange,
\* compared with != and without a look at the ends of the vector.
Drawable(w) ==
    /\ 0 <= w.front /\ w.front <= w.n + w.last
    /\ w.n + w.last <= w.n /\ w.n + w.last - w.front <= Lines

\* A window that cannot be drawn is the end of what is modelled.
Wheel ==
    /\ course = "talk" /\ scene \in {"LOBBY", "ROOM"} /\ Drawable(chat[scene])
    /\ \/ chat' = [chat EXCEPT ![scene] = WheelDown(@)]
       \/ chat' = [chat EXCEPT ![scene] = WheelUp(@)]
    /\ UNCHANGED <<menuVars, roomVars, netVars, history>>

\* gLobby.vOutPut.clear(): the lines go, the counters stay.
ClearLobbyChat ==
    /\ chat' = [chat EXCEPT !["LOBBY"].n = 0]
    /\ wiped' = (wiped \/ chat["LOBBY"].n > 0)

\* EnterRoom()
EnterRoom ==
    /\ scene' = "ROOM" /\ focus' = "main"
    /\ ClearLobbyChat

-----------------------------------------------------------------------------
(* Clicks in the lobby and in a room.                                      *)

\* A click while the table is shown clears the heroes and sends
\* CS_RESULTCONFIRM; the same click then goes on to the lobby below.
Confirm ==
    IF isEnding
    THEN /\ heroes' = [i \in Seats |-> EMPTY]
         /\ isEnding' = FALSE
    ELSE UNCHANGED <<heroes, isEnding>>

Confirmation == IF isEnding THEN <<[t |-> "CONFIRM"]>> ELSE <<>>
SendAlso(ms) == Len(c2s \o Confirmation \o ms) <= Backlog + 1
                /\ c2s' = c2s \o Confirmation \o ms

\* CLobby::L_ButtonDown with the dialog closed: a room, quick join, the
\* button that opens the dialog, or nothing.
LobbyClick ==
    /\ scene = "LOBBY" /\ ~dialog.open
    /\ Confirm
    /\ IF isEnding THEN ClearLobbyChat ELSE UNCHANGED <<chat, wiped>>
    /\ \/ /\ \E t \in {"JOIN", "QUICK"} : SendAlso(<<[t |-> t]>>)
          /\ Hurry(TRUE) /\ UNCHANGED <<focus, dialog>>
       \/ /\ SendAlso(<<>>)
          /\ dialog' = [dialog EXCEPT !.open = TRUE, !.box = "RNOPE"]
          /\ focus' = "main" /\ Hurry(TRUE)
       \/ isEnding /\ SendAlso(<<>>) /\ Hurry(FALSE) /\ UNCHANGED <<focus, dialog>>
    /\ UNCHANGED <<scene, loading, result, menu, my, picks, ready, srv, s2c>>

\* Cancel, or a click outside of the dialog
Cancel == dialog' = [dialog EXCEPT !.open = FALSE, !.ticked = FALSE] /\ focus' = "main"

DialogClick ==
    /\ scene = "LOBBY" /\ dialog.open
    /\ Confirm
    /\ IF isEnding THEN ClearLobbyChat ELSE UNCHANGED <<chat, wiped>>
    /\ SendAlso(<<>>)
    /\ \/ Cancel
       \/ course = "talk" /\ dialog' = [dialog EXCEPT !.box = "RNAME"] /\ focus' = "edit"
       \/ dialog.ticked /\ dialog' = [dialog EXCEPT !.box = "RPASSWORD"] /\ focus' = "main"
       \/ /\ dialog' = [dialog EXCEPT !.pw = 0, !.ticked = ~@,
                                      !.box = IF dialog.ticked THEN "RNOPE" ELSE "RPASSWORD"]
          /\ focus' = IF dialog.ticked THEN focus ELSE "main"
       \/ course = "talk" /\ dialog' = [dialog EXCEPT !.box = "RNOPE"] /\ UNCHANGED focus
    /\ Hurry(FALSE)
    /\ UNCHANGED <<scene, loading, result, menu, my, picks, ready, srv, s2c>>

\* The dialog is confirmed: the room is entered before the server answers.
ConfirmRoom ==
    /\ scene = "LOBBY" /\ dialog.open
    /\ Confirm
    /\ SendAlso(<<[t |-> "MAKE"]>>)
    /\ dialog' = [dialog EXCEPT !.open = FALSE, !.ticked = FALSE]
    /\ EnterRoom
    /\ Hurry(TRUE)
    /\ UNCHANGED <<loading, result, menu, my, picks, ready, srv, s2c>>

\* CLobby::Password_Input
Password_Input ==
    /\ course = "talk" /\ scene = "LOBBY" /\ focus = "main"
    /\ \/ /\ dialog.ticked /\ dialog.box = "RPASSWORD"
          /\ \/ dialog' = [dialog EXCEPT !.pw = BackSpace(@)]
             \/ dialog' = [dialog EXCEPT !.pw = TypeChar(@)]
             \/ dialog.pw <= BoxSize - 2 /\ dialog' = [dialog EXCEPT !.box = "RNAME"]
       \/ dialog.box = "RNAME" /\ dialog' = [dialog EXCEPT !.box = "RPASSWORD"]
    /\ UNCHANGED <<scene, isEnding, loading, result, focus, menu, chat, roomVars, netVars, history>>

\* CRoom::L_ButtonDown on a hero.  (Before the first answer myGame_id is -1
\* and RoomUI[-1] is read: not modelled.)
Pick ==
    /\ course = "play" /\ scene = "ROOM" /\ my.seat # NoSeat /\ ~ready[my.seat]
    /\ \E h \in Heroes : picks' = [picks EXCEPT ![my.seat] = h]
    /\ UNCHANGED <<menuVars, chat, my, ready, heroes, netVars, history>>

\* ... and on the ready button: a hero a team mate is known to have is refused.
ReadyClick ==
    /\ scene = "ROOM" /\ my.seat # NoSeat /\ ~ready[my.seat]
    /\ picks[my.seat] # EMPTY
    /\ \A i \in Seats \ {my.seat} : i % 2 = my.seat % 2 => picks[i] # picks[my.seat]
    /\ ready' = [ready EXCEPT ![my.seat] = TRUE]
    /\ heroes' = [heroes EXCEPT ![my.seat] = picks[my.seat]]
    /\ ToServer([t |-> "READY", pick |-> picks[my.seat]])
    /\ Hurry(TRUE)
    /\ UNCHANGED <<menuVars, chat, my, picks, srv, s2c, wiped>>

-----------------------------------------------------------------------------
(* Frames: the loading, and the end of a match five seconds after a result. *)

LoadingFrame ==
    /\ loading /\ loading' = FALSE
    /\ ToServer([t |-> "LOADED"])
    /\ UNCHANGED <<scene, isEnding, result, focus, menu, dialog, chat, roomVars, srv, s2c, history>>

EndFrame ==
    /\ scene = "GAME" /\ result
    /\ result' = FALSE /\ isEnding' = TRUE /\ scene' = "LOBBY"
    /\ UNCHANGED <<loading, focus, menu, dialog, chat, roomVars, netVars, history>>

-----------------------------------------------------------------------------
(* The server, as far as this client is concerned.                         *)

\* CS_LOGIN: the data base knows the name, or not.
Login ==
    \/ srv' = [srv EXCEPT !.lobby = TRUE] /\ ToClient(<<[t |-> "ID"]>>)
    \/ srv' = srv /\ ToClient(<<[t |-> "LOGIN_FAILED"]>>)

\* CS_MAKE_ROOM: seat 0 of a room
MakeRoom ==
    /\ srv' = [srv EXCEPT !.lobby = FALSE, !.room = "open", !.seat = 0, !.ready = FALSE]
    /\ ToClient(<<[t |-> "JOINED", seat |-> 0]>>)

\* CS_JOIN_ROOM and CS_QUICK_JOIN: a room that cannot be joined, or a seat
\* in it, after which the others and the newcomer hear of each other.  One
\* who is in the room already is counted once and may get another seat.
JoinRoom_bug ==
    \/ /\ srv' = [srv EXCEPT !.lobby = FALSE] /\ ToClient(<<[t |-> "NOJOIN"]>>)
    \/ \E s \in Seats :
        /\ s = 0 => srv.room = "open"
        /\ srv' = [srv EXCEPT !.lobby = FALSE, !.room = "open", !.seat = s, !.ready = FALSE]
        /\ ToClient(<<[t |-> "JOINED", seat |-> s]>>)
JoinRoom ==
    \/ srv' = srv /\ ToClient(<<[t |-> "NOJOIN"]>>)
    \/ \E s \in Seats :
        /\ s = 0 => srv.room = "open"
        /\ srv' = [srv EXCEPT !.lobby = FALSE, !.room = "open", !.seat = s, !.ready = FALSE]
        /\ ToClient(<<[t |-> "JOINED", seat |-> s]>>
                    \o IF s = 0 THEN <<>> ELSE <<[t |-> "NEWPLAYER"]>>)

Relay(to, m) == srv' = srv /\ (IF to THEN ToClient(<<m>>) ELSE s2c' = s2c)

\* A chat line reaches this client, its own or another's.
Say(where, to) ==
    /\ course = "talk" /\ talked < Talk /\ talked' = talked + 1
    /\ Relay(to, [t |-> where])
    /\ UNCHANGED <<course, wiped, typing, hasty>>

Serve ==
    /\ c2s # <<>> /\ c2s' = Tail(c2s)
    /\ LET t == Head(c2s).t IN
        \/ t = "LOGIN" /\ Login /\ UNCHANGED history
        \/ t = "MAKE" /\ MakeRoom /\ UNCHANGED history
        \/ t \in {"JOIN", "QUICK"} /\ JoinRoom /\ UNCHANGED history
        \/ t = "LOBBY_CHAT" /\ Say(t, srv.lobby)
        \/ t = "ROOM_CHAT" /\ Say(t, srv.room # "none")
        \/ t \in {"LOBBY_CHAT", "ROOM_CHAT"} /\ talked = Talk
           /\ UNCHANGED <<srv, s2c, history>>
        \/ /\ t = "READY"
           /\ srv' = [srv EXCEPT !.pick = Head(c2s).pick, !.ready = (srv.room = "open")]
           /\ UNCHANGED <<s2c, history>>
        \/ t = "LOADED" /\ Relay(srv.room # "none", [t |-> "PUT"]) /\ UNCHANGED history
        \/ /\ t = "CONFIRM"
           /\ srv' = [srv EXCEPT !.lobby = TRUE, !.room = "none", !.ready = FALSE]
           /\ UNCHANGED <<s2c, history>>
    /\ UNCHANGED <<menuVars, chat, roomVars>>

\* The other players: they talk, join the room while it is open, are ready
\* with a hero; the last one who is ready starts the game; it ends.
Others ==
    /\ \/ srv.lobby /\ Say("LOBBY_CHAT", TRUE)
       \/ srv.room # "none" /\ Say("ROOM_CHAT", TRUE)
       \/ /\ course = "play" /\ srv.room = "open" /\ srv' = [srv EXCEPT !.ready = FALSE]
          /\ ToClient(<<[t |-> "NEWPLAYER"]>>) /\ UNCHANGED history
       \/ /\ course = "play" /\ srv.room = "open" /\ srv' = srv /\ UNCHANGED history
          /\ \E s \in Seats \ {srv.seat}, h \in Heroes : ToClient(<<[t |-> "READY", seat |-> s, pick |-> h]>>)
       \/ /\ srv.ready /\ srv' = [srv EXCEPT !.ready = FALSE, !.room = "game"]
          /\ ToClient(<<[t |-> "ALLREADY"]>>) /\ UNCHANGED history
       \/ /\ scene = "GAME" /\ srv' = srv
          /\ ToClient(<<[t |-> "RESULT"]>>) /\ UNCHANGED history
    /\ UNCHANGED <<menuVars, chat, roomVars, c2s>>

-----------------------------------------------------------------------------
(* The packets (ProcessPacket).                                            *)

LoggedIn ==
    /\ scene' = "LOBBY" /\ menu' = [menu EXCEPT !.pw = 0]
    /\ UNCHANGED <<isEnding, loading, result, focus, dialog, chat, roomVars, history>>

\* SC_JOIN_ROOM and SC_QUICK_JOIN
Joined(seat) ==
    /\ my' = [seat |-> seat, told |-> TRUE]
    /\ EnterRoom
    /\ dialog' = [dialog EXCEPT !.open = FALSE]
    /\ UNCHANGED <<isEnding, loading, result, menu, picks, ready, heroes, course, talked, typing, hasty>>

NewPlayer_bug ==
    /\ picks' = [i \in Seats |-> EMPTY] /\ ready' = [i \in Seats |-> FALSE]
    /\ heroes' = [i \in Seats |-> EMPTY]
    /\ UNCHANGED <<menuVars, chat, my, history>>
NewPlayer ==
    /\ picks' = [i \in Seats |-> EMPTY] /\ ready' = [i \in Seats |-> FALSE]
    /\ UNCHANGED <<menuVars, chat, my, heroes, history>>

\* SC_READY; the echo of the own press only sets the team.
OtherReady(m) ==
    /\ IF m.seat = my.seat THEN UNCHANGED roomVars
       ELSE /\ heroes' = [heroes EXCEPT ![m.seat] = m.pick]
            /\ picks' = [picks EXCEPT ![m.seat] = m.pick]
            /\ ready' = [ready EXCEPT ![m.seat] = TRUE]
            /\ my' = my
    /\ UNCHANGED <<menuVars, chat, history>>

AllReady ==
    /\ scene' = "LOADING" /\ loading' = TRUE
    /\ typing' = (focus = "edit")
    /\ UNCHANGED <<isEnding, result, focus, menu, dialog, chat, roomVars, course, talked, wiped, hasty>>

\* SC_PUT_PLAYER of the own hero; gRoom.Init() forgets the picks.
PutPlayer ==
    /\ scene' = "GAME"
    /\ picks' = [i \in Seats |-> EMPTY] /\ ready' = [i \in Seats |-> FALSE]
    /\ UNCHANGED <<isEnding, loading, result, focus, menu, dialog, chat, my, heroes, history>>

Chat(w) ==
    /\ Drawable(chat[w]) /\ chat' = [chat EXCEPT ![w] = Push(@)]
    /\ UNCHANGED <<menuVars, roomVars, history>>

Receive ==
    /\ s2c # <<>> /\ s2c' = Tail(s2c) /\ UNCHANGED <<srv, c2s>>
    /\ LET m == Head(s2c) IN
        \/ m.t = "ID" /\ LoggedIn
        \/ m.t \in {"LOGIN_FAILED", "NOJOIN"} /\ UNCHANGED <<menuVars, chat, roomVars, history>>
        \/ m.t = "JOINED" /\ Joined(m.seat)
        \/ m.t = "NEWPLAYER" /\ NewPlayer
        \/ m.t = "READY" /\ OtherReady(m)
        \/ m.t = "ALLREADY" /\ AllReady
        \/ m.t = "PUT" /\ PutPlayer
        \/ m.t = "LOBBY_CHAT" /\ Chat("LOBBY")
        \/ m.t = "ROOM_CHAT" /\ Chat("ROOM")
        \/ /\ m.t = "RESULT" /\ result' = TRUE
           /\ UNCHANGED <<scene, isEnding, loading, focus, menu, dialog, chat, roomVars, history>>

Next ==
    \/ ID_PASSWORD_Input \/ MenuClick \/ SendLogin
    \/ KeyReturn \/ EditReturn \/ AltTab \/ Wheel
    \/ LobbyClick \/ DialogClick \/ ConfirmRoom \/ Password_Input
    \/ Pick \/ ReadyClick \/ LoadingFrame \/ EndFrame
    \/ Serve \/ Others \/ Receive

Spec == Init /\ [][Next]_vars

-----------------------------------------------------------------------------
(* Properties *)

\* Every box keeps a place for the zero that ends its text, and every number
\* is in its range.
TypeOK ==
    /\ scene \in {"MAINMENU", "LOBBY", "ROOM", "LOADING", "GAME"}
    /\ focus \in {"main", "edit"}
    /\ menu.id \in 0 .. BoxSize - 1 /\ menu.pw \in 0 .. BoxSize - 1
    /\ dialog.pw \in 0 .. BoxSize - 1
    /\ my.seat \in Seats \cup {NoSeat}
    /\ picks \in [Seats -> Heroes \cup {EMPTY}] /\ ready \in [Seats -> BOOLEAN]
    /\ heroes \in [Seats -> Heroes \cup {EMPTY}]

\* The scroll range of a chat window stays inside its vector, however wheel
\* and new lines mix.  In the lobby only until a chat with lines in it is
\* cleared: the clear does not reset the range.
ChatDrawable == Drawable(chat["ROOM"]) /\ (wiped \/ Drawable(chat["LOBBY"]))

\* When nothing is on its way, the client shows the lobby exactly if the
\* server sends it the lobby's traffic, whatever the player clicked meanwhile.
SceneAgrees ==
    c2s = <<>> /\ s2c = <<>> => (srv.lobby <=> scene = "LOBBY" /\ ~isEnding)

\* The hero a client plays is the one the server knows it by, though a ready
\* click may cross a join that cancels it, or the call to the game.  Unless
\* the player went on before a request for a room was answered.
PickAgrees ==
    scene \in {"LOADING", "GAME"} /\ c2s = <<>> /\ ~hasty =>
        heroes[my.seat] = srv.pick

\* A closed dialog has left its tick behind only if an answer closed it.
DialogFresh == ~dialog.open /\ ~hasty => ~dialog.ticked

\* A match whose keys go to the edit box, where the hero does not move
\* (ProcessInput reads them only while the main window is active), was
\* started while the player was typing.
KeysReachHero == scene = "GAME" /\ focus = "edit" => typing

\* "It must be made impossible to go on before all of the room's data is
\* there" (LunaticProject.cpp:1634): a client in the room knows the room.
RoomKnown == scene = "ROOM" => my.told
=============================================================================
