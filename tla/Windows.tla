------------------------------ MODULE Windows ------------------------------
(***************************************************************************)
(* What one client's window shows and what a click on it does: WM_PAINT    *)
(* and the Draw functions, InvalidateRect, the mouse, and the message loop *)
(* that paints when it has no other message and advances a frame when it   *)
(* has nothing to paint (LunaticProject.cpp, MainMenu.cpp, Lobby.cpp,      *)
(* Room.cpp).                                                              *)
(*                                                                         *)
(* What a window shows is a set of fields, and a field is known only by    *)
(* whether it has changed since the window was painted; texts, fonts and   *)
(* colours are left out.  Places are pixels.  The server's messages come   *)
(* in any order that module Screens allows, and some more.                 *)
(***************************************************************************)
EXTENDS Integers, Sequences

CONSTANTS
    Xs, Ys,         \* where the mouse goes
    Margin          \* how far from a box a click may be that is meant for it

ASSUME WindowsAssumption ==
    /\ Xs \subseteq 0 .. 1023 /\ Ys \subseteq 0 .. 767
    /\ Margin \in Nat

Points == Xs \X Ys

VARIABLES
    scene,      \* ChangeScene
    isEnding,   \* the table of the match lies over the lobby
    loading,    \* LoadingScene
    result,     \* isWinResult or isLoseResult
    told,       \* myGame_id is known
    own,        \* the own RoomUI: "none", a hero "picked", or "ready"
    dialog,     \* RoomCreateWindow, IsPassword, GameMode
    mouse,      \* where the mouse is
    hover,      \* create_over, quickjoin_over, room_over: the names that are set
    unseen,     \* fields changed since they were painted
    dirty,      \* a part of the window is invalid: WM_PAINT will come
    shown,      \* what was painted last: a window, with the dialog open or not
    strayed,    \* history: the mouse has moved where no one looks at it
    late        \* history: a result changed under the table and is not painted
screen == <<scene, isEnding, loading, result, told, own, dialog>>
pointer == <<mouse, hover, strayed>>
vars == <<screen, pointer, unseen, dirty, shown, late>>

-----------------------------------------------------------------------------
(* Boxes and clicks                                                        *)

Box(left, top, right, bottom) == <<left, top, right, bottom>>
\* MouseInbox
Inside(b, p) == b[1] < p[1] /\ b[3] > p[1] /\ b[2] < p[2] /\ b[4] > p[2]

MenuBoxes == <<
    <<"login", Box(441, 422, 532, 459)>>, <<"exit", Box(545, 422, 635, 460)>>,
    <<"name", Box(435, 330, 710, 370)>>, <<"password", Box(435, 373, 710, 413)>> >>

LobbyBoxes == <<<<"create", Box(0, 0, 400, 140)>>, <<"quick", Box(400, 0, 800, 140)>>>>
\* The rooms of the lobby, two in a line
RowTop(line) == 160 + line * 120
RowBoxes ==
    LET Row(i) == Box(30 + (i % 2) * 400, RowTop(i \div 2),
                      30 + (i % 2) * 400 + 335, RowTop(i \div 2) + 102)
    IN << <<"room0", Row(0)>>, <<"room1", Row(1)>>, <<"room2", Row(2)>>,
          <<"room3", Row(3)>>, <<"room4", Row(4)>>, <<"room5", Row(5)>> >>

DialogBox == Box(240, 170, 784, 578)
CancelBox == Box(536, 473, 696, 541)
\* In the order in which they are tried; the mode that is on is not.
DialogBoxes(mode) ==
    << <<"confirm", Box(325, 473, 484, 541)>> >>
    \o (IF mode = "death" THEN << <<"territory", Box(567, 397, 698, 425)>> >>
                          ELSE << <<"death", Box(378, 397, 548, 425)>> >>)
    \o << <<"name", Box(370, 300, 720, 340)>>, <<"password", Box(370, 343, 720, 383)>>,
          <<"tick", Box(730, 343, 770, 383)>>, <<"dialog", DialogBox>> >>

RoomBoxes == <<
    <<"BABARIAN", Box(406, 48, 499, 143)>>, <<"KNIGHT", Box(526, 48, 622, 143)>>,
    <<"SWORDMAN", Box(406, 173, 499, 265)>>, <<"MAGICIAN", Box(526, 173, 622, 265)>>,
    <<"HEALER", Box(407, 300, 499, 393)>>, <<"WITCH", Box(526, 300, 622, 393)>>,
    <<"ready", Box(398, 443, 624, 527)>> >>

\* The name of the first box of a sequence the point lies in, or none
First(boxes, p) ==
    {boxes[i][1] : i \in {i \in DOMAIN boxes :
        Inside(boxes[i][2], p) /\ \A j \in 1 .. i - 1 : ~Inside(boxes[j][2], p)}}

\* CMainMenu::, CLobby:: and CRoom::L_ButtonDown: what a click at p is for.  In
\* the lobby the buttons and the rooms are looked for one after the other.
LobbyTargets_bug(p) == First(LobbyBoxes, p) \cup First(RowBoxes, p)
LobbyTargets(p) ==
    IF ~dialog.open THEN First(LobbyBoxes, p) \cup First(RowBoxes, p)
    ELSE IF ~Inside(DialogBox, p) \/ Inside(CancelBox, p) THEN {"cancel"}
    ELSE First(DialogBoxes(dialog.mode), p)

Targets(p) ==
    CASE scene = "MAINMENU" -> First(MenuBoxes, p)
      [] scene = "LOBBY" -> LobbyTargets(p)
      [] scene = "ROOM" -> IF own = "ready" THEN {} ELSE First(RoomBoxes, p)
      [] OTHER -> {}

-----------------------------------------------------------------------------
(* What is drawn                                                           *)

Window == IF scene = "LOBBY" /\ isEnding THEN "TABLE" ELSE scene

\* The fields (a chat with the line that is being typed, info with the own
\* place) CMainMenu::, CLobby::, CRoom::Draw and the table in WM_PAINT look
\* at.  (ready_over as well: it is never set.)
LobbyShows == {"hover", "list", "dialog", "lobbychat"}
RoomShows == {"info", "seats", "names", "roomchat"}
Shows(w) ==
    CASE w = "MAINMENU" -> {"login", "error"}
      [] w = "LOBBY" -> LobbyShows
      [] w = "TABLE" -> {"heroes", "score", "names", "rows"}
      [] w = "ROOM" -> RoomShows
      [] OTHER -> {}

\* Where the window v has what can be clicked.  What is part of a background
\* picture is taken to be where it is clicked; a mode is next to its label.
Elements(boxes) == {boxes[i] : i \in DOMAIN boxes}
DialogElements == {
    <<"name", Box(369, 300, 715, 339)>>, <<"password", Box(369, 343, 715, 382)>>,
    <<"tick", Box(720, 343, 760, 383)>>, <<"death", Box(378, 394, 550, 424)>>,
    <<"territory", Box(567, 394, 700, 424)>>, <<"confirm", Box(325, 473, 484, 541)>>,
    <<"cancel", CancelBox>>, <<"dialog", DialogBox>>}
RoomElements ==
    Elements(SubSeq(RoomBoxes, 1, 6)) \cup {<<"ready", Box(399, 443, 626, 528)>>}
Drawn(v) ==
    CASE v.window = "MAINMENU" -> Elements(MenuBoxes)
      [] v.window = "LOBBY" -> IF v.open THEN DialogElements
                               ELSE Elements(LobbyBoxes) \cup Elements(RowBoxes)
      [] v.window = "ROOM" -> RoomElements
      [] OTHER -> {}

\* A player who clicks at p may see t there.
Seen(v, t, p) ==
    \/ \E d \in Drawn(v) :
          /\ d[1] = t
          /\ Inside(Box(d[2][1] - Margin, d[2][2] - Margin, d[2][3] + Margin, d[2][4] + Margin), p)
    \/ v.window = "LOBBY" /\ v.open /\ t = "cancel" /\ ~Inside(DialogBox, p)

\* A change of fields, with InvalidateRect or without
Unpainted(fields) ==
    /\ unseen' = unseen \cup fields /\ dirty' = dirty
    /\ late' = (late \/ Window = "TABLE") /\ UNCHANGED shown
Change(fields) ==
    /\ unseen' = unseen \cup fields /\ dirty' = TRUE
    /\ UNCHANGED <<late, shown>>

Init ==
    /\ scene = "MAINMENU" /\ isEnding = FALSE /\ loading = FALSE /\ result = FALSE
    /\ told = FALSE /\ own = "none"
    /\ dialog = [open |-> FALSE, ticked |-> FALSE, mode |-> "death"]
    /\ mouse \in Points /\ hover = {} /\ strayed = TRUE
    /\ unseen = {} /\ dirty = FALSE /\ late = FALSE
    /\ shown = [window |-> "MAINMENU", open |-> FALSE]

-----------------------------------------------------------------------------
(* The message loop                                                        *)

\* WM_PAINT
Paint ==
    /\ dirty /\ dirty' = FALSE
    /\ shown' = [window |-> Window, open |-> dialog.open]
    /\ unseen' = {} /\ late' = FALSE
    /\ UNCHANGED <<screen, pointer>>

\* FrameAdvance: only when there is no message, WM_PAINT among them.  The
\* scene is built, which takes seconds; a match ends.
BuildFrame ==
    /\ ~dirty /\ loading /\ loading' = FALSE
    /\ UNCHANGED <<scene, isEnding, result, told, own, dialog, pointer, unseen, dirty, shown, late>>

EndFrame ==
    /\ ~dirty /\ scene = "GAME" /\ result
    /\ result' = FALSE /\ isEnding' = TRUE /\ scene' = "LOBBY"
    /\ Change({})
    /\ UNCHANGED <<loading, told, own, dialog, pointer>>

-----------------------------------------------------------------------------
(* The player                                                              *)

\* CLobby::MouseMove
Highlighted_bug(p) == First(LobbyBoxes, p) \cup
    (IF First(RowBoxes, p) = {} THEN hover \ {"create", "quick"} ELSE First(RowBoxes, p))
Highlighted(p) == First(LobbyBoxes, p) \cup First(RowBoxes, p)

\* WM_MOUSEMOVE: in a room, too, it is the lobby that is told.
MouseMove ==
    /\ \E p \in Points \ {mouse} : mouse' = p
    /\ IF scene \in {"LOBBY", "ROOM"}
       THEN hover' = Highlighted(mouse') /\ strayed' = FALSE /\ Change({"hover"})
       ELSE hover' = hover /\ strayed' = TRUE /\ UNCHANGED <<unseen, dirty, shown, late>>
    /\ UNCHANGED screen

\* WM_CHAR, EN_CHANGE of the edit box, and the wheel
Type ==
    /\ \/ scene = "MAINMENU" /\ Change({"login"})
       \/ scene = "LOBBY" /\ \E f \in {"dialog", "lobbychat"} : Change({f})
       \/ scene = "ROOM" /\ Change({"roomchat"})
    /\ UNCHANGED <<screen, pointer>>

\* WM_LBUTTONDOWN where the mouse is.  The button "exit" is left out.
MenuClick ==
    /\ scene = "MAINMENU"
    /\ Change({"login"})
    /\ UNCHANGED <<screen, pointer>>

\* Requests are answered by Joined and NoJoin.
LobbyClick ==
    /\ scene = "LOBBY"
    /\ LET t == Targets(mouse) IN
        /\ dialog' = [
            open |-> IF "create" \in t THEN TRUE
                     ELSE IF t \cap {"cancel", "confirm"} # {} THEN FALSE ELSE dialog.open,
            ticked |-> IF t \cap {"cancel", "confirm"} # {} THEN FALSE
                       ELSE IF "tick" \in t THEN ~dialog.ticked ELSE dialog.ticked,
            mode |-> IF t \cap {"death", "territory"} # {} THEN CHOOSE m \in t : TRUE
                     ELSE dialog.mode]
        /\ scene' = IF "confirm" \in t THEN "ROOM" ELSE "LOBBY"
        /\ Change({"dialog", "lobbychat"}
                  \cup (IF isEnding THEN {"heroes", "score", "names", "rows"} ELSE {}))
    /\ isEnding' = FALSE
    /\ UNCHANGED <<loading, result, told, own, pointer>>

\* A hero a team mate has is refused (Screens).  Before the seat is known the
\* click reads RoomUI[-1]: not modelled.
RoomClick ==
    /\ scene = "ROOM" /\ told
    /\ LET t == Targets(mouse) IN
        own' \in IF "ready" \in t THEN {own} \cup (IF own = "picked" THEN {"ready"} ELSE {})
                 ELSE IF t # {} THEN {"picked"} ELSE {own}
    /\ Change({"seats", "heroes"})
    /\ UNCHANGED <<scene, isEnding, loading, result, told, dialog, pointer>>

-----------------------------------------------------------------------------
(* The server's messages                                                   *)

\* SC_ID, SC_LOGIN_FAILED, which a second login brings later than expected
LoginAnswer ==
    /\ scene \in {"MAINMENU", "LOBBY", "ROOM"} /\ ~isEnding
    /\ scene' \in {scene, "LOBBY"} /\ Change({"error", "login"})
    /\ UNCHANGED <<isEnding, loading, result, told, own, dialog, pointer>>

\* SC_ROOM_INFO, SC_LOBBY_CHAT; to the members of the lobby and to one who
\* has just asked to leave it
RoomInfo_bug == scene \in {"LOBBY", "ROOM"} /\ ~isEnding /\ Unpainted({"list"}) /\ UNCHANGED <<screen, pointer>>
RoomInfo == scene \in {"LOBBY", "ROOM"} /\ ~isEnding /\ Change({"list"}) /\ UNCHANGED <<screen, pointer>>
LobbyChat == scene \in {"LOBBY", "ROOM"} /\ ~isEnding /\ Change({"lobbychat"}) /\ UNCHANGED <<screen, pointer>>

\* SC_JOIN_FAIL_EMPTY, _FULL, _INGAME, SC_QUICK_JOIN_FAIL
NoJoin == scene \in {"LOBBY", "ROOM"} /\ ~isEnding /\ Change({}) /\ UNCHANGED <<screen, pointer>>

\* SC_JOIN_ROOM, SC_QUICK_JOIN and EnterRoom
Joined ==
    /\ scene \in {"LOBBY", "ROOM"} /\ ~isEnding
    /\ scene' = "ROOM" /\ told' = TRUE /\ dialog' = [dialog EXCEPT !.open = FALSE]
    /\ Change({"info", "names", "dialog", "lobbychat", "roomchat"})
    /\ UNCHANGED <<isEnding, loading, result, own, pointer>>

\* What is said to a room comes to all who are in it for the server.
InRoom == told /\ scene \in {"LOBBY", "ROOM"} /\ ~isEnding

\* SC_ENTER_NEWPLAYER
NewPlayer ==
    /\ InRoom
    /\ own' = "none" /\ Change({"seats", "names"})
    /\ UNCHANGED <<scene, isEnding, loading, result, told, dialog, pointer>>

\* SC_READY, SC_ROOM_CHAT
OtherReady == InRoom /\ Change({"seats", "heroes"}) /\ UNCHANGED <<screen, pointer>>
RoomChat == InRoom /\ Change({"roomchat"}) /\ UNCHANGED <<screen, pointer>>

\* SC_ALLREADY
AllReady ==
    /\ InRoom /\ own = "ready"
    /\ scene' = "LOADING" /\ loading' = TRUE
    /\ Change({})
    /\ UNCHANGED <<isEnding, result, told, own, dialog, pointer>>

\* SC_PUT_PLAYER: only the own hero's shows the game.
PutPlayer ==
    /\ scene = "LOADING" /\ ~loading
    /\ own' = "none"
    /\ \/ scene' = "GAME" /\ Change({"seats"})
       \/ scene' = scene /\ Unpainted({"seats"})
    /\ UNCHANGED <<isEnding, loading, result, told, dialog, pointer>>

\* SC_RESULT
Result ==
    /\ scene = "GAME" /\ result' = TRUE
    /\ UNCHANGED <<scene, isEnding, loading, told, own, dialog, pointer, unseen, dirty, shown, late>>

\* SC_CHAR_DIE, SC_ENDINGRESULT: they change what the table shows.
ScoreOrRow ==
    /\ scene = "GAME" \/ Window = "TABLE"
    /\ \E f \in {"score", "rows"} : Unpainted({f})
    /\ UNCHANGED <<screen, pointer>>

Next ==
    \/ Paint \/ BuildFrame \/ EndFrame
    \/ MouseMove \/ Type \/ MenuClick \/ LobbyClick \/ RoomClick
    \/ LoginAnswer \/ RoomInfo \/ LobbyChat \/ NoJoin \/ Joined
    \/ NewPlayer \/ OtherReady \/ RoomChat \/ AllReady \/ PutPlayer
    \/ Result \/ ScoreOrRow

Spec == Init /\ [][Next]_vars

-----------------------------------------------------------------------------
(* Properties *)

\* With nothing left to paint, the window on the screen is the one of the
\* scene and all it shows is as it was painted: no handler of a message
\* forgets InvalidateRect, except that of a score or a row that comes while
\* the table is shown already.
WindowFresh ==
    ~dirty /\ ~late => shown.window = Window /\ unseen \cap Shows(Window) = {}

\* A click does what the player sees under the mouse (or within Margin of
\* it), unless the window is about to change or the table lies over it.
ClickSeen ==
    ~dirty /\ ~isEnding => \A p \in Points : \A t \in Targets(p) : Seen(shown, t, p)

\* The lobby highlights what the mouse is over, except after moves in a match
\* or on the way to it, which it is not told of.
HoverTrue ==
    scene = "LOBBY" /\ ~strayed =>
        hover = {b[1] : b \in {b \in Elements(LobbyBoxes) \cup Elements(RowBoxes) :
                              Inside(b[2], mouse)}}

\* The mouse: what a click does and what is highlighted.
MouseTrue == ClickSeen /\ HoverTrue

\* While the scene is built the screen says that it is loading.
LoadingSeen == [][loading /\ ~loading' => shown.window = "LOADING"]_vars

\* A click on the table closes the table and does nothing else.
TableCovers == isEnding => \A p \in Points : Targets(p) = {}

\* The three seconds before the match (the Sleep after the InvalidateRect of
\* SC_ALLREADY) show a room where everyone's ready badge is painted.
BadgesSeen ==
    [][~loading /\ loading' => shown.window = "ROOM" /\ "seats" \notin unseen]_vars
=============================================================================
