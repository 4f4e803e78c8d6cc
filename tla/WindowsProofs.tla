---------------------------- MODULE WindowsProofs ----------------------------
(***************************************************************************)
(* Proofs about Windows: for every place of the mouse in the window, and   *)
(* for every order of messages, clicks and paints, what is on the screen   *)
(* is what the state says, a click does what is seen under it, and the     *)
(* lobby highlights what the mouse is over.                                *)
(***************************************************************************)
EXTENDS Windows, TLAPS

-----------------------------------------------------------------------------
(* Boxes                                                                   *)

\* Where the rooms of the lobby are, in pixels
RowPlaces == <<
    <<"room0", Box(30, 160, 365, 262)>>, <<"room1", Box(430, 160, 765, 262)>>,
    <<"room2", Box(30, 280, 365, 382)>>, <<"room3", Box(430, 280, 765, 382)>>,
    <<"room4", Box(30, 400, 365, 502)>>, <<"room5", Box(430, 400, 765, 502)>> >>

LEMMA RowsAreThere == RowBoxes = RowPlaces
<1>1. /\ 0 % 2 = 0 /\ 2 % 2 = 0 /\ 4 % 2 = 0
      /\ 1 % 2 = 1 /\ 3 % 2 = 1 /\ 5 % 2 = 1
  OBVIOUS
<1>2. /\ 0 \div 2 = 0 /\ 1 \div 2 = 0
      /\ 2 \div 2 = 1 /\ 3 \div 2 = 1
      /\ 4 \div 2 = 2 /\ 5 \div 2 = 2
  OBVIOUS
<1> QED
  BY <1>1, <1>2 DEF RowBoxes, RowPlaces, RowTop, Box

\* The boxes of the lobby lie apart, so the first that is hit is the only
\* one: the mouse is over what Highlighted finds.
LEMMA FirstIsOver ==
    ASSUME NEW p \in (Int \X Int)
    PROVE  /\ First(LobbyBoxes, p) = {b[1] : b \in {b \in Elements(LobbyBoxes) : Inside(b[2], p)}}
           /\ First(RowBoxes, p) = {b[1] : b \in {b \in Elements(RowBoxes) : Inside(b[2], p)}}
<1>1. p[1] \in Int /\ p[2] \in Int
  OBVIOUS
<1>2. \A i, j \in DOMAIN LobbyBoxes :
          Inside(LobbyBoxes[i][2], p) /\ Inside(LobbyBoxes[j][2], p) => i = j
  BY <1>1 DEF LobbyBoxes, Inside, Box
<1>5. DOMAIN RowBoxes = 1 .. 6
  <2>1. DOMAIN RowPlaces = 1 .. 6
    BY DEF RowPlaces
  <2> QED
    BY <2>1, RowsAreThere
<1>3. \A i, j \in DOMAIN RowBoxes :
          Inside(RowBoxes[i][2], p) /\ Inside(RowBoxes[j][2], p) => i = j
  <2>1. \A i, j \in DOMAIN RowPlaces :
            Inside(RowPlaces[i][2], p) /\ Inside(RowPlaces[j][2], p) => i = j
    BY <1>1 DEF RowPlaces, Inside, Box
  <2> QED
    BY <2>1, RowsAreThere
<1>4. DOMAIN LobbyBoxes = 1 .. 2
  BY DEF LobbyBoxes
<1>6. ASSUME NEW boxes, NEW n \in Nat, DOMAIN boxes = 1 .. n,
             \A i, j \in DOMAIN boxes :
                 Inside(boxes[i][2], p) /\ Inside(boxes[j][2], p) => i = j
      PROVE  First(boxes, p) = {b[1] : b \in {b \in Elements(boxes) : Inside(b[2], p)}}
  <2>1. \A i \in DOMAIN boxes : \A j \in 1 .. i - 1 : j \in DOMAIN boxes /\ j # i
    BY <1>6
  <2>2. {i \in DOMAIN boxes : Inside(boxes[i][2], p) /\ \A j \in 1 .. i - 1 : ~Inside(boxes[j][2], p)}
            = {i \in DOMAIN boxes : Inside(boxes[i][2], p)}
    BY <2>1, <1>6
  <2> QED
    BY <2>2 DEF First, Elements
<1>7. First(LobbyBoxes, p) = {b[1] : b \in {b \in Elements(LobbyBoxes) : Inside(b[2], p)}}
  BY <1>2, <1>4, <1>6
<1>8. First(RowBoxes, p) = {b[1] : b \in {b \in Elements(RowBoxes) : Inside(b[2], p)}}
  BY <1>3, <1>5, <1>6
<1> QED
  BY <1>7, <1>8

\* A box that is hit is one of its sequence.
LEMMA FirstIsHit ==
    ASSUME NEW boxes, NEW p, NEW t \in First(boxes, p)
    PROVE  \E i \in DOMAIN boxes : boxes[i][1] = t /\ Inside(boxes[i][2], p)
BY DEF First

\* A box that is hit where it is drawn is seen, for any margin.
LEMMA HitIsSeen ==
    ASSUME NEW v, NEW p \in (Int \X Int), NEW t, NEW b,
           /\ b[1] \in Int /\ b[2] \in Int /\ b[3] \in Int /\ b[4] \in Int
           /\ <<t, b>> \in Drawn(v) /\ Inside(b, p)
    PROVE  Seen(v, t, p)
<1>1. p[1] \in Int /\ p[2] \in Int /\ Margin \in Nat
  BY WindowsAssumption
<1>2. Inside(Box(b[1] - Margin, b[2] - Margin, b[3] + Margin, b[4] + Margin), p)
  BY <1>1 DEF Inside, Box
<1>3. <<t, b>>[1] = t /\ <<t, b>>[2] = b
  OBVIOUS
<1> QED
  BY <1>2, <1>3 DEF Seen

\* A click in the main menu is for a box that is drawn there.
LEMMA MenuSeen ==
    ASSUME NEW v, v.window = "MAINMENU", NEW p \in (Int \X Int), NEW t \in First(MenuBoxes, p)
    PROVE  Seen(v, t, p)
<1>1. PICK i \in DOMAIN MenuBoxes : MenuBoxes[i][1] = t /\ Inside(MenuBoxes[i][2], p)
  BY FirstIsHit
<1>2. MenuBoxes[i] \in Drawn(v) /\ MenuBoxes[i] = <<t, MenuBoxes[i][2]>>
  BY <1>1 DEF Drawn, Elements, MenuBoxes
<1>3. \A k \in 1 .. 4 : MenuBoxes[i][2][k] \in Int
  BY DEF MenuBoxes, Box
<1> QED
  BY <1>1, <1>2, <1>3, HitIsSeen

\* A click in the lobby without the dialog is for a button or a room.
LEMMA LobbySeen ==
    ASSUME NEW v, v.window = "LOBBY", ~v.open, NEW p \in (Int \X Int),
           NEW t \in First(LobbyBoxes, p) \cup First(RowBoxes, p)
    PROVE  Seen(v, t, p)
<1>1. Drawn(v) = Elements(LobbyBoxes) \cup Elements(RowBoxes)
  BY DEF Drawn
<1>2. CASE t \in First(LobbyBoxes, p)
  <2>1. PICK i \in DOMAIN LobbyBoxes : LobbyBoxes[i][1] = t /\ Inside(LobbyBoxes[i][2], p)
    BY <1>2, FirstIsHit
  <2>2. LobbyBoxes[i] \in Drawn(v) /\ LobbyBoxes[i] = <<t, LobbyBoxes[i][2]>>
    BY <1>1, <2>1 DEF Elements, LobbyBoxes
  <2>3. \A k \in 1 .. 4 : LobbyBoxes[i][2][k] \in Int
    BY DEF LobbyBoxes, Box
  <2> QED
    BY <2>1, <2>2, <2>3, HitIsSeen
<1>3. CASE t \in First(RowBoxes, p)
  <2>1. PICK i \in DOMAIN RowPlaces : RowPlaces[i][1] = t /\ Inside(RowPlaces[i][2], p)
    BY <1>3, FirstIsHit, RowsAreThere
  <2>2. RowPlaces[i] \in Drawn(v)
    BY <1>1, <2>1, RowsAreThere DEF Elements
  <2>3. RowPlaces[i] = <<t, RowPlaces[i][2]>>
    BY <2>1 DEF RowPlaces
  <2>4. \A k \in 1 .. 4 : RowPlaces[i][2][k] \in Int
    BY DEF RowPlaces, Box
  <2> QED
    BY <2>1, <2>2, <2>3, <2>4, HitIsSeen
<1> QED
  BY <1>2, <1>3

\* A box that is hit may be ten pixels off the one that is drawn.
LEMMA NearIsSeen ==
    ASSUME NEW v, NEW p \in (Int \X Int), NEW t, NEW b, NEW d, Margin >= 10,
           \A k \in 1 .. 4 : b[k] \in Int /\ d[k] \in Int,
           \A k \in 1 .. 4 : b[k] - d[k] \in -10 .. 10,
           <<t, d>> \in Drawn(v), Inside(b, p)
    PROVE  Seen(v, t, p)
<1>1. p[1] \in Int /\ p[2] \in Int /\ Margin \in Nat
  BY WindowsAssumption
<1>2. Inside(Box(d[1] - Margin, d[2] - Margin, d[3] + Margin, d[4] + Margin), p)
  BY <1>1 DEF Inside, Box
<1>3. <<t, d>>[1] = t /\ <<t, d>>[2] = d
  OBVIOUS
<1> QED
  BY <1>2, <1>3 DEF Seen

\* A click on the dialog is for what is drawn within ten pixels of it.
LEMMA DialogSeen ==
    ASSUME NEW v, v.window = "LOBBY", v.open, Margin >= 10, NEW mode,
           NEW p \in (Int \X Int), NEW t \in First(DialogBoxes(mode), p)
    PROVE  Seen(v, t, p)
<1> DEFINE B == {<<"confirm", Box(325, 473, 484, 541)>>,
                 <<"territory", Box(567, 397, 698, 425)>>, <<"death", Box(378, 397, 548, 425)>>,
                 <<"name", Box(370, 300, 720, 340)>>, <<"password", Box(370, 343, 720, 383)>>,
                 <<"tick", Box(730, 343, 770, 383)>>, <<"dialog", DialogBox>>}
<1>1. DialogBoxes(mode) \in Seq(B)
  <2>1. <<<<"confirm", Box(325, 473, 484, 541)>>>> \in Seq(B)
    OBVIOUS
  <2>2. /\ <<<<"territory", Box(567, 397, 698, 425)>>>> \in Seq(B)
        /\ <<<<"death", Box(378, 397, 548, 425)>>>> \in Seq(B)
    OBVIOUS
  <2>3. << <<"name", Box(370, 300, 720, 340)>>, <<"password", Box(370, 343, 720, 383)>>,
           <<"tick", Box(730, 343, 770, 383)>>, <<"dialog", DialogBox>> >> \in Seq(B)
    OBVIOUS
  <2> HIDE DEF B
  <2>4. \A r, s \in Seq(B) : r \o s \in Seq(B)
    OBVIOUS
  <2> QED
    BY <2>1, <2>2, <2>3, <2>4 DEF DialogBoxes
<1>2. PICK i \in DOMAIN DialogBoxes(mode) :
          DialogBoxes(mode)[i][1] = t /\ Inside(DialogBoxes(mode)[i][2], p)
  BY FirstIsHit
<1>3. PICK b \in B : b[1] = t /\ Inside(b[2], p)
  <2> HIDE DEF B
  <2> QED
    BY <1>1, <1>2
<1>4. Drawn(v) = DialogElements
  BY DEF Drawn
<1>5. CASE b = <<"confirm", Box(325, 473, 484, 541)>>
  <2>1. <<"confirm", Box(325, 473, 484, 541)>> \in Drawn(v)
    BY <1>4 DEF DialogElements
  <2> QED
    BY <1>3, <1>5, <2>1, HitIsSeen DEF Box
<1>6. CASE b = <<"territory", Box(567, 397, 698, 425)>>
  <2>1. <<"territory", Box(567, 394, 700, 424)>> \in Drawn(v)
    BY <1>4 DEF DialogElements
  <2> QED
    BY <1>3, <1>6, <2>1, NearIsSeen DEF Box
<1>7. CASE b = <<"death", Box(378, 397, 548, 425)>>
  <2>1. <<"death", Box(378, 394, 550, 424)>> \in Drawn(v)
    BY <1>4 DEF DialogElements
  <2> QED
    BY <1>3, <1>7, <2>1, NearIsSeen DEF Box
<1>8. CASE b = <<"name", Box(370, 300, 720, 340)>>
  <2>1. <<"name", Box(369, 300, 715, 339)>> \in Drawn(v)
    BY <1>4 DEF DialogElements
  <2> QED
    BY <1>3, <1>8, <2>1, NearIsSeen DEF Box
<1>9. CASE b = <<"password", Box(370, 343, 720, 383)>>
  <2>1. <<"password", Box(369, 343, 715, 382)>> \in Drawn(v)
    BY <1>4 DEF DialogElements
  <2> QED
    BY <1>3, <1>9, <2>1, NearIsSeen DEF Box
<1>10. CASE b = <<"tick", Box(730, 343, 770, 383)>>
  <2>1. <<"tick", Box(720, 343, 760, 383)>> \in Drawn(v)
    BY <1>4 DEF DialogElements
  <2> QED
    BY <1>3, <1>10, <2>1, NearIsSeen DEF Box
<1>11. CASE b = <<"dialog", DialogBox>>
  <2>1. <<"dialog", DialogBox>> \in Drawn(v)
    BY <1>4 DEF DialogElements
  <2> QED
    BY <1>3, <1>11, <2>1, HitIsSeen DEF DialogBox, Box
<1> QED
  BY <1>5, <1>6, <1>7, <1>8, <1>9, <1>10, <1>11

\* A click outside of the dialog or on its cancel button is one on "cancel".
LEMMA CancelSeen ==
    ASSUME NEW v, v.window = "LOBBY", v.open, NEW p \in (Int \X Int),
           ~Inside(DialogBox, p) \/ Inside(CancelBox, p)
    PROVE  Seen(v, "cancel", p)
<1>1. CASE ~Inside(DialogBox, p)
  BY <1>1 DEF Seen
<1>2. CASE Inside(CancelBox, p)
  <2>1. <<"cancel", CancelBox>> \in Drawn(v)
    BY DEF Drawn, DialogElements
  <2> QED
    BY <1>2, <2>1, HitIsSeen DEF CancelBox, Box
<1> QED
  BY <1>1, <1>2

\* A click in a room is for a hero or the ready button.
LEMMA RoomSeen ==
    ASSUME NEW v, v.window = "ROOM", Margin >= 10,
           NEW p \in (Int \X Int), NEW t \in First(RoomBoxes, p)
    PROVE  Seen(v, t, p)
<1>1. PICK i \in DOMAIN RoomBoxes : RoomBoxes[i][1] = t /\ Inside(RoomBoxes[i][2], p)
  BY FirstIsHit
<1>2. i \in 1 .. 7
  BY DEF RoomBoxes
<1>3. Drawn(v) = RoomElements
  BY DEF Drawn
<1>4. CASE i \in 1 .. 6
  <2>1. RoomBoxes[i] \in Drawn(v)
    <3> DEFINE B == {RoomBoxes[k] : k \in 1 .. 7}
    <3>1. RoomBoxes \in Seq(B) /\ Len(RoomBoxes) = 7
      BY DEF RoomBoxes
    <3>2. i \in DOMAIN SubSeq(RoomBoxes, 1, 6) /\ SubSeq(RoomBoxes, 1, 6)[i] = RoomBoxes[i]
      BY <1>4, <3>1
    <3> QED
      BY <1>3, <3>2 DEF RoomElements, Elements
  <2>2. RoomBoxes[i] = <<t, RoomBoxes[i][2]>>
    BY <1>1, <1>2 DEF RoomBoxes
  <2>3. \A k \in 1 .. 4 : RoomBoxes[i][2][k] \in Int
    BY <1>2 DEF RoomBoxes, Box
  <2> QED
    BY <1>1, <2>1, <2>2, <2>3, HitIsSeen
<1>5. CASE i = 7
  <2>1. <<"ready", Box(399, 443, 626, 528)>> \in Drawn(v)
    BY <1>3 DEF RoomElements
  <2>2. t = "ready" /\ Inside(Box(398, 443, 624, 527), p)
    BY <1>1, <1>5 DEF RoomBoxes
  <2> QED
    BY <2>1, <2>2, NearIsSeen DEF Box
<1> QED
  BY <1>2, <1>4, <1>5

\* All that a click can be for is seen in the window that is painted fresh.
LEMMA TargetsSeen ==
    ASSUME Margin >= 10, ~isEnding, NEW v, v.window = Window, v.open = dialog.open,
           NEW p \in (Int \X Int), NEW t \in Targets(p)
    PROVE  Seen(v, t, p)
<1>1. Window = scene
  BY DEF Window
<1>2. CASE scene = "MAINMENU"
  BY <1>1, <1>2, MenuSeen DEF Targets
<1>3. CASE scene = "LOBBY"
  <2>1. t \in LobbyTargets(p)
    BY <1>3 DEF Targets
  <2>2. CASE ~dialog.open
    BY <1>1, <1>3, <2>1, <2>2, LobbySeen DEF LobbyTargets
  <2>3. CASE dialog.open /\ (~Inside(DialogBox, p) \/ Inside(CancelBox, p))
    BY <1>1, <1>3, <2>1, <2>3, CancelSeen DEF LobbyTargets
  <2>4. CASE dialog.open /\ Inside(DialogBox, p) /\ ~Inside(CancelBox, p)
    BY <1>1, <1>3, <2>1, <2>4, DialogSeen DEF LobbyTargets
  <2> QED
    BY <2>2, <2>3, <2>4
<1>4. CASE scene = "ROOM"
  <2>1. t \in First(RoomBoxes, p)
    BY <1>4 DEF Targets
  <2> QED
    BY <1>1, <1>4, <2>1, RoomSeen
<1>5. scene \in {"MAINMENU", "LOBBY", "ROOM"}
  BY DEF Targets
<1> QED
  BY <1>2, <1>3, <1>4, <1>5

-----------------------------------------------------------------------------
(* The invariant                                                           *)

\* Once WM_PAINT has nothing to do, the window that is shown is the one of
\* the scene, with the dialog if it is open.
WindowShown == ~dirty => shown.window = Window /\ shown.open = dialog.open

\* Moves that are looked at set what is highlighted; others are remembered.
HoverKept == ~strayed => hover = Highlighted(mouse)

\* The flag of LoadingScene is up on the loading screen only.
LoadingScene == loading => scene = "LOADING"

WinInv ==
    /\ mouse \in Points
    /\ WindowShown
    /\ WindowFresh
    /\ HoverKept
    /\ LoadingScene

LEMMA WinInit == Init => WinInv
BY DEF Init, WinInv, WindowShown, WindowFresh, HoverKept, LoadingScene, Window

\* A handler that calls InvalidateRect owes nothing but what does not depend
\* on the paint.
LEMMA ChangeKeeps ==
    ASSUME WinInv, NEW fields, Change(fields),
           UNCHANGED pointer, loading' => scene' = "LOADING"
    PROVE  WinInv'
BY DEF WinInv, Change, pointer, WindowShown, WindowFresh, HoverKept, LoadingScene,
       Highlighted, First, LobbyBoxes, RowBoxes, RowTop, Elements, Points

\* One that does not call it leaves the window, and touches nothing it shows
\* but a score or a row on the table, which is remembered.
LEMMA UnpaintedKeeps ==
    ASSUME WinInv, NEW fields, Unpainted(fields),
           UNCHANGED <<scene, isEnding, loading, dialog, pointer>>,
           Window # "TABLE" => fields \cap Shows(Window) = {}
    PROVE  WinInv'
BY DEF WinInv, Unpainted, pointer, WindowShown, WindowFresh, HoverKept,
       LoadingScene, Window

\* Handlers that change nothing the invariant is about
LEMMA NothingKeeps ==
    ASSUME WinInv,
           UNCHANGED <<scene, isEnding, dialog, pointer, unseen, dirty, shown, late>>,
           loading' => loading
    PROVE  WinInv'
BY DEF WinInv, pointer, WindowShown, WindowFresh, HoverKept, LoadingScene, Window,
       Highlighted, First, LobbyBoxes, RowBoxes, RowTop, Elements, Points

LEMMA WinStep == WinInv /\ [Next]_vars => WinInv'
<1> SUFFICES ASSUME WinInv, [Next]_vars PROVE WinInv'
  OBVIOUS
<1>1. CASE Paint
  BY <1>1 DEF Paint, screen, pointer, WinInv, WindowShown, WindowFresh, HoverKept,
              LoadingScene, Window
<1>2. CASE BuildFrame
  BY <1>2, NothingKeeps DEF BuildFrame
<1>3. CASE EndFrame
  <2>1. loading' => scene' = "LOADING"
    BY <1>3 DEF EndFrame, WinInv, LoadingScene
  <2> QED
    BY <1>3, <2>1, ChangeKeeps DEF EndFrame
<1>4. CASE MouseMove
  <2>1. mouse' \in Points
    BY <1>4 DEF MouseMove
  <2>2. CASE scene \in {"LOBBY", "ROOM"}
    BY <1>4, <2>1, <2>2 DEF MouseMove, Change, screen, WinInv, WindowShown, WindowFresh,
           HoverKept, LoadingScene, Highlighted
  <2>3. CASE scene \notin {"LOBBY", "ROOM"}
    BY <1>4, <2>1, <2>3 DEF MouseMove, screen, WinInv, WindowShown, WindowFresh,
           HoverKept, LoadingScene, Window
  <2> QED
    BY <2>2, <2>3
<1>5. CASE Type
  BY <1>5, ChangeKeeps DEF Type, screen, WinInv, LoadingScene
<1>6. CASE MenuClick
  BY <1>6, ChangeKeeps DEF MenuClick, screen, WinInv, LoadingScene
<1>7. CASE LobbyClick
  BY <1>7, ChangeKeeps DEF LobbyClick, WinInv, LoadingScene
<1>8. CASE RoomClick
  BY <1>8, ChangeKeeps DEF RoomClick, WinInv, LoadingScene
<1>9. CASE LoginAnswer
  BY <1>9, ChangeKeeps DEF LoginAnswer, WinInv, LoadingScene
<1>10. CASE RoomInfo \/ LobbyChat \/ NoJoin \/ OtherReady \/ RoomChat
  BY <1>10, ChangeKeeps DEF RoomInfo, LobbyChat, NoJoin, OtherReady, RoomChat, screen,
                           WinInv, LoadingScene
<1>11. CASE Joined
  BY <1>11, ChangeKeeps DEF Joined, WinInv, LoadingScene
<1>12. CASE NewPlayer
  BY <1>12, ChangeKeeps DEF NewPlayer, WinInv, LoadingScene
<1>13. CASE AllReady
  BY <1>13, ChangeKeeps DEF AllReady, WinInv, LoadingScene
<1>14. CASE PutPlayer
  <2>1. CASE scene' = "GAME" /\ Change({"seats"})
    BY <1>14, <2>1, ChangeKeeps DEF PutPlayer
  <2>2. CASE scene' = scene /\ Unpainted({"seats"})
    <3>1. {"seats"} \cap Shows(Window) = {}
      BY <1>14 DEF PutPlayer, Window, Shows
    <3> QED
      BY <1>14, <2>2, <3>1, UnpaintedKeeps DEF PutPlayer
  <2> QED
    BY <1>14, <2>1, <2>2 DEF PutPlayer
<1>15. CASE Result
  BY <1>15, NothingKeeps DEF Result
<1>16. CASE ScoreOrRow
  <2>1. PICK f \in {"score", "rows"} : Unpainted({f})
    BY <1>16 DEF ScoreOrRow
  <2>2. Window # "TABLE" => {f} \cap Shows(Window) = {}
    BY <1>16 DEF ScoreOrRow, Window, Shows
  <2> QED
    BY <1>16, <2>1, <2>2, UnpaintedKeeps DEF ScoreOrRow, screen
<1>17. CASE UNCHANGED vars
  BY <1>17, NothingKeeps DEF vars, screen
<1> QED
  BY <1>1, <1>2, <1>3, <1>4, <1>5, <1>6, <1>7, <1>8, <1>9, <1>10, <1>11, <1>12, <1>13,
     <1>14, <1>15, <1>16, <1>17 DEF Next

LEMMA WinAlways == Spec => []WinInv
BY WinInit, WinStep, PTL DEF Spec

-----------------------------------------------------------------------------
(* The theorems                                                            *)

\* Every handler that changes what the window shows calls InvalidateRect
\* (LunaticProject.cpp:298-425 paints): with nothing left to paint, the window
\* shows the state, except a score or a row that comes under the table.
THEOREM WindowStaysFresh == Spec => []WindowFresh
<1>1. WinInv => WindowFresh
  BY DEF WinInv
<1> QED
  BY <1>1, WinAlways, PTL

\* For every place of the mouse: a click does what is seen within ten pixels
\* of it (MouseInbox in the L_ButtonDown functions, the coordinates in the Draw
\* functions), and what CLobby::MouseMove highlights is what it is over.
THEOREM MouseIsTrue == ASSUME Margin >= 10 PROVE Spec => []MouseTrue
<1>1. WinInv => MouseTrue
  <2> SUFFICES ASSUME WinInv PROVE MouseTrue
    OBVIOUS
  <2>1. Points \subseteq Int \X Int
    <3>1. Xs \subseteq Int /\ Ys \subseteq Int
      BY WindowsAssumption
    <3> QED
      BY <3>1 DEF Points
  <2>2. ClickSeen
    <3> SUFFICES ASSUME ~dirty, ~isEnding, NEW p \in Points, NEW t \in Targets(p)
                 PROVE  Seen(shown, t, p)
      BY DEF ClickSeen
    <3>1. shown.window = Window /\ shown.open = dialog.open
      BY DEF WinInv, WindowShown
    <3> QED
      BY <2>1, <3>1, TargetsSeen
  <2>3. HoverTrue
    <3> SUFFICES ASSUME scene = "LOBBY", ~strayed
                 PROVE  hover = {b[1] : b \in {b \in Elements(LobbyBoxes) \cup Elements(RowBoxes) :
                                               Inside(b[2], mouse)}}
      BY DEF HoverTrue
    <3>1. hover = First(LobbyBoxes, mouse) \cup First(RowBoxes, mouse)
      BY DEF WinInv, HoverKept, Highlighted
    <3>2. mouse \in (Int \X Int)
      BY <2>1 DEF WinInv
    <3>3. /\ First(LobbyBoxes, mouse)
               = {b[1] : b \in {b \in Elements(LobbyBoxes) : Inside(b[2], mouse)}}
          /\ First(RowBoxes, mouse)
               = {b[1] : b \in {b \in Elements(RowBoxes) : Inside(b[2], mouse)}}
      BY <3>2, FirstIsOver
    <3> QED
      BY <3>1, <3>3
  <2> QED
    BY <2>2, <2>3 DEF MouseTrue
<1> QED
  BY <1>1, WinAlways, PTL

\* CGameFramework::FrameAdvance builds the scene when the message loop has
\* nothing to paint (LunaticProject.cpp:86-98): by then the window says so.
THEOREM LoadingIsSeen == Spec => LoadingSeen
<1>1. WinInv /\ [Next]_vars => [loading /\ ~loading' => shown.window = "LOADING"]_vars
  <2> SUFFICES ASSUME WinInv, [Next]_vars, loading, ~loading'
               PROVE  shown.window = "LOADING"
    OBVIOUS
  <2>1. BuildFrame
    <3>1. scene = "LOADING"
      BY DEF WinInv, LoadingScene
    <3> QED
      BY <3>1 DEF Next, vars, screen, Paint, EndFrame, MouseMove, Type, MenuClick, LobbyClick,
         RoomClick, LoginAnswer, RoomInfo, LobbyChat, NoJoin, Joined, NewPlayer,
         OtherReady, RoomChat, InRoom, AllReady, PutPlayer, Result, ScoreOrRow
  <2>2. Window = "LOADING"
    BY DEF WinInv, LoadingScene, Window
  <2> QED
    BY <2>1, <2>2 DEF BuildFrame, WinInv, WindowShown
<1> QED
  BY <1>1, WinAlways, PTL DEF Spec, LoadingSeen
=============================================================================
