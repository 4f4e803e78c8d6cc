---------------------------- MODULE ScreensProofs ----------------------------
(***************************************************************************)
(* Proofs about Screens: for every number of lines, seats, heroes and      *)
(* packets on their way, the chat windows can be drawn, and the client's   *)
(* scene, its hero and the keys are what the server and the player expect. *)
(*                                                                         *)
(* The course "talk" has hasty players and no match; the course "play" has *)
(* a match and players who wait for answers.  In the second one the client *)
(* and the packets on its two queues are always at one of twelve stations, *)
(* from the main menu to the table and back to the lobby.                  *)
(***************************************************************************)
EXTENDS Screens, TLAPS

-----------------------------------------------------------------------------
(* Queues                                                                  *)

\* All packets of the queue are of the types T; one of type t is on its way.
Only(q, T) == \A i \in DOMAIN q : q[i].t \in T
Has(q, t) == \E i \in DOMAIN q : q[i].t = t

ServerPackets ==
    [t : {"LOGIN", "MAKE", "JOIN", "QUICK", "LOBBY_CHAT", "ROOM_CHAT", "LOADED", "CONFIRM"}]
    \cup [t : {"READY"}, pick : Heroes]
ClientPackets ==
    [t : {"ID", "LOGIN_FAILED", "NOJOIN", "NEWPLAYER", "LOBBY_CHAT", "ROOM_CHAT",
          "ALLREADY", "PUT", "RESULT"}]
    \cup [t : {"JOINED"}, seat : Seats]
    \cup [t : {"READY"}, seat : Seats, pick : Heroes]

-----------------------------------------------------------------------------
(* The invariant                                                           *)

Windows == [n : Nat, line : Nat, front : Int, last : Int, scroll : BOOLEAN]

MenuTypes ==
    /\ scene \in {"MAINMENU", "LOBBY", "ROOM", "LOADING", "GAME"}
    /\ isEnding \in BOOLEAN /\ loading \in BOOLEAN /\ result \in BOOLEAN
    /\ focus \in {"main", "edit"}
    /\ menu \in [id : 0 .. BoxSize - 1, pw : 0 .. BoxSize - 1,
                 box : {"RNOPE", "RNAME", "RPASSWORD"}]
    /\ dialog \in [open : BOOLEAN, box : {"RNOPE", "RNAME", "RPASSWORD"},
                   ticked : BOOLEAN, pw : 0 .. BoxSize - 1]
ChatTypes == chat \in [{"LOBBY", "ROOM"} -> Windows]
RoomTypes ==
    /\ my \in [seat : Seats \cup {NoSeat}, told : BOOLEAN]
    /\ picks \in [Seats -> Heroes \cup {EMPTY}] /\ ready \in [Seats -> BOOLEAN]
    /\ heroes \in [Seats -> Heroes \cup {EMPTY}]
NetTypes ==
    /\ srv \in [lobby : BOOLEAN, room : {"none", "open", "game"}, seat : Seats,
                pick : Heroes \cup {EMPTY}, ready : BOOLEAN]
    /\ c2s \in Seq(ServerPackets) /\ s2c \in Seq(ClientPackets)
HistoryTypes ==
    /\ course \in {"talk", "play"}
    /\ wiped \in BOOLEAN /\ typing \in BOOLEAN /\ hasty \in BOOLEAN

Types == MenuTypes /\ ChatTypes /\ RoomTypes /\ NetTypes /\ HistoryTypes

\* The window of a chat that is never cleared: as many lines as there are, at
\* most Lines of them, and the wheel moves both ends alike.
Ranged(w) ==
    /\ w.line = IF w.n < Lines THEN w.n ELSE Lines
    /\ w.front - w.last = w.n - w.line
    /\ 0 <= w.front /\ w.last <= 0
    /\ w.scroll => w.line = Lines

ChatsRanged == Ranged(chat["ROOM"]) /\ (wiped \/ Ranged(chat["LOBBY"]))

\* The dialog is open while a request is on its way only if the player was
\* hasty.
DialogAlone == dialog.open /\ ~hasty => ~Pending
Dialogs == DialogAlone /\ DialogFresh

\* The course "talk".  Logins are sent before anything else, and answered
\* before a seat is given; who is in the lobby for one side only will hear of
\* it.
LoginsFirst(q) == \A i, j \in DOMAIN q : i < j /\ q[j].t = "LOGIN" => q[i].t = "LOGIN"
NoLateID(q) == \A i, j \in DOMAIN q : i < j /\ q[i].t = "JOINED" => q[j].t # "ID"

TalkRequests == {"LOGIN", "MAKE", "JOIN", "QUICK", "LOBBY_CHAT", "ROOM_CHAT"}
TalkAnswers ==
    {"ID", "LOGIN_FAILED", "NOJOIN", "JOINED", "NEWPLAYER", "LOBBY_CHAT", "ROOM_CHAT"}

NoMatch ==
    /\ scene \in {"MAINMENU", "LOBBY", "ROOM"} /\ ~isEnding /\ ~loading
    /\ ~srv.ready /\ srv.room # "game" /\ picks = [i \in Seats |-> EMPTY]

InTurn ==
    /\ Only(c2s, TalkRequests) /\ Only(s2c, TalkAnswers)
    /\ LoginsFirst(c2s) /\ NoLateID(s2c)
    /\ Has(c2s, "LOGIN") => ~Has(s2c, "JOINED")

AtMenu ==
    scene = "MAINMENU" =>
        /\ Only(c2s, {"LOGIN"}) /\ Only(s2c, {"ID", "LOGIN_FAILED", "LOBBY_CHAT"})
        /\ srv.room = "none" /\ (srv.lobby <=> Has(s2c, "ID"))

LobbyKnown ==
    /\ srv.lobby => scene = "LOBBY" \/ Has(s2c, "ID") \/ Has(c2s, "MAKE")
    /\ ~srv.lobby => scene # "LOBBY" \/ Has(s2c, "JOINED")
    /\ Has(s2c, "ID") => srv.lobby \/ Has(s2c, "JOINED")
    /\ Has(s2c, "JOINED") => ~srv.lobby

Talking == NoMatch /\ InTurn /\ AtMenu /\ LobbyKnown

\* The course "play".  Before the login, and while its answer is on its way
NoRoom == srv.room = "none" /\ ~srv.ready /\ ~isEnding /\ ~loading

Out ==
    /\ scene = "MAINMENU" /\ NoRoom /\ ~srv.lobby
    /\ Only(c2s, {"LOGIN"}) /\ Only(s2c, {"LOGIN_FAILED"})

Known ==
    /\ scene = "MAINMENU" /\ NoRoom /\ srv.lobby
    /\ Only(c2s, {"LOGIN"}) /\ Only(s2c, {"LOGIN_FAILED", "ID"}) /\ Has(s2c, "ID")

\* In the lobby, for the server too once it has handled the first n packets:
\* logins sent in vain, or the CS_RESULTCONFIRM after a match
Homeward(n) ==
    /\ ~srv.ready /\ ~isEnding /\ ~loading
    /\ \/ srv.room = "none" /\ srv.lobby /\ \A i \in 1 .. n : c2s[i].t = "LOGIN"
       \/ srv.room = "game" /\ ~srv.lobby /\ n = 1 /\ c2s[1].t = "CONFIRM"

InLobby ==
    /\ scene = "LOBBY" /\ Homeward(Len(c2s))
    /\ Only(s2c, {"ID", "LOGIN_FAILED", "RESULT", "NOJOIN"})

Asking ==
    /\ scene \in {"LOBBY", "ROOM"} /\ c2s # <<>> /\ Homeward(Len(c2s) - 1)
    /\ c2s[Len(c2s)].t \in Requests /\ (scene = "ROOM" => c2s[Len(c2s)].t = "MAKE")
    /\ Only(s2c, {"ID", "LOGIN_FAILED", "RESULT"})

\* Of the other players in the room: none of them has the own seat.
OfOthers(m) == m.t = "NEWPLAYER" \/ (m.t = "READY" /\ m.seat # srv.seat)

Arriving ==
    /\ scene \in {"LOBBY", "ROOM"} /\ ~isEnding /\ ~loading
    /\ srv.room = "open" /\ ~srv.lobby /\ ~srv.ready /\ c2s = <<>>
    /\ \E k \in DOMAIN s2c :
          /\ s2c[k].t = "JOINED" /\ s2c[k].seat = srv.seat
          /\ \A i \in 1 .. k - 1 : s2c[i].t \in {"ID", "LOGIN_FAILED", "RESULT"}
          /\ \A i \in k + 1 .. Len(s2c) : OfOthers(s2c[i])

\* The own hero is the one of the n-th packet, if there are n, or the server's.
Picked(n) == heroes[my.seat] = IF n = 0 THEN srv.pick ELSE c2s[n].pick

Member == ~srv.lobby /\ my.seat = srv.seat /\ ~isEnding

InRoom ==
    /\ scene = "ROOM" /\ Member /\ ~loading /\ srv.room = "open"
    /\ Only(c2s, {"READY"}) /\ \A i \in DOMAIN s2c : OfOthers(s2c[i])
    /\ srv.ready \/ c2s # <<>> => Picked(Len(c2s))

\* SC_ALLREADY is on its way, the last packet before the match.
InMatch == Member /\ srv.room = "game" /\ ~srv.ready

Called ==
    /\ scene = "ROOM" /\ InMatch /\ ~loading
    /\ Only(c2s, {"READY"}) /\ Picked(Len(c2s))
    /\ s2c # <<>> /\ s2c[Len(s2c)].t = "ALLREADY"
    /\ \A i \in 1 .. Len(s2c) - 1 : OfOthers(s2c[i])

KeysKept == focus = "edit" => typing

Loading ==
    /\ scene = "LOADING" /\ InMatch /\ loading /\ KeysKept
    /\ Only(c2s, {"READY"}) /\ Picked(Len(c2s)) /\ s2c = <<>>

Loaded ==
    /\ scene = "LOADING" /\ InMatch /\ ~loading /\ KeysKept
    /\ c2s # <<>> /\ c2s[Len(c2s)].t = "LOADED" /\ s2c = <<>>
    /\ (\A i \in 1 .. Len(c2s) - 1 : c2s[i].t = "READY") /\ Picked(Len(c2s) - 1)

Put ==
    /\ scene = "LOADING" /\ InMatch /\ ~loading /\ KeysKept
    /\ c2s = <<>> /\ Picked(0) /\ Len(s2c) = 1 /\ Only(s2c, {"PUT"})

InGame ==
    /\ scene = "GAME" /\ InMatch /\ ~loading /\ KeysKept
    /\ c2s = <<>> /\ Picked(0) /\ Only(s2c, {"RESULT"})

\* The table
Ending ==
    /\ scene = "LOBBY" /\ isEnding /\ ~loading
    /\ srv.room = "game" /\ ~srv.lobby /\ ~srv.ready
    /\ c2s = <<>> /\ Only(s2c, {"RESULT"})

Playing ==
    \/ Out \/ Known \/ InLobby \/ Asking \/ Arriving \/ InRoom
    \/ Called \/ Loading \/ Loaded \/ Put \/ InGame \/ Ending

Invariant ==
    /\ Types
    /\ ChatsRanged
    /\ Dialogs
    /\ course = "talk" => Talking
    /\ course = "play" => Playing /\ ~hasty

-----------------------------------------------------------------------------
(* Lemmas about queues                                                     *)

LEMMA TailPlaces ==
    ASSUME NEW S, NEW q \in Seq(S), q # <<>>
    PROVE  /\ Tail(q) \in Seq(S) /\ Len(Tail(q)) = Len(q) - 1
           /\ \A i \in DOMAIN Tail(q) : i + 1 \in DOMAIN q /\ Tail(q)[i] = q[i + 1]
           /\ \A i \in DOMAIN q : i # 1 => i - 1 \in DOMAIN Tail(q) /\ q[i] = Tail(q)[i - 1]
           /\ Head(q) = q[1] /\ 1 \in DOMAIN q /\ Head(q) \in S
OBVIOUS

LEMMA AppendPlaces ==
    ASSUME NEW S, NEW q \in Seq(S), NEW m \in S
    PROVE  /\ Append(q, m) \in Seq(S) /\ Len(Append(q, m)) = Len(q) + 1
           /\ \A i \in DOMAIN q : i \in DOMAIN Append(q, m) /\ Append(q, m)[i] = q[i]
           /\ Append(q, m)[Len(q) + 1] = m /\ Len(q) + 1 \in DOMAIN Append(q, m)
           /\ \A i \in DOMAIN Append(q, m) : i \in DOMAIN q \/ i = Len(q) + 1
           /\ Append(q, m) # <<>>
OBVIOUS

LEMMA ConcatIsAppend ==
    ASSUME NEW S, NEW q \in Seq(S), NEW m \in S, NEW n \in S
    PROVE  /\ q \o <<m>> = Append(q, m)
           /\ q \o (<<m>> \o <<>>) = Append(q, m)
           /\ q \o (<<m>> \o <<n>>) = Append(Append(q, m), n)
           /\ q \o <<>> \o <<>> = q
           /\ q \o <<m>> \o <<>> = Append(q, m)
           /\ q \o <<>> \o <<m>> = Append(q, m)
           /\ q \o <<m>> \o <<n>> = Append(Append(q, m), n)
OBVIOUS

LEMMA OnlyTail ==
    ASSUME NEW S, NEW q \in Seq(S), q # <<>>, NEW T, Only(q, T)
    PROVE  Only(Tail(q), T) /\ Head(q).t \in T
BY TailPlaces DEF Only

LEMMA OnlyAppend ==
    ASSUME NEW S, NEW q \in Seq(S), NEW m \in S, NEW T, Only(q, T), m.t \in T
    PROVE  Only(Append(q, m), T)
BY AppendPlaces DEF Only

LEMMA HasTail ==
    ASSUME NEW S, NEW q \in Seq(S), q # <<>>, NEW t
    PROVE  /\ Has(Tail(q), t) => Has(q, t)
           /\ Has(q, t) => Has(Tail(q), t) \/ Head(q).t = t
BY TailPlaces DEF Has

LEMMA HasAppend ==
    ASSUME NEW S, NEW q \in Seq(S), NEW m \in S, NEW t
    PROVE  Has(Append(q, m), t) <=> Has(q, t) \/ m.t = t
<1>1. Has(q, t) \/ m.t = t => Has(Append(q, m), t)
  BY AppendPlaces DEF Has
<1>2. Has(Append(q, m), t) => Has(q, t) \/ m.t = t
  BY AppendPlaces DEF Has
<1> QED
  BY <1>1, <1>2

LEMMA Packets ==
    /\ \A m \in ServerPackets : m.t = "READY" => m.pick \in Heroes
    /\ \A m \in ClientPackets :
          /\ m.t = "JOINED" => m.seat \in Seats
          /\ m.t = "READY" => m.seat \in Seats /\ m.pick \in Heroes
    /\ \A h \in Heroes : [t |-> "READY", pick |-> h] \in ServerPackets
    /\ \A s \in Seats, h \in Heroes : [t |-> "READY", seat |-> s, pick |-> h] \in ClientPackets
    /\ \A s \in Seats : [t |-> "JOINED", seat |-> s] \in ClientPackets
    /\ \A k \in {"LOGIN", "MAKE", "JOIN", "QUICK", "LOBBY_CHAT", "ROOM_CHAT", "LOADED", "CONFIRM"} :
          [t |-> k] \in ServerPackets
    /\ \A k \in {"ID", "LOGIN_FAILED", "NOJOIN", "NEWPLAYER", "LOBBY_CHAT", "ROOM_CHAT",
                 "ALLREADY", "PUT", "RESULT"} : [t |-> k] \in ClientPackets
BY DEF ServerPackets, ClientPackets

-----------------------------------------------------------------------------
(* The chat windows                                                        *)

LEMMA RangedIsDrawable ==
    ASSUME NEW w \in Windows, Ranged(w)
    PROVE  Drawable(w)
BY ScreensAssumption DEF Windows, Ranged, Drawable

LEMMA PushKeepsRange ==
    ASSUME NEW w \in Windows
    PROVE  Push(w) \in Windows /\ (Ranged(w) => Ranged(Push(w)))
<1>1. Lines \in Nat /\ Lines > 0
  BY ScreensAssumption
<1>2. w.n \in Nat /\ w.line \in Nat /\ w.front \in Int /\ w.last \in Int /\ w.scroll \in BOOLEAN
  BY DEF Windows
<1> DEFINE v == [n |-> w.n + 1,
                 line |-> IF w.line >= Lines THEN w.line ELSE w.line + 1,
                 front |-> IF w.scroll THEN w.n + 1 - Lines
                           ELSE IF w.line >= Lines THEN w.front + 1 ELSE w.front,
                 last |-> IF w.scroll THEN 0 ELSE w.last,
                 scroll |-> FALSE]
<1>3. CASE w.scroll
  <2>1. Push(w).n = w.n + 1
    BY <1>2, <1>3 DEF Push, Windows
  <2>2. Push(w).line = v.line
    BY <1>2, <1>3 DEF Push, Windows
  <2>3. Push(w).front = w.n + 1 - Lines
    BY <1>1, <1>2, <1>3 DEF Push, Windows
  <2>4. Push(w).last = 0
    BY <1>2, <1>3 DEF Push, Windows
  <2>5. Push(w).scroll = FALSE
    BY <1>2, <1>3 DEF Push, Windows
  <2>6. Push(w) = [n |-> Push(w).n, line |-> Push(w).line, front |-> Push(w).front,
                   last |-> Push(w).last, scroll |-> Push(w).scroll]
    BY <1>2, <1>3 DEF Push, Windows
  <2>7. Push(w) \in Windows
    <3> HIDE DEF v
    <3>1. v.line \in Nat
      BY <1>1, <1>2 DEF v
    <3>2. Push(w).n \in Nat /\ Push(w).line \in Nat /\ Push(w).front \in Int
      BY <1>1, <1>2, <2>1, <2>2, <2>3, <3>1
    <3>3. ASSUME NEW n \in Nat, NEW line \in Nat, NEW front \in Int, NEW last \in Int,
                 NEW scroll \in BOOLEAN
          PROVE  [n |-> n, line |-> line, front |-> front, last |-> last, scroll |-> scroll]
                     \in Windows
      BY DEF Windows
    <3>4. Push(w).last \in Int
      BY <2>4
    <3>8. Push(w).scroll \in BOOLEAN
      BY <2>5, Zenon
    <3> DEFINE u == Push(w)
    <3>5. u = [n |-> u.n, line |-> u.line, front |-> u.front, last |-> u.last, scroll |-> u.scroll]
      BY <2>6
    <3>6. u.n \in Nat /\ u.line \in Nat /\ u.front \in Int /\ u.last \in Int /\ u.scroll \in BOOLEAN
      BY <3>2, <3>4, <3>8
    <3> HIDE DEF u
    <3>7. u \in Windows
      BY <3>3, <3>5, <3>6
    <3> QED
      BY <3>7 DEF u
  <2>8. Ranged(w) => Ranged(Push(w))
    BY <1>1, <1>2, <1>3, <2>1, <2>2, <2>3, <2>4, <2>5 DEF Ranged
  <2> QED
    BY <2>7, <2>8
<1>4. CASE ~w.scroll
  <2>1. Push(w) = v
    BY <1>2, <1>4 DEF Push, Windows
  <2>2. v \in Windows
    BY <1>1, <1>2, <1>4 DEF Windows
  <2>3. Ranged(w) => Ranged(v)
    BY <1>1, <1>2, <1>4 DEF Ranged
  <2> QED
    BY <2>1, <2>2, <2>3
<1> QED
  BY <1>2, <1>3, <1>4

LEMMA WheelKeepsRange ==
    ASSUME NEW w \in Windows
    PROVE  /\ WheelDown(w) \in Windows /\ (Ranged(w) => Ranged(WheelDown(w)))
           /\ WheelUp(w) \in Windows /\ (Ranged(w) => Ranged(WheelUp(w)))
<1>1. Lines \in Nat /\ Lines > 0
  BY ScreensAssumption
<1>2. w.n \in Nat /\ w.line \in Nat /\ w.front \in Int /\ w.last \in Int /\ w.scroll \in BOOLEAN
  BY DEF Windows
<1> DEFINE Moved(d) == [w EXCEPT !.front = w.front + d, !.last = w.last + d, !.scroll = TRUE]
<1>3. ASSUME NEW d \in Int
      PROVE  /\ Moved(d) \in Windows
             /\ Moved(d).n = w.n /\ Moved(d).line = w.line
             /\ Moved(d).front = w.front + d /\ Moved(d).last = w.last + d
  <2>1. w.front + d \in Int /\ w.last + d \in Int
    BY <1>2
  <2>2. Moved(d) \in Windows
    BY <2>1 DEF Windows
  <2>3. /\ Moved(d).n = w.n /\ Moved(d).line = w.line
        /\ Moved(d).front = w.front + d /\ Moved(d).last = w.last + d
    BY DEF Windows
  <2> QED
    BY <2>2, <2>3
<1>4. WheelDown(w) = w \/ (WheelDown(w) = Moved(1)
                            /\ (w.n < Lines \/ w.n - Lines > w.front) /\ w.line >= Lines)
  BY DEF WheelDown
<1>5. WheelUp(w) = w \/ (WheelUp(w) = Moved(-1) /\ w.front > 0)
  BY <1>2 DEF WheelUp
<1> HIDE DEF Moved
<1>6. ASSUME (w.n < Lines \/ w.n - Lines > w.front) /\ w.line >= Lines, Ranged(w)
      PROVE  Ranged(Moved(1))
  <2> DEFINE v == Moved(1)
  <2>1. v.n = w.n /\ v.line = w.line /\ v.front = w.front + 1 /\ v.last = w.last + 1
    BY <1>3
  <2> HIDE DEF v
  <2>2. Ranged(v)
    BY <1>1, <1>2, <1>6, <2>1 DEF Ranged
  <2> QED
    BY <2>2 DEF v
<1>7. ASSUME w.front > 0, Ranged(w)
      PROVE  Ranged(Moved(-1))
  <2> DEFINE v == Moved(-1)
  <2>1. v.n = w.n /\ v.line = w.line /\ v.front = w.front + (-1) /\ v.last = w.last + (-1)
    BY <1>3
  <2> HIDE DEF v
  <2>2. Ranged(v)
    BY <1>1, <1>2, <1>7, <2>1 DEF Ranged
  <2> QED
    BY <2>2 DEF v
<1> QED
  BY <1>3, <1>4, <1>5, <1>6, <1>7

\* A clear without lines to clear changes nothing.
LEMMA ClearKeepsRange ==
    ASSUME Types, ChatsRanged, ClearLobbyChat
    PROVE  ChatsRanged' /\ chat' \in [{"LOBBY", "ROOM"} -> Windows] /\ wiped' \in BOOLEAN
<1>1. chat \in [{"LOBBY", "ROOM"} -> Windows] /\ wiped \in BOOLEAN
  BY DEF Types, ChatTypes, HistoryTypes
<1>2. chat["LOBBY"] \in Windows /\ chat["ROOM"] \in Windows
  BY <1>1
<1>3. /\ chat' = [chat EXCEPT !["LOBBY"] = [chat["LOBBY"] EXCEPT !.n = 0]]
      /\ wiped' = (wiped \/ chat["LOBBY"].n > 0)
  BY DEF ClearLobbyChat
<1>4. [chat["LOBBY"] EXCEPT !.n = 0] \in Windows
  BY <1>2 DEF Windows
<1>5. chat'["ROOM"] = chat["ROOM"] /\ chat'["LOBBY"] = [chat["LOBBY"] EXCEPT !.n = 0]
  BY <1>1, <1>3
<1>6. chat' \in [{"LOBBY", "ROOM"} -> Windows]
  BY <1>1, <1>3, <1>4
<1>7. wiped' \in BOOLEAN
  BY <1>1, <1>3
<1>8. ASSUME ~wiped' PROVE Ranged(chat'["LOBBY"])
  <2>1. ~wiped /\ chat["LOBBY"].n = 0
    <3>1. ~wiped /\ ~(chat["LOBBY"].n > 0)
      BY <1>1, <1>3, <1>8
    <3>2. chat["LOBBY"].n \in Nat
      BY <1>2 DEF Windows
    <3> QED
      BY <3>1, <3>2
  <2>2. [chat["LOBBY"] EXCEPT !.n = 0] = chat["LOBBY"]
    BY <1>2, <2>1 DEF Windows
  <2> QED
    BY <1>5, <2>1, <2>2 DEF ChatsRanged
<1>9. Ranged(chat'["ROOM"])
  BY <1>5 DEF ChatsRanged
<1> QED
  BY <1>6, <1>7, <1>8, <1>9 DEF ChatsRanged, Ranged

-----------------------------------------------------------------------------
(* Types                                                                   *)

LEMMA TypesAreOK == Types => TypeOK
<1>1. BoxSize \in Nat /\ BoxSize > 1
  BY ScreensAssumption
<1> QED
  BY <1>1 DEF Types, MenuTypes, RoomTypes, TypeOK

LEMMA InitTypes == Init => Types
<1> SUFFICES ASSUME Init PROVE Types
  OBVIOUS
<1>1. BoxSize \in Nat /\ BoxSize > 1 /\ 0 \in Seats
  BY ScreensAssumption
<1>2. MenuTypes
  BY <1>1 DEF Init, MenuTypes
<1>3. ChatTypes
  BY DEF Init, ChatTypes, NewChat, Windows
<1>4. RoomTypes
  BY DEF Init, RoomTypes
<1>5. NetTypes
  BY <1>1 DEF Init, NetTypes
<1>6. HistoryTypes
  BY ScreensAssumption DEF Init, HistoryTypes
<1> QED
  BY <1>2, <1>3, <1>4, <1>5, <1>6 DEF Types

\* A box keeps a place for the zero.
LEMMA BoxesKept ==
    ASSUME NEW n \in 0 .. BoxSize - 1
    PROVE  TypeChar(n) \in 0 .. BoxSize - 1 /\ BackSpace(n) \in 0 .. BoxSize - 1
BY ScreensAssumption DEF TypeChar, BackSpace

LEMMA ZeroFits == 0 \in 0 .. BoxSize - 1
BY ScreensAssumption

LEMMA MenuUnchanged ==
    ASSUME MenuTypes, UNCHANGED menuVars PROVE MenuTypes'
BY DEF MenuTypes, menuVars
LEMMA ChatUnchanged ==
    ASSUME ChatTypes, UNCHANGED chat PROVE ChatTypes'
BY DEF ChatTypes
LEMMA RoomUnchanged ==
    ASSUME RoomTypes, UNCHANGED roomVars PROVE RoomTypes'
BY DEF RoomTypes, roomVars
LEMMA NetUnchanged ==
    ASSUME NetTypes, UNCHANGED netVars PROVE NetTypes'
BY DEF NetTypes, netVars
LEMMA HistoryUnchanged ==
    ASSUME HistoryTypes, UNCHANGED history PROVE HistoryTypes'
BY DEF HistoryTypes, history

\* What the client sends is a packet for the server, and the reverse.
LEMMA ToServerTypes ==
    ASSUME NetTypes, NEW m \in ServerPackets, ToServer(m), UNCHANGED <<srv, s2c>>
    PROVE  NetTypes'
BY AppendPlaces DEF NetTypes, ToServer

LEMMA HurryTypes ==
    ASSUME HistoryTypes, NEW yes \in BOOLEAN, Hurry(yes), wiped' \in BOOLEAN
    PROVE  HistoryTypes'
BY DEF HistoryTypes, Hurry, Pending

\* What a click in the lobby sends, with the table over it or not
LEMMA SendAlsoValues ==
    ASSUME NetTypes
    PROVE  /\ ~isEnding /\ SendAlso(<<>>) => c2s' = c2s
           /\ \A m \in ServerPackets : ~isEnding /\ SendAlso(<<m>>) => c2s' = Append(c2s, m)
           /\ isEnding /\ SendAlso(<<>>) => c2s' = Append(c2s, [t |-> "CONFIRM"])
           /\ \A m \in ServerPackets : isEnding /\ SendAlso(<<m>>) =>
                  c2s' = Append(Append(c2s, [t |-> "CONFIRM"]), m)
<1> DEFINE C == [t |-> "CONFIRM"]
<1>1. C \in ServerPackets /\ c2s \in Seq(ServerPackets)
  BY Packets DEF NetTypes
<1>2. ~isEnding => Confirmation = <<>>
  BY DEF Confirmation
<1>3. isEnding => Confirmation = <<C>>
  BY DEF Confirmation
<1>4. \A ms : SendAlso(ms) => c2s' = c2s \o Confirmation \o ms
  BY DEF SendAlso
<1> HIDE DEF C
<1>5. ~isEnding /\ SendAlso(<<>>) => c2s' = c2s
  BY <1>1, <1>2, <1>4, ConcatIsAppend
<1>6. ASSUME NEW m \in ServerPackets, ~isEnding, SendAlso(<<m>>)
      PROVE  c2s' = Append(c2s, m)
  <2>1. c2s \o <<>> \o <<m>> = Append(c2s, m)
    BY <1>1
  <2> QED
    BY <1>2, <1>4, <1>6, <2>1
<1>7. isEnding /\ SendAlso(<<>>) => c2s' = Append(c2s, C)
  <2>1. c2s \o <<C>> \o <<>> = Append(c2s, C)
    BY <1>1
  <2> QED
    BY <1>3, <1>4, <2>1
<1>8. ASSUME NEW m \in ServerPackets, isEnding, SendAlso(<<m>>)
      PROVE  c2s' = Append(Append(c2s, C), m)
  <2>1. c2s \o <<C>> \o <<m>> = Append(Append(c2s, C), m)
    BY <1>1
  <2> QED
    BY <1>3, <1>4, <1>8, <2>1
<1> QED
  BY <1>5, <1>6, <1>7, <1>8 DEF C

LEMMA SendAlsoTypes ==
    ASSUME NetTypes, isEnding \in BOOLEAN, UNCHANGED <<srv, s2c>>,
           SendAlso(<<>>) \/ \E t \in {"JOIN", "QUICK", "MAKE"} : SendAlso(<<[t |-> t]>>)
    PROVE  NetTypes'
<1>1. [t |-> "CONFIRM"] \in ServerPackets /\ c2s \in Seq(ServerPackets)
  BY Packets DEF NetTypes
<1>2. \A t \in {"JOIN", "QUICK", "MAKE"} : [t |-> t] \in ServerPackets
  BY Packets
<1>3. c2s' \in Seq(ServerPackets)
  <2>1. CASE SendAlso(<<>>)
    <3>1. c2s' = c2s \/ c2s' = Append(c2s, [t |-> "CONFIRM"])
      BY <2>1, SendAlsoValues
    <3>2. Append(c2s, [t |-> "CONFIRM"]) \in Seq(ServerPackets)
      BY <1>1
    <3> QED
      BY <1>1, <3>1, <3>2
  <2>2. ASSUME NEW t \in {"JOIN", "QUICK", "MAKE"}, SendAlso(<<[t |-> t]>>)
        PROVE  c2s' \in Seq(ServerPackets)
    <3> DEFINE m == [t |-> t]
    <3>1. m \in ServerPackets /\ SendAlso(<<m>>)
      BY <1>2, <2>2
    <3> HIDE DEF m
    <3>2. c2s' = Append(c2s, m) \/ c2s' = Append(Append(c2s, [t |-> "CONFIRM"]), m)
      BY <3>1, SendAlsoValues
    <3>3. Append(c2s, [t |-> "CONFIRM"]) \in Seq(ServerPackets)
      BY <1>1
    <3> DEFINE q == Append(c2s, [t |-> "CONFIRM"])
    <3>4. q \in Seq(ServerPackets) /\ (c2s' = Append(c2s, m) \/ c2s' = Append(q, m))
      BY <3>2, <3>3
    <3> HIDE DEF q
    <3>5. Append(c2s, m) \in Seq(ServerPackets) /\ Append(q, m) \in Seq(ServerPackets)
      BY <1>1, <3>1, <3>4
    <3> QED
      BY <3>4, <3>5
  <2> QED
    BY <2>1, <2>2
<1> QED
  BY <1>3 DEF NetTypes

\* The player's actions that say nothing to the server
LEMMA QuietTypes ==
    ASSUME Types,
           \/ ID_PASSWORD_Input \/ MenuClick \/ KeyReturn \/ AltTab \/ Password_Input \/ EndFrame
    PROVE  Types'
<1>1. UNCHANGED <<chat, roomVars, netVars, history>>
  BY DEF ID_PASSWORD_Input, MenuClick, KeyReturn, AltTab, Password_Input, EndFrame
<1>2. ChatTypes' /\ RoomTypes' /\ NetTypes' /\ HistoryTypes'
  BY <1>1, ChatUnchanged, RoomUnchanged, NetUnchanged, HistoryUnchanged DEF Types
<1>3. MenuTypes
  BY DEF Types
<1>4. menu.id \in 0 .. BoxSize - 1 /\ menu.pw \in 0 .. BoxSize - 1 /\ dialog.pw \in 0 .. BoxSize - 1
  BY <1>3 DEF MenuTypes
<1>5. /\ TypeChar(menu.id) \in 0 .. BoxSize - 1 /\ BackSpace(menu.id) \in 0 .. BoxSize - 1
      /\ TypeChar(menu.pw) \in 0 .. BoxSize - 1 /\ BackSpace(menu.pw) \in 0 .. BoxSize - 1
      /\ TypeChar(dialog.pw) \in 0 .. BoxSize - 1 /\ BackSpace(dialog.pw) \in 0 .. BoxSize - 1
  BY <1>4, BoxesKept
<1>6. MenuTypes'
  <2>1. CASE ID_PASSWORD_Input
    BY <1>3, <1>5, <2>1 DEF MenuTypes, ID_PASSWORD_Input
  <2>2. CASE MenuClick
    BY <1>3, <2>2 DEF MenuTypes, MenuClick
  <2>3. CASE KeyReturn
    BY <1>3, <2>3 DEF MenuTypes, KeyReturn
  <2>4. CASE AltTab
    BY <1>3, <2>4 DEF MenuTypes, AltTab
  <2>5. CASE Password_Input
    BY <1>3, <1>5, <2>5 DEF MenuTypes, Password_Input
  <2>6. CASE EndFrame
    BY <1>3, <2>6 DEF MenuTypes, EndFrame
  <2> QED
    BY <2>1, <2>2, <2>3, <2>4, <2>5, <2>6
<1> QED
  BY <1>2, <1>6 DEF Types

\* Those that send a packet
LEMMA SenderTypes ==
    ASSUME Types, SendLogin \/ EditReturn \/ LoadingFrame
    PROVE  Types'
<1>1. MenuTypes /\ ChatTypes' /\ RoomTypes' /\ NetTypes /\ HistoryTypes'
  BY ChatUnchanged, RoomUnchanged, HistoryUnchanged DEF Types, SendLogin, EditReturn, LoadingFrame
<1>2. CASE SendLogin
  <2>1. MenuTypes'
    BY <1>1, <1>2, MenuUnchanged DEF SendLogin
  <2>2. NetTypes'
    BY <1>1, <1>2, Packets, ToServerTypes DEF SendLogin
  <2> QED
    BY <1>1, <2>1, <2>2 DEF Types
<1>3. CASE EditReturn
  <2>1. MenuTypes'
    BY <1>1, <1>3 DEF MenuTypes, EditReturn
  <2>2. NetTypes'
    <3>1. CASE c2s' = c2s
      BY <1>1, <1>3, <3>1 DEF EditReturn, NetTypes
    <3>2. CASE c2s' # c2s
      <4>1. PICK k \in {"LOBBY_CHAT", "ROOM_CHAT"} : ToServer([t |-> k])
        BY <1>3, <3>2 DEF EditReturn
      <4> QED
        BY <1>1, <1>3, <4>1, Packets, ToServerTypes DEF EditReturn
    <3> QED
      BY <3>1, <3>2
  <2> QED
    BY <1>1, <2>1, <2>2 DEF Types
<1>4. CASE LoadingFrame
  <2>1. MenuTypes'
    BY <1>1, <1>4 DEF MenuTypes, LoadingFrame
  <2>2. NetTypes'
    BY <1>1, <1>4, Packets, ToServerTypes DEF LoadingFrame
  <2> QED
    BY <1>1, <2>1, <2>2 DEF Types
<1> QED
  BY <1>2, <1>3, <1>4

\* The wheel
LEMMA WheelTypes == ASSUME Types, Wheel PROVE Types'
<1>1. MenuTypes' /\ RoomTypes' /\ NetTypes' /\ HistoryTypes'
  BY MenuUnchanged, RoomUnchanged, NetUnchanged, HistoryUnchanged DEF Types, Wheel
<1>2. ChatTypes /\ scene \in {"LOBBY", "ROOM"}
  BY DEF Types, Wheel
<1>3. chat[scene] \in Windows
  BY <1>2 DEF ChatTypes
<1>4. WheelDown(chat[scene]) \in Windows /\ WheelUp(chat[scene]) \in Windows
  BY <1>3, WheelKeepsRange
<1>5. ChatTypes'
  BY <1>2, <1>4 DEF ChatTypes, Wheel
<1> QED
  BY <1>1, <1>5 DEF Types

\* What the click that confirms the table does besides
LEMMA ConfirmTypes ==
    ASSUME Types, Confirm, UNCHANGED <<my, picks, ready>>
    PROVE  RoomTypes' /\ isEnding' \in BOOLEAN
<1>1. RoomTypes /\ isEnding \in BOOLEAN
  BY DEF Types, MenuTypes
<1> QED
  BY <1>1 DEF Confirm, RoomTypes

\* Clicks in the lobby
LEMMA ClickTypes ==
    ASSUME Types, ChatsRanged, LobbyClick \/ DialogClick \/ ConfirmRoom
    PROVE  Types'
<1>1. Confirm /\ UNCHANGED <<my, picks, ready, loading, result, menu, srv, s2c>>
  BY DEF LobbyClick, DialogClick, ConfirmRoom
<1>2. MenuTypes /\ ChatTypes /\ RoomTypes /\ NetTypes /\ HistoryTypes
  BY DEF Types
<1>3. RoomTypes' /\ isEnding' \in BOOLEAN
  BY <1>1, ConfirmTypes
<1>4. NetTypes'
  <2>1. SendAlso(<<>>) \/ \E t \in {"JOIN", "QUICK", "MAKE"} : SendAlso(<<[t |-> t]>>)
    BY DEF LobbyClick, DialogClick, ConfirmRoom
  <2>2. isEnding \in BOOLEAN
    BY <1>2 DEF MenuTypes
  <2> QED
    BY <1>1, <1>2, <2>1, <2>2, SendAlsoTypes
<1>5. ChatTypes' /\ wiped' \in BOOLEAN
  <2>1. ClearLobbyChat \/ UNCHANGED <<chat, wiped>>
    BY DEF LobbyClick, DialogClick, ConfirmRoom, EnterRoom
  <2> QED
    BY <1>2, <2>1, ClearKeepsRange DEF ChatTypes, HistoryTypes
<1>6. HistoryTypes'
  <2>1. Hurry(TRUE) \/ Hurry(FALSE)
    BY DEF LobbyClick, DialogClick, ConfirmRoom
  <2> QED
    BY <1>2, <1>5, <2>1, HurryTypes
<1>7. MenuTypes'
  <2>1. CASE LobbyClick
    BY <1>2, <1>3, <2>1 DEF MenuTypes, LobbyClick
  <2>2. CASE DialogClick
    <3>1. dialog' \in [open : BOOLEAN, box : {"RNOPE", "RNAME", "RPASSWORD"},
                       ticked : BOOLEAN, pw : 0 .. BoxSize - 1]
      BY <1>2, <2>2, ZeroFits DEF MenuTypes, DialogClick, Cancel
    <3>2. focus' \in {"main", "edit"}
      BY <1>2, <2>2 DEF MenuTypes, DialogClick, Cancel
    <3> QED
      BY <1>1, <1>2, <1>3, <2>2, <3>1, <3>2 DEF MenuTypes, DialogClick
  <2>3. CASE ConfirmRoom
    BY <1>2, <1>3, <2>3 DEF MenuTypes, ConfirmRoom, EnterRoom
  <2> QED
    BY <2>1, <2>2, <2>3
<1> QED
  BY <1>3, <1>4, <1>5, <1>6, <1>7 DEF Types

\* Clicks in a room
LEMMA RoomClickTypes == ASSUME Types, Pick \/ ReadyClick PROVE Types'
<1>1. MenuTypes' /\ ChatTypes' /\ RoomTypes /\ NetTypes /\ HistoryTypes
  BY MenuUnchanged, ChatUnchanged DEF Types, Pick, ReadyClick
<1>2. my.seat \in Seats
  BY <1>1 DEF RoomTypes, Pick, ReadyClick
<1>3. CASE Pick
  <2>1. RoomTypes'
    BY <1>1, <1>3 DEF RoomTypes, Pick
  <2> QED
    BY <1>1, <1>3, <2>1, NetUnchanged, HistoryUnchanged DEF Types, Pick
<1>4. CASE ReadyClick
  <2>1. picks[my.seat] \in Heroes
    BY <1>1, <1>2, <1>4 DEF RoomTypes, ReadyClick
  <2>2. RoomTypes'
    BY <1>1, <1>4, <2>1 DEF RoomTypes, ReadyClick
  <2>3. NetTypes'
    BY <1>1, <1>4, <2>1, Packets, ToServerTypes DEF ReadyClick
  <2>4. HistoryTypes'
    BY <1>1, <1>4, HurryTypes DEF ReadyClick, HistoryTypes
  <2> QED
    BY <1>1, <2>2, <2>3, <2>4 DEF Types
<1> QED
  BY <1>3, <1>4

\* What the server sends to this client
LEMMA ToClientValues ==
    ASSUME NetTypes, NEW m \in ClientPackets, NEW n \in ClientPackets
    PROVE  /\ ToClient(<<m>>) => s2c' = Append(s2c, m)
           /\ ToClient(<<m>> \o <<>>) => s2c' = Append(s2c, m)
           /\ ToClient(<<m>> \o <<n>>) => s2c' = Append(Append(s2c, m), n)
<1>1. s2c \in Seq(ClientPackets)
  BY DEF NetTypes
<1>2. s2c \o <<m>> = Append(s2c, m)
  BY <1>1
<1>3. s2c \o (<<m>> \o <<>>) = Append(s2c, m)
  BY <1>1
<1>4. s2c \o (<<m>> \o <<n>>) = Append(Append(s2c, m), n)
  BY <1>1
<1> QED
  BY <1>2, <1>3, <1>4 DEF ToClient

LEMMA SentTypes ==
    ASSUME NetTypes, NEW m \in ClientPackets, ToClient(<<m>>)
    PROVE  s2c' \in Seq(ClientPackets) /\ s2c' = Append(s2c, m)
<1>1. s2c' = Append(s2c, m)
  BY ToClientValues
<1>2. s2c \in Seq(ClientPackets)
  BY DEF NetTypes
<1>3. Append(s2c, m) \in Seq(ClientPackets)
  BY <1>2
<1> QED
  BY <1>1, <1>3

SrvTypes(r) ==
    r \in [lobby : BOOLEAN, room : {"none", "open", "game"}, seat : Seats,
           pick : Heroes \cup {EMPTY}, ready : BOOLEAN]

\* The server gives a seat in an open room; the client is told of it, and of
\* the others who are there.
Seated(s) ==
    /\ srv' = [srv EXCEPT !.lobby = FALSE, !.room = "open", !.seat = s, !.ready = FALSE]
    /\ \/ s2c' = Append(s2c, [t |-> "JOINED", seat |-> s])
       \/ s2c' = Append(Append(s2c, [t |-> "JOINED", seat |-> s]), [t |-> "NEWPLAYER"])

LEMMA SeatedTypes ==
    ASSUME NetTypes, NEW s \in Seats, Seated(s)
    PROVE  SrvTypes(srv') /\ s2c' \in Seq(ClientPackets)
<1>1. SrvTypes(srv')
  BY DEF NetTypes, Seated, SrvTypes
<1>2. [t |-> "JOINED", seat |-> s] \in ClientPackets /\ [t |-> "NEWPLAYER"] \in ClientPackets
  BY Packets
<1>3. s2c \in Seq(ClientPackets)
  BY DEF NetTypes
<1> DEFINE q == Append(s2c, [t |-> "JOINED", seat |-> s])
<1>4. q \in Seq(ClientPackets)
  BY <1>2, <1>3
<1> HIDE DEF q
<1>5. Append(q, [t |-> "NEWPLAYER"]) \in Seq(ClientPackets)
  BY <1>2, <1>4
<1>6. s2c' = q \/ s2c' = Append(q, [t |-> "NEWPLAYER"])
  BY DEF Seated, q
<1> QED
  BY <1>1, <1>4, <1>5, <1>6

\* MAKE always gives one.
LEMMA MakeGivesSeat ==
    ASSUME NetTypes, MakeRoom
    PROVE  \E s \in Seats : Seated(s)
<1> DEFINE m == [t |-> "JOINED", seat |-> 0]
<1>1. 0 \in Seats
  BY ScreensAssumption
<1>2. m \in ClientPackets /\ ToClient(<<m>>)
  BY <1>1, Packets DEF MakeRoom
<1> HIDE DEF m
<1>3. s2c' = Append(s2c, m)
  BY <1>2, SentTypes
<1>4. Seated(0)
  BY <1>3 DEF MakeRoom, Seated, m
<1> QED
  BY <1>1, <1>4

\* MAKE, JOIN and QUICK give a seat, or nothing and an answer.
LEMMA Requested ==
    ASSUME Types, MakeRoom \/ JoinRoom
    PROVE  \/ \E s \in Seats : Seated(s)
           \/ JoinRoom /\ srv' = srv /\ s2c' = Append(s2c, [t |-> "NOJOIN"])
<1>1. NetTypes /\ 0 \in Seats
  BY ScreensAssumption DEF Types
<1>2. \A s \in Seats : [t |-> "JOINED", seat |-> s] \in ClientPackets
  BY Packets
<1>3. [t |-> "NEWPLAYER"] \in ClientPackets /\ [t |-> "NOJOIN"] \in ClientPackets
  BY Packets
<1>4. CASE MakeRoom
  BY <1>1, <1>4, MakeGivesSeat
<1>5. CASE JoinRoom
  <2>1. CASE srv' = srv /\ ToClient(<<[t |-> "NOJOIN"]>>)
    BY <1>1, <1>3, <1>5, <2>1, SentTypes
  <2>2. CASE ~(srv' = srv /\ ToClient(<<[t |-> "NOJOIN"]>>))
    <3>1. PICK s \in Seats :
            /\ srv' = [srv EXCEPT !.lobby = FALSE, !.room = "open", !.seat = s, !.ready = FALSE]
            /\ ToClient(<<[t |-> "JOINED", seat |-> s]>>
                        \o IF s = 0 THEN <<>> ELSE <<[t |-> "NEWPLAYER"]>>)
      BY <1>5, <2>2 DEF JoinRoom
    <3> DEFINE m == [t |-> "JOINED", seat |-> s]
               n == [t |-> "NEWPLAYER"]
    <3>2. m \in ClientPackets /\ n \in ClientPackets
      BY <1>2, <1>3
    <3>3. ToClient(<<m>> \o <<>>) \/ ToClient(<<m>> \o <<n>>)
      BY <3>1
    <3> HIDE DEF m, n
    <3>4. s2c' = Append(s2c, m) \/ s2c' = Append(Append(s2c, m), n)
      BY <1>1, <3>2, <3>3, ToClientValues
    <3>5. Seated(s)
      BY <3>1, <3>4 DEF Seated, m, n
    <3> QED
      BY <3>5
  <2> QED
    BY <2>1, <2>2
<1> QED
  BY <1>4, <1>5


LEMMA RelayTypes ==
    ASSUME NetTypes, NEW to \in BOOLEAN, NEW m \in ClientPackets, Relay(to, m)
    PROVE  srv' = srv /\ s2c' \in Seq(ClientPackets)
BY SentTypes DEF Relay, NetTypes

\* The handlers of the server
LEMMA ServeTypes == ASSUME Types, Serve PROVE Types'
<1>1. MenuTypes' /\ ChatTypes' /\ RoomTypes' /\ NetTypes /\ HistoryTypes
  BY MenuUnchanged, ChatUnchanged, RoomUnchanged DEF Types, Serve
<1> DEFINE m == Head(c2s)
<1>2. c2s \in Seq(ServerPackets) /\ c2s # <<>> /\ c2s' = Tail(c2s)
  BY <1>1 DEF NetTypes, Serve
<1>3. c2s' \in Seq(ServerPackets) /\ m \in ServerPackets
  BY <1>2, TailPlaces
<1>4. s2c \in Seq(ClientPackets) /\ SrvTypes(srv)
  BY <1>1 DEF NetTypes, SrvTypes
<1>5. [t |-> "ID"] \in ClientPackets /\ [t |-> "LOGIN_FAILED"] \in ClientPackets
      /\ [t |-> "PUT"] \in ClientPackets
  BY Packets
<1>6. SrvTypes(srv') /\ s2c' \in Seq(ClientPackets) /\ HistoryTypes'
  <2>1. CASE Login /\ UNCHANGED history
    <3>1. SrvTypes(srv')
      BY <1>4, <2>1 DEF Login, SrvTypes
    <3>2. s2c' \in Seq(ClientPackets)
      BY <1>1, <1>5, <2>1, SentTypes DEF Login
    <3> QED
      BY <1>1, <2>1, <3>1, <3>2, HistoryUnchanged
  <2>2. CASE (MakeRoom \/ JoinRoom) /\ UNCHANGED history
    <3>1. CASE \E s \in Seats : Seated(s)
      BY <1>1, <2>2, <3>1, SeatedTypes, HistoryUnchanged
    <3>2. CASE srv' = srv /\ s2c' = Append(s2c, [t |-> "NOJOIN"])
      <4>1. [t |-> "NOJOIN"] \in ClientPackets
        BY Packets
      <4>2. s2c' \in Seq(ClientPackets)
        BY <1>4, <3>2, <4>1
      <4> QED
        BY <1>1, <1>4, <2>2, <3>2, <4>2, HistoryUnchanged
    <3> QED
      BY <2>2, <3>1, <3>2, Requested
  <2>3. CASE Say("LOBBY_CHAT", srv.lobby) \/ Say("ROOM_CHAT", srv.room # "none")
    <3>1. srv.lobby \in BOOLEAN /\ (srv.room # "none") \in BOOLEAN
      BY <1>4 DEF SrvTypes
    <3>2. [t |-> "LOBBY_CHAT"] \in ClientPackets /\ [t |-> "ROOM_CHAT"] \in ClientPackets
      BY Packets
    <3>3. srv' = srv /\ s2c' \in Seq(ClientPackets)
      BY <1>1, <2>3, <3>1, <3>2, RelayTypes DEF Say
    <3>4. HistoryTypes'
      BY <1>1, <2>3 DEF Say, HistoryTypes
    <3> QED
      BY <1>4, <3>3, <3>4
  <2>4. CASE UNCHANGED <<srv, s2c, history>>
    BY <1>1, <1>4, <2>4, HistoryUnchanged
  <2>5. CASE /\ m.t = "READY"
             /\ srv' = [srv EXCEPT !.pick = m.pick, !.ready = (srv.room = "open")]
             /\ UNCHANGED <<s2c, history>>
    <3>1. m.pick \in Heroes
      BY <1>3, <2>5, Packets
    <3> HIDE DEF m
    <3>2. SrvTypes(srv')
      BY <1>4, <2>5, <3>1 DEF SrvTypes
    <3> QED
      BY <1>1, <1>4, <2>5, <3>2, HistoryUnchanged
  <2>6. CASE Relay(srv.room # "none", [t |-> "PUT"]) /\ UNCHANGED history
    BY <1>1, <1>4, <1>5, <2>6, RelayTypes, HistoryUnchanged
  <2>7. CASE /\ srv' = [srv EXCEPT !.lobby = TRUE, !.room = "none", !.ready = FALSE]
             /\ UNCHANGED <<s2c, history>>
    <3>1. SrvTypes(srv')
      BY <1>4, <2>7 DEF SrvTypes
    <3> QED
      BY <1>1, <1>4, <2>7, <3>1, HistoryUnchanged
  <2> QED
    BY <2>1, <2>2, <2>3, <2>4, <2>5, <2>6, <2>7 DEF Serve
<1> QED
  BY <1>1, <1>3, <1>6 DEF Types, NetTypes, SrvTypes

LEMMA OthersTypes == ASSUME Types, Others PROVE Types'
<1>1. MenuTypes' /\ ChatTypes' /\ RoomTypes' /\ NetTypes /\ HistoryTypes /\ c2s' = c2s
  BY MenuUnchanged, ChatUnchanged, RoomUnchanged DEF Types, Others
<1>2. s2c \in Seq(ClientPackets) /\ SrvTypes(srv)
  BY <1>1 DEF NetTypes, SrvTypes
<1>3. /\ \A k \in {"LOBBY_CHAT", "ROOM_CHAT", "NEWPLAYER", "ALLREADY", "RESULT"} :
            [t |-> k] \in ClientPackets
      /\ \A s \in Seats, h \in Heroes : [t |-> "READY", seat |-> s, pick |-> h] \in ClientPackets
  BY Packets
<1>4. SrvTypes(srv') /\ s2c' \in Seq(ClientPackets) /\ HistoryTypes'
  <2>1. CASE Say("LOBBY_CHAT", TRUE) \/ Say("ROOM_CHAT", TRUE)
    <3>1. srv' = srv /\ s2c' \in Seq(ClientPackets)
      BY <1>1, <1>3, <2>1, RelayTypes DEF Say
    <3>2. HistoryTypes'
      BY <1>1, <2>1 DEF Say, HistoryTypes
    <3> QED
      BY <1>2, <3>1, <3>2
  <2>2. CASE /\ srv' = [srv EXCEPT !.ready = FALSE]
             /\ ToClient(<<[t |-> "NEWPLAYER"]>>) /\ UNCHANGED history
    <3>1. SrvTypes(srv')
      BY <1>2, <2>2 DEF SrvTypes
    <3> QED
      BY <1>1, <1>3, <2>2, <3>1, SentTypes, HistoryUnchanged
  <2>3. CASE /\ srv' = srv /\ UNCHANGED history
             /\ \E s \in Seats \ {srv.seat}, h \in Heroes :
                   ToClient(<<[t |-> "READY", seat |-> s, pick |-> h]>>)
    BY <1>1, <1>2, <1>3, <2>3, SentTypes, HistoryUnchanged
  <2>4. CASE /\ srv' = [srv EXCEPT !.ready = FALSE, !.room = "game"]
             /\ ToClient(<<[t |-> "ALLREADY"]>>) /\ UNCHANGED history
    <3>1. SrvTypes(srv')
      BY <1>2, <2>4 DEF SrvTypes
    <3> QED
      BY <1>1, <1>3, <2>4, <3>1, SentTypes, HistoryUnchanged
  <2>5. CASE srv' = srv /\ ToClient(<<[t |-> "RESULT"]>>) /\ UNCHANGED history
    BY <1>1, <1>2, <1>3, <2>5, SentTypes, HistoryUnchanged
  <2> QED
    BY <2>1, <2>2, <2>3, <2>4, <2>5 DEF Others
<1> QED
  BY <1>1, <1>4 DEF Types, NetTypes, SrvTypes

\* The packets of the server
LEMMA ReceiveTypes == ASSUME Types, ChatsRanged, Receive PROVE Types'
<1>1. MenuTypes /\ ChatTypes /\ RoomTypes /\ NetTypes /\ HistoryTypes
  BY DEF Types
<1> DEFINE m == Head(s2c)
<1>2. s2c \in Seq(ClientPackets) /\ s2c # <<>> /\ s2c' = Tail(s2c) /\ UNCHANGED <<srv, c2s>>
  BY <1>1 DEF NetTypes, Receive
<1>3. s2c' \in Seq(ClientPackets) /\ m \in ClientPackets
  BY <1>2, TailPlaces
<1>4. NetTypes'
  BY <1>1, <1>2, <1>3 DEF NetTypes
<1>5. (m.t = "JOINED" => m.seat \in Seats) /\ (m.t = "READY" => m.seat \in Seats /\ m.pick \in Heroes)
  BY <1>3, Packets
<1>6. MenuTypes' /\ ChatTypes' /\ RoomTypes' /\ HistoryTypes'
  <2> HIDE DEF m
  <2>1. CASE LoggedIn
    <3>1. MenuTypes'
      BY <1>1, <2>1, ZeroFits DEF MenuTypes, LoggedIn
    <3> QED
      BY <1>1, <2>1, <3>1, ChatUnchanged, RoomUnchanged, HistoryUnchanged DEF LoggedIn
  <2>2. CASE UNCHANGED <<menuVars, chat, roomVars, history>>
    BY <1>1, <2>2, MenuUnchanged, ChatUnchanged, RoomUnchanged, HistoryUnchanged
  <2>3. CASE m.t = "JOINED" /\ Joined(m.seat)
    <3>1. MenuTypes'
      BY <1>1, <2>3 DEF MenuTypes, Joined, EnterRoom
    <3>2. RoomTypes'
      BY <1>1, <1>5, <2>3 DEF RoomTypes, Joined
    <3>3. ChatTypes' /\ HistoryTypes'
      BY <1>1, <2>3, ClearKeepsRange DEF Joined, EnterRoom, ChatTypes, HistoryTypes
    <3> QED
      BY <3>1, <3>2, <3>3
  <2>4. CASE NewPlayer
    <3>1. RoomTypes'
      BY <1>1, <2>4 DEF RoomTypes, NewPlayer
    <3> QED
      BY <1>1, <2>4, <3>1, MenuUnchanged, ChatUnchanged, HistoryUnchanged DEF NewPlayer
  <2>5. CASE m.t = "READY" /\ OtherReady(m)
    <3>1. RoomTypes'
      BY <1>1, <1>5, <2>5 DEF RoomTypes, OtherReady, roomVars
    <3> QED
      BY <1>1, <2>5, <3>1, MenuUnchanged, ChatUnchanged, HistoryUnchanged DEF OtherReady
  <2>6. CASE AllReady
    <3>1. MenuTypes' /\ HistoryTypes'
      BY <1>1, <2>6 DEF MenuTypes, HistoryTypes, AllReady
    <3> QED
      BY <1>1, <2>6, <3>1, ChatUnchanged, RoomUnchanged DEF AllReady
  <2>7. CASE PutPlayer
    <3>1. MenuTypes' /\ RoomTypes'
      BY <1>1, <2>7 DEF MenuTypes, RoomTypes, PutPlayer
    <3> QED
      BY <1>1, <2>7, <3>1, ChatUnchanged, HistoryUnchanged DEF PutPlayer
  <2>8. ASSUME NEW w \in {"LOBBY", "ROOM"}, Chat(w)
        PROVE  MenuTypes' /\ ChatTypes' /\ RoomTypes' /\ HistoryTypes'
    <3>1. chat[w] \in Windows
      BY <1>1 DEF ChatTypes
    <3>2. ChatTypes'
      BY <1>1, <2>8, <3>1, PushKeepsRange DEF ChatTypes, Chat
    <3> QED
      BY <1>1, <2>8, <3>2, MenuUnchanged, RoomUnchanged, HistoryUnchanged DEF Chat
  <2>9. CASE result' = TRUE /\ UNCHANGED <<scene, isEnding, loading, focus, menu, dialog, chat, roomVars, history>>
    <3>1. MenuTypes'
      BY <1>1, <2>9 DEF MenuTypes
    <3> QED
      BY <1>1, <2>9, <3>1, ChatUnchanged, RoomUnchanged, HistoryUnchanged
  <2> QED
    BY <2>1, <2>2, <2>3, <2>4, <2>5, <2>6, <2>7, <2>8, <2>9 DEF Receive, m
<1> QED
  BY <1>4, <1>6 DEF Types

LEMMA TypesStep == ASSUME Types, ChatsRanged, Next PROVE Types'
BY QuietTypes, SenderTypes, WheelTypes, ClickTypes, RoomClickTypes, ServeTypes, OthersTypes,
   ReceiveTypes DEF Next


-----------------------------------------------------------------------------
(* The chat windows stay in range                                          *)

LEMMA ChatsRangedStep == ASSUME Types, ChatsRanged, Next PROVE ChatsRanged'
<1>1. ChatTypes
  BY DEF Types
<1>2. ASSUME UNCHANGED <<chat, wiped>> PROVE ChatsRanged'
  BY <1>2 DEF ChatsRanged, Ranged
<1>3. CASE Wheel
  <2>1. scene \in {"LOBBY", "ROOM"} /\ wiped' = wiped
    BY <1>3 DEF Wheel, history
  <2>2. chat[scene] \in Windows
    BY <1>1, <2>1 DEF ChatTypes
  <2>3. \/ chat' = [chat EXCEPT ![scene] = WheelDown(chat[scene])]
        \/ chat' = [chat EXCEPT ![scene] = WheelUp(chat[scene])]
    BY <1>3 DEF Wheel
  <2>4. Ranged(chat[scene]) => Ranged(chat'[scene])
    BY <1>1, <2>1, <2>2, <2>3, WheelKeepsRange DEF ChatTypes
  <2>5. \A w \in {"LOBBY", "ROOM"} : w # scene => chat'[w] = chat[w]
    BY <1>1, <2>3 DEF ChatTypes
  <2>6. CASE scene = "ROOM"
    <3>1. Ranged(chat'["ROOM"])
      BY <2>4, <2>6 DEF ChatsRanged
    <3>2. chat'["LOBBY"] = chat["LOBBY"]
      BY <2>5, <2>6
    <3>3. wiped \/ Ranged(chat'["LOBBY"])
      BY <3>2 DEF ChatsRanged
    <3> QED
      BY <2>1, <3>1, <3>3 DEF ChatsRanged, Ranged
  <2>7. CASE scene = "LOBBY"
    <3>1. wiped \/ Ranged(chat'["LOBBY"])
      BY <2>4, <2>7 DEF ChatsRanged
    <3>2. chat'["ROOM"] = chat["ROOM"]
      BY <2>5, <2>7
    <3>3. Ranged(chat'["ROOM"])
      BY <3>2 DEF ChatsRanged
    <3> QED
      BY <2>1, <3>1, <3>3 DEF ChatsRanged, Ranged
  <2> QED
    BY <2>1, <2>6, <2>7
<1>4. ASSUME NEW w \in {"LOBBY", "ROOM"}, Chat(w) PROVE ChatsRanged'
  <2>1. wiped' = wiped /\ chat' = [chat EXCEPT ![w] = Push(chat[w])]
    BY <1>4 DEF Chat, history
  <2>2. chat[w] \in Windows
    BY <1>1 DEF ChatTypes
  <2>3. Ranged(chat[w]) => Ranged(chat'[w])
    BY <1>1, <2>1, <2>2, PushKeepsRange DEF ChatTypes
  <2>4. \A v \in {"LOBBY", "ROOM"} : v # w => chat'[v] = chat[v]
    BY <1>1, <2>1 DEF ChatTypes
  <2>5. Ranged(chat'["ROOM"])
    BY <2>3, <2>4 DEF ChatsRanged
  <2>6. wiped \/ Ranged(chat'["LOBBY"])
    BY <2>3, <2>4 DEF ChatsRanged
  <2> QED
    BY <2>1, <2>5, <2>6 DEF ChatsRanged, Ranged
<1>5. CASE LobbyClick \/ DialogClick \/ ConfirmRoom
  <2>1. ClearLobbyChat \/ UNCHANGED <<chat, wiped>>
    BY <1>5 DEF LobbyClick, DialogClick, ConfirmRoom, EnterRoom
  <2> QED
    BY <1>2, <2>1, ClearKeepsRange
<1>6. CASE Receive
  <2>1. \/ UNCHANGED <<chat, wiped>>
        \/ ClearLobbyChat
        \/ \E w \in {"LOBBY", "ROOM"} : Chat(w)
    BY <1>6 DEF Receive, LoggedIn, Joined, EnterRoom, NewPlayer, OtherReady, AllReady, PutPlayer,
                history
  <2> QED
    BY <1>2, <1>4, <2>1, ClearKeepsRange
<1>7. CASE \/ ID_PASSWORD_Input \/ MenuClick \/ SendLogin \/ KeyReturn \/ EditReturn \/ AltTab
           \/ Password_Input \/ Pick \/ ReadyClick \/ LoadingFrame \/ EndFrame
  BY <1>2, <1>7 DEF ID_PASSWORD_Input, MenuClick, SendLogin, KeyReturn, EditReturn, AltTab,
                    Password_Input, Pick, ReadyClick, LoadingFrame, EndFrame, history
<1>8. CASE Serve \/ Others
  BY <1>2, <1>8 DEF Serve, Others, Say, history
<1> QED
  BY <1>3, <1>5, <1>6, <1>7, <1>8 DEF Next

-----------------------------------------------------------------------------
(* The dialog                                                              *)

HasAny(q, T) == \E i \in DOMAIN q : q[i].t \in T

LEMMA AnyTail ==
    ASSUME NEW S, NEW q \in Seq(S), q # <<>>, NEW T
    PROVE  HasAny(Tail(q), T) => HasAny(q, T)
BY TailPlaces DEF HasAny

LEMMA AnyHead ==
    ASSUME NEW S, NEW q \in Seq(S), q # <<>>, NEW T, Head(q).t \in T
    PROVE  HasAny(q, T)
BY TailPlaces DEF HasAny

LEMMA AnyAppend ==
    ASSUME NEW S, NEW q \in Seq(S), NEW m \in S, NEW T, m.t \notin T
    PROVE  HasAny(Append(q, m), T) => HasAny(q, T)
BY AppendPlaces DEF HasAny

LEMMA PendingIs == Pending <=> HasAny(c2s, Requests) \/ HasAny(s2c, Answers)
BY DEF Pending, HasAny

LEMMA PendingIsNext == Pending' <=> HasAny(c2s', Requests) \/ HasAny(s2c', Answers)
BY DEF Pending, HasAny

\* What the server says to this client, unasked or to a packet that is no
\* request for a room, is no answer to one.
LEMMA ServeSays ==
    ASSUME Types, Serve, Head(c2s).t \notin Requests
    PROVE  \/ s2c' = s2c
           \/ \E m \in ClientPackets : m.t \notin Answers /\ s2c' = Append(s2c, m)
<1>1. NetTypes /\ \A k \in {"ID", "LOGIN_FAILED", "LOBBY_CHAT", "ROOM_CHAT", "PUT"} :
                     [t |-> k] \in ClientPackets
  BY Packets DEF Types
<1>2. \/ s2c' = s2c
      \/ \E k \in {"ID", "LOGIN_FAILED", "LOBBY_CHAT", "ROOM_CHAT", "PUT"} : ToClient(<<[t |-> k]>>)
  BY DEF Serve, Requests, Login, Say, Relay
<1>3. ASSUME NEW k \in {"ID", "LOGIN_FAILED", "LOBBY_CHAT", "ROOM_CHAT", "PUT"},
             ToClient(<<[t |-> k]>>)
      PROVE  \E m \in ClientPackets : m.t \notin Answers /\ s2c' = Append(s2c, m)
  <2>1. [t |-> k] \in ClientPackets /\ s2c' = Append(s2c, [t |-> k])
    BY <1>1, <1>3, SentTypes
  <2>2. [t |-> k].t \notin Answers
    BY DEF Answers
  <2> QED
    BY <2>1, <2>2
<1> QED
  BY <1>2, <1>3

LEMMA OthersSay ==
    ASSUME Types, Others
    PROVE  \/ s2c' = s2c
           \/ \E m \in ClientPackets : m.t \notin Answers /\ s2c' = Append(s2c, m)
<1>1. NetTypes /\ \A k \in {"LOBBY_CHAT", "ROOM_CHAT", "NEWPLAYER", "ALLREADY", "RESULT"} :
                     [t |-> k] \in ClientPackets
  BY Packets DEF Types
<1>2. /\ \A k \in {"LOBBY_CHAT", "ROOM_CHAT"} : [t |-> k] \in ClientPackets
      /\ \A s \in Seats, h \in Heroes : [t |-> "READY", seat |-> s, pick |-> h] \in ClientPackets
  BY Packets
<1>3. \/ \E k \in {"LOBBY_CHAT", "ROOM_CHAT", "NEWPLAYER", "ALLREADY", "RESULT"} :
            ToClient(<<[t |-> k]>>)
      \/ \E s \in Seats, h \in Heroes : ToClient(<<[t |-> "READY", seat |-> s, pick |-> h]>>)
  BY DEF Others, Say, Relay
<1>4. \A m \in ClientPackets : ToClient(<<m>>) => s2c' = Append(s2c, m)
  BY <1>1, SentTypes
<1>5. \A k \in {"LOBBY_CHAT", "ROOM_CHAT", "NEWPLAYER", "ALLREADY", "RESULT"} :
         [t |-> k].t \notin Answers
  BY DEF Answers
<1>6. \A s \in Seats, h \in Heroes : [t |-> "READY", seat |-> s, pick |-> h].t \notin Answers
  BY DEF Answers
<1> QED
  BY <1>1, <1>2, <1>3, <1>4, <1>5, <1>6

\* Nothing happens to the dialog, and nothing is asked for.
LEMMA DialogUntouched ==
    ASSUME Dialogs, dialog'.open = dialog.open, dialog'.ticked = dialog.ticked,
           hasty' = FALSE => hasty = FALSE, hasty \in BOOLEAN, hasty' \in BOOLEAN,
           Pending' => Pending
    PROVE  Dialogs'
BY DEF Dialogs, DialogAlone, DialogFresh

LEMMA DialogStep == ASSUME Types, Types', Dialogs, Next PROVE Dialogs'
<1>1. /\ c2s \in Seq(ServerPackets) /\ s2c \in Seq(ClientPackets)
      /\ hasty \in BOOLEAN /\ hasty' \in BOOLEAN
      /\ dialog \in [open : BOOLEAN, box : {"RNOPE", "RNAME", "RPASSWORD"},
                     ticked : BOOLEAN, pw : 0 .. BoxSize - 1]
      /\ isEnding \in BOOLEAN
  BY DEF Types, NetTypes, HistoryTypes, MenuTypes
<1>2. ASSUME c2s' = c2s, s2c' = s2c PROVE Pending' => Pending
  BY <1>2, PendingIs, PendingIsNext
<1>3. ASSUME NEW m \in ServerPackets, m.t \notin Requests, c2s' = Append(c2s, m), s2c' = s2c
      PROVE  Pending' => Pending
  BY <1>1, <1>3, PendingIs, PendingIsNext, AnyAppend
<1>4. CASE \/ ID_PASSWORD_Input \/ MenuClick \/ KeyReturn \/ AltTab \/ Wheel
           \/ Password_Input \/ Pick \/ EndFrame
  <2>1. UNCHANGED <<c2s, s2c, hasty>>
    BY <1>4 DEF ID_PASSWORD_Input, MenuClick, KeyReturn, AltTab, Wheel, Password_Input, Pick,
                EndFrame, netVars, history
  <2>2. dialog'.open = dialog.open /\ dialog'.ticked = dialog.ticked
    <3>1. CASE Password_Input
      BY <1>1, <3>1 DEF Password_Input
    <3>2. CASE ~Password_Input
      BY <1>4, <3>2 DEF ID_PASSWORD_Input, MenuClick, KeyReturn, AltTab, Wheel, Pick, EndFrame,
                        menuVars
    <3> QED
      BY <3>1, <3>2
  <2> QED
    BY <1>1, <1>2, <2>1, <2>2, DialogUntouched
<1>5. CASE SendLogin \/ EditReturn \/ LoadingFrame \/ ReadyClick
  <2>1. UNCHANGED <<dialog, s2c>> /\ (hasty' = FALSE => hasty = FALSE)
    BY <1>1, <1>5 DEF SendLogin, EditReturn, LoadingFrame, ReadyClick, Hurry, menuVars, history
  <2>2. Pending' => Pending
    <3>1. \A k \in {"LOGIN", "LOBBY_CHAT", "ROOM_CHAT", "LOADED"} :
             [t |-> k] \in ServerPackets /\ [t |-> k].t \notin Requests
      BY Packets DEF Requests
    <3>2. \/ c2s' = c2s
          \/ \E k \in {"LOGIN", "LOBBY_CHAT", "ROOM_CHAT", "LOADED"} : c2s' = Append(c2s, [t |-> k])
          \/ ReadyClick
      BY <1>5 DEF SendLogin, EditReturn, LoadingFrame, ToServer
    <3>3. CASE ReadyClick
      <4>1. picks[my.seat] \in Heroes
        BY <3>3 DEF ReadyClick, Types, RoomTypes
      <4> DEFINE m == [t |-> "READY", pick |-> picks[my.seat]]
      <4>2. m \in ServerPackets /\ m.t \notin Requests
        BY <4>1, Packets DEF Requests
      <4>3. c2s' = Append(c2s, m)
        BY <3>3 DEF ReadyClick, ToServer
      <4> HIDE DEF m
      <4> QED
        BY <1>3, <2>1, <4>2, <4>3
    <3> QED
      BY <1>2, <1>3, <2>1, <3>1, <3>2, <3>3
  <2> QED
    BY <1>1, <2>1, <2>2, DialogUntouched
<1>6. ASSUME SendAlso(<<>>), s2c' = s2c PROVE Pending' => Pending
  <2> DEFINE m == [t |-> "CONFIRM"]
  <2>1. m \in ServerPackets /\ m.t \notin Requests
    BY Packets DEF Requests
  <2>2. c2s' = c2s \/ c2s' = Append(c2s, m)
    BY <1>1, <1>6, SendAlsoValues DEF Types
  <2> HIDE DEF m
  <2> QED
    BY <1>2, <1>3, <1>6, <2>1, <2>2
<1>7. CASE LobbyClick
  <2>1. ~dialog.open /\ s2c' = s2c
    BY <1>7 DEF LobbyClick
  <2>2. CASE Hurry(TRUE) /\ dialog' = dialog
    BY <1>1, <2>1, <2>2 DEF Dialogs, DialogAlone, DialogFresh, Hurry
  <2>3. CASE SendAlso(<<>>) /\ Hurry(TRUE) /\ dialog' = [dialog EXCEPT !.open = TRUE, !.box = "RNOPE"]
    <3>1. Pending' => Pending
      BY <1>6, <2>1, <2>3
    <3>2. ~hasty' => ~Pending
      BY <2>3 DEF Hurry
    <3>3. dialog'.open
      BY <1>1, <2>3
    <3> QED
      BY <3>1, <3>2, <3>3 DEF Dialogs, DialogAlone, DialogFresh
  <2>4. CASE SendAlso(<<>>) /\ Hurry(FALSE) /\ dialog' = dialog
    BY <1>1, <1>6, <2>1, <2>4, DialogUntouched DEF Hurry
  <2> QED
    BY <1>7, <2>2, <2>3, <2>4 DEF LobbyClick
<1>8. CASE DialogClick
  <2>1. dialog.open /\ SendAlso(<<>>) /\ s2c' = s2c /\ hasty' = hasty
    BY <1>1, <1>8 DEF DialogClick, Hurry
  <2>2. dialog'.open \/ (~dialog'.open /\ ~dialog'.ticked)
    BY <1>1, <1>8 DEF DialogClick, Cancel
  <2>3. Pending' => Pending
    BY <1>6, <2>1
  <2> QED
    BY <2>1, <2>2, <2>3 DEF Dialogs, DialogAlone, DialogFresh
<1>9. CASE ConfirmRoom
  <2>1. ~dialog'.open /\ ~dialog'.ticked
    BY <1>1, <1>9 DEF ConfirmRoom
  <2> QED
    BY <2>1 DEF Dialogs, DialogAlone, DialogFresh
<1>10. CASE Serve
  <2>1. UNCHANGED <<dialog, hasty>> /\ c2s # <<>> /\ c2s' = Tail(c2s)
    BY <1>10 DEF Serve, Say, menuVars, history
  <2>2. Pending' => Pending
    <3>1. CASE Head(c2s).t \in Requests
      BY <1>1, <2>1, <3>1, AnyHead, PendingIs
    <3>2. CASE Head(c2s).t \notin Requests
      <4>1. HasAny(c2s', Requests) => HasAny(c2s, Requests)
        BY <1>1, <2>1, AnyTail
      <4>2. HasAny(s2c', Answers) => HasAny(s2c, Answers)
        BY <1>1, <1>10, <3>2, ServeSays, AnyAppend
      <4> QED
        BY <4>1, <4>2, PendingIs, PendingIsNext
    <3> QED
      BY <3>1, <3>2
  <2> QED
    BY <1>1, <2>1, <2>2, DialogUntouched
<1>11. CASE Others
  <2>1. UNCHANGED <<dialog, hasty, c2s>>
    BY <1>11 DEF Others, Say, menuVars, history
  <2>2. HasAny(s2c', Answers) => HasAny(s2c, Answers)
    BY <1>1, <1>11, OthersSay, AnyAppend
  <2>3. Pending' => Pending
    BY <2>1, <2>2, PendingIs, PendingIsNext
  <2> QED
    BY <1>1, <2>1, <2>3, DialogUntouched
<1>12. CASE Receive
  <2>1. s2c # <<>> /\ s2c' = Tail(s2c) /\ c2s' = c2s
    BY <1>12 DEF Receive
  <2>2. HasAny(s2c', Answers) => HasAny(s2c, Answers)
    BY <1>1, <2>1, AnyTail
  <2>3. Pending' => Pending
    BY <2>1, <2>2, PendingIs, PendingIsNext
  <2>4. CASE Head(s2c).t = "JOINED" /\ Joined(Head(s2c).seat)
    <3>1. Pending
      BY <1>1, <2>1, <2>4, AnyHead, PendingIs DEF Answers
    <3>2. dialog' = [dialog EXCEPT !.open = FALSE] /\ hasty' = hasty
      BY <2>4 DEF Joined
    <3>3. ~dialog'.open /\ dialog'.ticked = dialog.ticked
      BY <1>1, <3>2
    <3> QED
      BY <3>1, <3>2, <3>3 DEF Dialogs, DialogAlone, DialogFresh
  <2>5. CASE UNCHANGED <<dialog, hasty>>
    BY <1>1, <2>3, <2>5, DialogUntouched
  <2> QED
    BY <1>12, <2>4, <2>5 DEF Receive, LoggedIn, NewPlayer, OtherReady, AllReady, PutPlayer, Chat,
                             menuVars, history
<1> QED
  BY <1>4, <1>5, <1>7, <1>8, <1>9, <1>10, <1>11, <1>12 DEF Next


-----------------------------------------------------------------------------
(* The course "talk"                                                       *)

LEMMA LoginsFirstTail ==
    ASSUME NEW S, NEW q \in Seq(S), q # <<>>, LoginsFirst(q)
    PROVE  LoginsFirst(Tail(q)) /\ (Head(q).t # "LOGIN" => ~Has(Tail(q), "LOGIN"))
<1>1. LoginsFirst(Tail(q))
  <2> SUFFICES ASSUME NEW i \in DOMAIN Tail(q), NEW j \in DOMAIN Tail(q), i < j,
                      Tail(q)[j].t = "LOGIN"
               PROVE  Tail(q)[i].t = "LOGIN"
    BY DEF LoginsFirst
  <2>1. i + 1 \in DOMAIN q /\ j + 1 \in DOMAIN q /\ Tail(q)[i] = q[i + 1] /\ Tail(q)[j] = q[j + 1]
    BY TailPlaces
  <2>2. i + 1 < j + 1
    BY TailPlaces
  <2> QED
    BY <2>1, <2>2 DEF LoginsFirst
<1>2. ASSUME Head(q).t # "LOGIN", Has(Tail(q), "LOGIN") PROVE FALSE
  <2>1. PICK j \in DOMAIN Tail(q) : Tail(q)[j].t = "LOGIN"
    BY <1>2 DEF Has
  <2>2. j + 1 \in DOMAIN q /\ q[j + 1].t = "LOGIN" /\ 1 \in DOMAIN q /\ Head(q) = q[1]
    BY <2>1, TailPlaces
  <2>3. 1 < j + 1
    BY <2>1, TailPlaces
  <2> QED
    BY <1>2, <2>2, <2>3 DEF LoginsFirst
<1> QED
  BY <1>1, <1>2

LEMMA LoginsFirstAppend ==
    ASSUME NEW S, NEW q \in Seq(S), NEW m \in S, LoginsFirst(q),
           m.t # "LOGIN" \/ Only(q, {"LOGIN"})
    PROVE  LoginsFirst(Append(q, m))
<1> SUFFICES ASSUME NEW i \in DOMAIN Append(q, m), NEW j \in DOMAIN Append(q, m), i < j,
                    Append(q, m)[j].t = "LOGIN"
             PROVE  Append(q, m)[i].t = "LOGIN"
  BY DEF LoginsFirst
<1>1. i \in DOMAIN q /\ Append(q, m)[i] = q[i]
  BY AppendPlaces
<1>2. CASE j \in DOMAIN q
  BY <1>1, <1>2, AppendPlaces DEF LoginsFirst
<1>3. CASE j = Len(q) + 1
  BY <1>1, <1>3, AppendPlaces DEF Only
<1> QED
  BY <1>2, <1>3, AppendPlaces

LEMMA NoLateIDTail ==
    ASSUME NEW S, NEW q \in Seq(S), q # <<>>, NoLateID(q)
    PROVE  NoLateID(Tail(q)) /\ (Head(q).t = "JOINED" => ~Has(Tail(q), "ID"))
<1>1. NoLateID(Tail(q))
  <2> SUFFICES ASSUME NEW i \in DOMAIN Tail(q), NEW j \in DOMAIN Tail(q), i < j,
                      Tail(q)[i].t = "JOINED"
               PROVE  Tail(q)[j].t # "ID"
    BY DEF NoLateID
  <2>1. i + 1 \in DOMAIN q /\ j + 1 \in DOMAIN q /\ Tail(q)[i] = q[i + 1] /\ Tail(q)[j] = q[j + 1]
    BY TailPlaces
  <2>2. i + 1 < j + 1
    BY TailPlaces
  <2> QED
    BY <2>1, <2>2 DEF NoLateID
<1>2. ASSUME Head(q).t = "JOINED", Has(Tail(q), "ID") PROVE FALSE
  <2>1. PICK j \in DOMAIN Tail(q) : Tail(q)[j].t = "ID"
    BY <1>2 DEF Has
  <2>2. j + 1 \in DOMAIN q /\ q[j + 1].t = "ID" /\ 1 \in DOMAIN q /\ Head(q) = q[1]
    BY <2>1, TailPlaces
  <2>3. 1 < j + 1
    BY <2>1, TailPlaces
  <2> QED
    BY <1>2, <2>2, <2>3 DEF NoLateID
<1> QED
  BY <1>1, <1>2

LEMMA NoLateIDAppend ==
    ASSUME NEW S, NEW q \in Seq(S), NEW m \in S, NoLateID(q), m.t # "ID" \/ ~Has(q, "JOINED")
    PROVE  NoLateID(Append(q, m))
<1> SUFFICES ASSUME NEW i \in DOMAIN Append(q, m), NEW j \in DOMAIN Append(q, m), i < j,
                    Append(q, m)[i].t = "JOINED"
             PROVE  Append(q, m)[j].t # "ID"
  BY DEF NoLateID
<1>1. i \in DOMAIN q /\ Append(q, m)[i] = q[i]
  BY AppendPlaces
<1>2. CASE j \in DOMAIN q
  BY <1>1, <1>2, AppendPlaces DEF NoLateID
<1>3. CASE j = Len(q) + 1
  BY <1>1, <1>3, AppendPlaces DEF Has
<1> QED
  BY <1>2, <1>3, AppendPlaces

LEMMA OnlyHas ==
    ASSUME NEW S, NEW q \in Seq(S), NEW T, Only(q, T), NEW t, t \notin T
    PROVE  ~Has(q, t)
BY DEF Only, Has

\* The client sends a packet.
LEMMA TalkSend ==
    ASSUME Types, Talking, NEW m \in ServerPackets, c2s' = Append(c2s, m),
           m.t \in TalkRequests,
           scene = "MAINMENU" <=> m.t = "LOGIN",
           scene' = IF m.t = "MAKE" THEN "ROOM" ELSE scene,
           UNCHANGED <<srv, s2c, picks, isEnding, loading>>
    PROVE  Talking'
<1>1. c2s \in Seq(ServerPackets) /\ s2c \in Seq(ClientPackets)
  BY DEF Types, NetTypes
<1>2. NoMatch /\ InTurn /\ AtMenu /\ LobbyKnown
  BY DEF Talking
<1>3. NoMatch'
  BY <1>2 DEF NoMatch
<1>4. /\ Has(c2s', "LOGIN") <=> Has(c2s, "LOGIN") \/ m.t = "LOGIN"
      /\ Has(c2s', "MAKE") <=> Has(c2s, "MAKE") \/ m.t = "MAKE"
  BY <1>1, HasAppend
<1>5. scene = "MAINMENU" => ~Has(s2c, "JOINED")
  BY <1>1, <1>2, OnlyHas DEF AtMenu
<1>6. Only(c2s', TalkRequests)
  BY <1>1, <1>2, OnlyAppend DEF InTurn
<1>7. LoginsFirst(c2s')
  BY <1>1, <1>2, LoginsFirstAppend DEF InTurn, AtMenu
<1>8. InTurn'
  BY <1>2, <1>4, <1>5, <1>6, <1>7 DEF InTurn
<1>9. AtMenu'
  <2>1. scene = "MAINMENU" => Only(c2s', {"LOGIN"})
    BY <1>1, <1>2, OnlyAppend DEF AtMenu
  <2>2. scene' = "MAINMENU" => scene = "MAINMENU"
    OBVIOUS
  <2> QED
    BY <1>2, <2>1, <2>2 DEF AtMenu
<1>10. LobbyKnown'
  BY <1>2, <1>4 DEF LobbyKnown
<1> QED
  BY <1>3, <1>8, <1>9, <1>10 DEF Talking

\* The server handles a login, a chat line, or a request that gets no seat:
\* it answers with m, or with nothing.
LEMMA TalkServe ==
    ASSUME Types, Talking, c2s # <<>>, c2s' = Tail(c2s),
           Head(c2s).t # "MAKE",
           NEW m \in ClientPackets,
           \/ Head(c2s).t = "LOGIN" /\ m.t = "ID" /\ srv' = [srv EXCEPT !.lobby = TRUE]
              /\ s2c' = Append(s2c, m)
           \/ Head(c2s).t = "LOGIN" /\ m.t = "LOGIN_FAILED" /\ srv' = srv /\ s2c' = Append(s2c, m)
           \/ Head(c2s).t # "LOGIN" /\ m.t \in {"NOJOIN", "LOBBY_CHAT", "ROOM_CHAT"} /\ srv' = srv
              /\ s2c' = Append(s2c, m)
           \/ Head(c2s).t # "LOGIN" /\ srv' = srv /\ s2c' = s2c,
           UNCHANGED <<scene, picks, isEnding, loading>>
    PROVE  Talking'
<1>1. c2s \in Seq(ServerPackets) /\ s2c \in Seq(ClientPackets) /\ SrvTypes(srv)
  BY DEF Types, NetTypes, SrvTypes
<1>2. NoMatch /\ InTurn /\ AtMenu /\ LobbyKnown
  BY DEF Talking
<1>3. srv'.ready = srv.ready /\ srv'.room = srv.room
  BY <1>1 DEF SrvTypes
<1>4. NoMatch'
  BY <1>2, <1>3 DEF NoMatch
<1>5. /\ Only(c2s', TalkRequests) /\ LoginsFirst(c2s')
      /\ (Head(c2s).t # "LOGIN" => ~Has(c2s', "LOGIN"))
      /\ (Has(c2s', "LOGIN") => Has(c2s, "LOGIN"))
      /\ (Has(c2s, "MAKE") => Has(c2s', "MAKE"))
  BY <1>1, <1>2, OnlyTail, LoginsFirstTail, HasTail DEF InTurn
<1>6. Head(c2s).t = "LOGIN" => Has(c2s, "LOGIN")
  BY <1>1, TailPlaces DEF Has
<1>7. ~Has(c2s, "LOGIN") => Head(c2s).t # "LOGIN"
  BY <1>6
<1>8. CASE s2c' = Append(s2c, m)
  <2>10. srv'.lobby <=> srv.lobby \/ m.t = "ID"
    <3>1. s2c # Append(s2c, m)
      BY <1>1, AppendPlaces
    <3>2. CASE m.t = "ID"
      BY <1>1, <1>8, <3>1, <3>2 DEF SrvTypes
    <3>3. CASE m.t # "ID"
      BY <1>1, <1>8, <3>1, <3>3 DEF SrvTypes
    <3> QED
      BY <3>2, <3>3
  <2>1. /\ Has(s2c', "ID") <=> Has(s2c, "ID") \/ m.t = "ID"
        /\ Has(s2c', "JOINED") <=> Has(s2c, "JOINED") \/ m.t = "JOINED"
    BY <1>1, <1>8, HasAppend
  <2>2. m.t \in TalkAnswers /\ m.t # "JOINED"
    BY <1>8, AppendPlaces, <1>1 DEF TalkAnswers
  <2>3. m.t = "ID" => Head(c2s).t = "LOGIN"
    BY <1>1, <1>8, AppendPlaces
  <2>4. m.t = "ID" => ~Has(s2c, "JOINED")
    BY <1>2, <1>6, <2>3 DEF InTurn
  <2>5. Only(s2c', TalkAnswers)
    BY <1>1, <1>2, <1>8, <2>2, OnlyAppend DEF InTurn
  <2>6. NoLateID(s2c')
    BY <1>1, <1>2, <1>8, <2>4, NoLateIDAppend DEF InTurn
  <2>7. InTurn'
    BY <1>2, <1>5, <2>1, <2>2, <2>5, <2>6 DEF InTurn
  <2>8. AtMenu'
    <3> SUFFICES ASSUME scene = "MAINMENU"
                 PROVE  /\ Only(c2s', {"LOGIN"})
                        /\ Only(s2c', {"ID", "LOGIN_FAILED", "LOBBY_CHAT"})
                        /\ srv'.room = "none" /\ (srv'.lobby <=> Has(s2c', "ID"))
      BY DEF AtMenu
    <3>1. Only(c2s', {"LOGIN"}) /\ Head(c2s).t \in {"LOGIN"}
      BY <1>1, <1>2, OnlyTail DEF AtMenu
    <3>2. m.t \in {"ID", "LOGIN_FAILED", "LOBBY_CHAT"}
      BY <1>1, <1>8, <3>1, AppendPlaces
    <3>3. Only(s2c', {"ID", "LOGIN_FAILED", "LOBBY_CHAT"})
      BY <1>1, <1>2, <1>8, <3>2, OnlyAppend DEF AtMenu
    <3>4. srv'.lobby <=> Has(s2c', "ID")
      BY <1>2, <2>1, <2>10 DEF AtMenu
    <3> QED
      BY <1>2, <1>3, <3>1, <3>3, <3>4 DEF AtMenu
  <2>9. LobbyKnown'
    BY <1>2, <1>5, <2>1, <2>10, <2>2, <2>4 DEF LobbyKnown
  <2> QED
    BY <1>4, <2>7, <2>8, <2>9 DEF Talking
<1>9. CASE s2c' = s2c
  <2>1. s2c # Append(s2c, m)
    BY <1>1, AppendPlaces
  <2>2. srv' = srv
    BY <1>9, <2>1
  <2>3. InTurn'
    BY <1>2, <1>5, <1>9 DEF InTurn
  <2>4. AtMenu'
    BY <1>1, <1>2, <1>9, <2>2, OnlyTail DEF AtMenu
  <2>5. LobbyKnown'
    BY <1>2, <1>5, <1>9, <2>2 DEF LobbyKnown
  <2> QED
    BY <1>4, <2>3, <2>4, <2>5 DEF Talking
<1> QED
  BY <1>8, <1>9

\* The server gives a seat.
LEMMA TalkSeat ==
    ASSUME Types, Talking, c2s # <<>>, c2s' = Tail(c2s), Head(c2s).t \in Requests,
           NEW s \in Seats, Seated(s),
           UNCHANGED <<scene, picks, isEnding, loading>>
    PROVE  Talking'
<1>1. c2s \in Seq(ServerPackets) /\ s2c \in Seq(ClientPackets) /\ SrvTypes(srv)
  BY DEF Types, NetTypes, SrvTypes
<1>2. NoMatch /\ InTurn /\ AtMenu /\ LobbyKnown
  BY DEF Talking
<1>3. ~srv'.lobby /\ ~srv'.ready /\ srv'.room = "open"
  BY <1>1 DEF SrvTypes, Seated
<1>4. NoMatch'
  BY <1>2, <1>3 DEF NoMatch
<1>5. Only(c2s', TalkRequests) /\ LoginsFirst(c2s') /\ ~Has(c2s', "LOGIN")
  BY <1>1, <1>2, OnlyTail, LoginsFirstTail DEF InTurn, Requests
<1>6. scene # "MAINMENU"
  BY <1>1, <1>2, OnlyTail DEF AtMenu, Requests
<1> DEFINE m == [t |-> "JOINED", seat |-> s]
           n == [t |-> "NEWPLAYER"]
           q == Append(s2c, m)
<1>7. m \in ClientPackets /\ n \in ClientPackets /\ m.t = "JOINED" /\ n.t = "NEWPLAYER"
  BY Packets
<1>8. s2c' = q \/ s2c' = Append(q, n)
  BY DEF Seated
<1> HIDE DEF m, n
<1>9. q \in Seq(ClientPackets) /\ NoLateID(q) /\ Only(q, TalkAnswers) /\ Has(q, "JOINED")
  <2>1. q \in Seq(ClientPackets)
    BY <1>1, <1>7
  <2>2. NoLateID(q)
    BY <1>1, <1>2, <1>7, NoLateIDAppend DEF InTurn
  <2>3. Only(q, TalkAnswers)
    BY <1>1, <1>2, <1>7, OnlyAppend DEF InTurn, TalkAnswers
  <2>4. Has(q, "JOINED")
    BY <1>1, <1>7, HasAppend
  <2> QED
    BY <2>1, <2>2, <2>3, <2>4
<1> HIDE DEF q
<1>10. NoLateID(Append(q, n)) /\ Only(Append(q, n), TalkAnswers) /\ Has(Append(q, n), "JOINED")
  <2>1. NoLateID(Append(q, n))
    BY <1>7, <1>9, NoLateIDAppend
  <2>2. Only(Append(q, n), TalkAnswers)
    BY <1>7, <1>9, OnlyAppend DEF TalkAnswers
  <2>3. Has(Append(q, n), "JOINED")
    BY <1>7, <1>9, HasAppend
  <2> QED
    BY <2>1, <2>2, <2>3
<1>11. NoLateID(s2c') /\ Only(s2c', TalkAnswers) /\ Has(s2c', "JOINED")
  BY <1>8, <1>9, <1>10
<1>12. InTurn'
  BY <1>5, <1>11 DEF InTurn
<1>13. AtMenu'
  BY <1>6 DEF AtMenu
<1>14. LobbyKnown'
  BY <1>3, <1>11 DEF LobbyKnown
<1> QED
  BY <1>4, <1>12, <1>13, <1>14 DEF Talking


\* Others talk.
LEMMA TalkTold ==
    ASSUME Types, Talking, NEW m \in ClientPackets, s2c' = Append(s2c, m),
           m.t \in {"LOBBY_CHAT", "ROOM_CHAT"}, m.t = "ROOM_CHAT" => srv.room # "none",
           UNCHANGED <<srv, c2s, scene, picks, isEnding, loading>>
    PROVE  Talking'
<1>1. c2s \in Seq(ServerPackets) /\ s2c \in Seq(ClientPackets)
  BY DEF Types, NetTypes
<1>2. NoMatch /\ InTurn /\ AtMenu /\ LobbyKnown
  BY DEF Talking
<1>3. NoMatch'
  BY <1>2 DEF NoMatch
<1>4. /\ Has(s2c', "ID") <=> Has(s2c, "ID")
      /\ Has(s2c', "JOINED") <=> Has(s2c, "JOINED")
  BY <1>1, HasAppend
<1>5. Only(s2c', TalkAnswers) /\ NoLateID(s2c')
  BY <1>1, <1>2, OnlyAppend, NoLateIDAppend DEF InTurn, TalkAnswers
<1>6. InTurn'
  BY <1>2, <1>4, <1>5 DEF InTurn
<1>7. AtMenu'
  <2>1. ASSUME scene = "MAINMENU" PROVE Only(s2c', {"ID", "LOGIN_FAILED", "LOBBY_CHAT"})
    <3>1. m.t = "LOBBY_CHAT" /\ Only(s2c, {"ID", "LOGIN_FAILED", "LOBBY_CHAT"})
      BY <1>2, <2>1 DEF AtMenu
    <3> QED
      BY <1>1, <3>1, OnlyAppend
  <2> QED
    BY <1>2, <1>4, <2>1 DEF AtMenu
<1>8. LobbyKnown'
  BY <1>2, <1>4 DEF LobbyKnown
<1> QED
  BY <1>3, <1>6, <1>7, <1>8 DEF Talking

\* A packet arrives.
LEMMA TalkReceive ==
    ASSUME Types, Talking, s2c # <<>>, s2c' = Tail(s2c),
           scene' = IF Head(s2c).t = "ID" THEN "LOBBY"
                    ELSE IF Head(s2c).t = "JOINED" THEN "ROOM" ELSE scene,
           UNCHANGED <<srv, c2s, picks, isEnding, loading>>
    PROVE  Talking'
<1>1. c2s \in Seq(ServerPackets) /\ s2c \in Seq(ClientPackets)
  BY DEF Types, NetTypes
<1>2. NoMatch /\ InTurn /\ AtMenu /\ LobbyKnown
  BY DEF Talking
<1>3. NoMatch'
  BY <1>2 DEF NoMatch
<1>4. /\ Has(s2c', "ID") => Has(s2c, "ID")
      /\ Has(s2c', "JOINED") => Has(s2c, "JOINED")
      /\ Has(s2c, "ID") => Has(s2c', "ID") \/ Head(s2c).t = "ID"
      /\ Has(s2c, "JOINED") => Has(s2c', "JOINED") \/ Head(s2c).t = "JOINED"
  BY <1>1, HasTail
<1>5. Only(s2c', TalkAnswers) /\ NoLateID(s2c') /\ (Head(s2c).t = "JOINED" => ~Has(s2c', "ID"))
  BY <1>1, <1>2, OnlyTail, NoLateIDTail DEF InTurn
<1>6. /\ Head(s2c).t = "ID" => Has(s2c, "ID")
      /\ Head(s2c).t = "JOINED" => Has(s2c, "JOINED")
  BY <1>1, TailPlaces DEF Has
<1>7. InTurn'
  BY <1>2, <1>4, <1>5 DEF InTurn
<1>8. AtMenu'
  <2> SUFFICES ASSUME scene' = "MAINMENU"
               PROVE  /\ Only(c2s, {"LOGIN"})
                      /\ Only(s2c', {"ID", "LOGIN_FAILED", "LOBBY_CHAT"})
                      /\ srv.room = "none" /\ (srv.lobby <=> Has(s2c', "ID"))
    BY DEF AtMenu
  <2>1. scene = "MAINMENU" /\ Head(s2c).t # "ID"
    OBVIOUS
  <2>2. Only(s2c', {"ID", "LOGIN_FAILED", "LOBBY_CHAT"})
    BY <1>1, <1>2, <2>1, OnlyTail DEF AtMenu
  <2> QED
    BY <1>2, <1>4, <2>1, <2>2 DEF AtMenu
<1>9. LobbyKnown'
  <2>1. CASE Head(s2c).t = "ID"
    <3>1. scene' = "LOBBY" /\ Has(s2c, "ID")
      BY <1>6, <2>1
    <3>2. Has(s2c, "JOINED") => Has(s2c', "JOINED")
      BY <1>4, <2>1
    <3> QED
      BY <1>2, <1>4, <3>1, <3>2 DEF LobbyKnown
  <2>2. CASE Head(s2c).t = "JOINED"
    <3>1. scene' = "ROOM" /\ ~srv.lobby /\ ~Has(s2c', "ID")
      BY <1>2, <1>5, <1>6, <2>2 DEF LobbyKnown
    <3> QED
      BY <3>1 DEF LobbyKnown
  <2>3. CASE Head(s2c).t \notin {"ID", "JOINED"}
    <3>1. scene' = scene
      BY <2>3
    <3>2. (Has(s2c, "ID") <=> Has(s2c', "ID")) /\ (Has(s2c, "JOINED") <=> Has(s2c', "JOINED"))
      BY <1>4, <2>3
    <3> QED
      BY <1>2, <3>1, <3>2 DEF LobbyKnown
  <2> QED
    BY <2>1, <2>2, <2>3
<1> QED
  BY <1>3, <1>7, <1>8, <1>9 DEF Talking

LEMMA TalkUnchanged ==
    ASSUME Talking, UNCHANGED <<scene, isEnding, loading, srv, picks, c2s, s2c>>
    PROVE  Talking'
BY DEF Talking, NoMatch, InTurn, AtMenu, LobbyKnown, Only, Has, LoginsFirst, NoLateID

LEMMA TalkingStep == ASSUME Types, course = "talk", Talking, Next PROVE Talking'
<1>1. /\ c2s \in Seq(ServerPackets) /\ s2c \in Seq(ClientPackets) /\ NetTypes
      /\ my.seat \in Seats \cup {NoSeat}
  BY DEF Types, NetTypes, RoomTypes
<1>2. NoMatch /\ InTurn
  BY DEF Talking
<1>3. CASE ID_PASSWORD_Input \/ MenuClick \/ KeyReturn \/ AltTab \/ Wheel \/ Password_Input
  BY <1>3, TalkUnchanged DEF ID_PASSWORD_Input, MenuClick, KeyReturn, AltTab, Wheel,
     Password_Input, menuVars, roomVars, netVars
<1>4. CASE Pick \/ ReadyClick \/ LoadingFrame \/ EndFrame
  <2>1. ~Pick /\ ~LoadingFrame /\ ~EndFrame
    BY <1>2 DEF Pick, LoadingFrame, EndFrame, NoMatch
  <2>2. ~ReadyClick
    BY <1>1, <1>2 DEF ReadyClick, NoMatch
  <2> QED
    BY <1>4, <2>1, <2>2
<1>5. \A k \in TalkRequests : [t |-> k] \in ServerPackets /\ [t |-> k].t = k
  BY Packets DEF TalkRequests
<1>6. ASSUME NEW k \in TalkRequests, c2s' = Append(c2s, [t |-> k]),
             scene = "MAINMENU" <=> k = "LOGIN",
             scene' = IF k = "MAKE" THEN "ROOM" ELSE scene,
             UNCHANGED <<srv, s2c, picks, isEnding, loading>>
      PROVE  Talking'
  <2> DEFINE m == [t |-> k]
  <2>1. m \in ServerPackets /\ m.t = k /\ c2s' = Append(c2s, m)
    BY <1>5, <1>6
  <2> HIDE DEF m
  <2> QED
    BY <1>6, <2>1, TalkSend
<1>7. CASE SendLogin
  <2>1. /\ "LOGIN" \in TalkRequests /\ c2s' = Append(c2s, [t |-> "LOGIN"]) /\ scene = "MAINMENU"
        /\ scene' = scene /\ UNCHANGED <<srv, s2c, picks, isEnding, loading>>
    BY <1>7 DEF SendLogin, ToServer, TalkRequests, menuVars, roomVars
  <2> QED
    BY <1>6, <2>1
<1>8. CASE EditReturn
  <2>1. UNCHANGED <<scene, srv, s2c, picks, isEnding, loading>> /\ scene \in {"LOBBY", "ROOM"}
    BY <1>8 DEF EditReturn, roomVars
  <2>2. c2s' = c2s \/ \E k \in {"LOBBY_CHAT", "ROOM_CHAT"} : c2s' = Append(c2s, [t |-> k])
    BY <1>8 DEF EditReturn, ToServer
  <2>3. CASE c2s' = c2s
    BY <2>1, <2>3, TalkUnchanged
  <2>4. ASSUME NEW k \in {"LOBBY_CHAT", "ROOM_CHAT"}, c2s' = Append(c2s, [t |-> k])
        PROVE  Talking'
    <3>1. k \in TalkRequests /\ k # "LOGIN" /\ k # "MAKE"
      BY DEF TalkRequests
    <3> QED
      BY <1>6, <2>1, <2>4, <3>1
  <2> QED
    BY <2>2, <2>3, <2>4
<1>9. CASE LobbyClick \/ DialogClick \/ ConfirmRoom
  <2>1. scene = "LOBBY" /\ UNCHANGED <<srv, s2c, picks, isEnding, loading>>
    BY <1>2, <1>9 DEF LobbyClick, DialogClick, ConfirmRoom, Confirm, NoMatch
  <2>2. \/ c2s' = c2s /\ scene' = scene
        \/ \E k \in {"JOIN", "QUICK"} : c2s' = Append(c2s, [t |-> k]) /\ scene' = scene
        \/ c2s' = Append(c2s, [t |-> "MAKE"]) /\ scene' = "ROOM"
    <3>1. ~isEnding
      BY <1>2 DEF NoMatch
    <3>2. \A k \in {"JOIN", "QUICK", "MAKE"} : [t |-> k] \in ServerPackets
      BY Packets
    <3>3. /\ SendAlso(<<>>) => c2s' = c2s
          /\ \A k \in {"JOIN", "QUICK", "MAKE"} : SendAlso(<<[t |-> k]>>) => c2s' = Append(c2s, [t |-> k])
      BY <1>1, <3>1, <3>2, SendAlsoValues
    <3> QED
      BY <1>9, <3>3 DEF LobbyClick, DialogClick, ConfirmRoom, EnterRoom
  <2>3. CASE c2s' = c2s /\ scene' = scene
    BY <2>1, <2>3, TalkUnchanged
  <2>4. ASSUME NEW k \in {"JOIN", "QUICK"}, c2s' = Append(c2s, [t |-> k]), scene' = scene
        PROVE  Talking'
    <3>1. k \in TalkRequests /\ k # "LOGIN" /\ k # "MAKE"
      BY DEF TalkRequests
    <3> QED
      BY <1>6, <2>1, <2>4, <3>1
  <2>5. CASE c2s' = Append(c2s, [t |-> "MAKE"]) /\ scene' = "ROOM"
    <3>1. "MAKE" \in TalkRequests
      BY DEF TalkRequests
    <3> QED
      BY <1>6, <2>1, <2>5, <3>1
  <2> QED
    BY <2>2, <2>3, <2>4, <2>5
<1>10. CASE Serve
  <2>1. c2s # <<>> /\ c2s' = Tail(c2s) /\ UNCHANGED <<scene, picks, isEnding, loading>>
    BY <1>10 DEF Serve, menuVars, roomVars
  <2>2. Head(c2s).t \in TalkRequests
    BY <1>1, <1>2, <2>1, OnlyTail DEF InTurn
  <2>3. \A k \in {"ID", "LOGIN_FAILED", "NOJOIN", "LOBBY_CHAT", "ROOM_CHAT"} :
           [t |-> k] \in ClientPackets
    BY Packets
  <2>4. \A k \in {"ID", "LOGIN_FAILED", "NOJOIN", "LOBBY_CHAT", "ROOM_CHAT"} :
           ToClient(<<[t |-> k]>>) => s2c' = Append(s2c, [t |-> k])
    BY <1>1, <2>3, SentTypes
  <2>5. CASE Head(c2s).t = "LOGIN" /\ Login
    <3>1. CASE srv' = [srv EXCEPT !.lobby = TRUE] /\ s2c' = Append(s2c, [t |-> "ID"])
      <4> DEFINE m == [t |-> "ID"]
      <4>1. m \in ClientPackets /\ m.t = "ID" /\ s2c' = Append(s2c, m)
        BY <2>3, <3>1
      <4> HIDE DEF m
      <4> QED
        BY <2>1, <2>5, <3>1, <4>1, TalkServe
    <3>2. CASE srv' = srv /\ s2c' = Append(s2c, [t |-> "LOGIN_FAILED"])
      <4> DEFINE m == [t |-> "LOGIN_FAILED"]
      <4>1. m \in ClientPackets /\ m.t = "LOGIN_FAILED" /\ s2c' = Append(s2c, m)
        BY <2>3, <3>2
      <4> HIDE DEF m
      <4> QED
        BY <2>1, <2>5, <3>2, <4>1, TalkServe
    <3> QED
      BY <2>4, <2>5, <3>1, <3>2 DEF Login
  <2>6. ASSUME NEW k \in {"NOJOIN", "LOBBY_CHAT", "ROOM_CHAT"}, s2c' = Append(s2c, [t |-> k]),
               Head(c2s).t # "LOGIN", Head(c2s).t # "MAKE", srv' = srv
        PROVE  Talking'
    <3> DEFINE m == [t |-> k]
    <3>1. m \in ClientPackets /\ m.t = k /\ s2c' = Append(s2c, m)
      BY <2>3, <2>6
    <3> HIDE DEF m
    <3> QED
      BY <2>1, <2>6, <3>1, TalkServe
  <2>7. CASE Head(c2s).t \in Requests /\ (MakeRoom \/ JoinRoom) /\ (JoinRoom => Head(c2s).t # "MAKE")
    <3>1. CASE \E s \in Seats : Seated(s)
      BY <2>1, <2>7, <3>1, TalkSeat
    <3>2. CASE JoinRoom /\ srv' = srv /\ s2c' = Append(s2c, [t |-> "NOJOIN"])
      <4>1. Head(c2s).t # "LOGIN" /\ Head(c2s).t # "MAKE"
        BY <2>7, <3>2 DEF Requests
      <4> QED
        BY <2>6, <3>2, <4>1
    <3> QED
      BY <2>7, <3>1, <3>2, Requested
  <2>8. CASE Head(c2s).t \in {"LOBBY_CHAT", "ROOM_CHAT"} /\ srv' = srv
             /\ (s2c' = s2c \/ \E k \in {"LOBBY_CHAT", "ROOM_CHAT"} : ToClient(<<[t |-> k]>>))
    <3>1. CASE s2c' = s2c
      <4>1. [t |-> "NOJOIN"] \in ClientPackets
        BY <2>3
      <4> DEFINE m == [t |-> "NOJOIN"]
      <4>2. m \in ClientPackets
        BY <4>1
      <4> HIDE DEF m
      <4> QED
        BY <2>1, <2>8, <3>1, <4>2, TalkServe
    <3>2. CASE s2c' # s2c
      BY <2>4, <2>6, <2>8, <3>2
    <3> QED
      BY <3>1, <3>2
  <2>9. \/ Head(c2s).t = "LOGIN" /\ Login
        \/ Head(c2s).t = "MAKE" /\ MakeRoom
        \/ Head(c2s).t \in {"JOIN", "QUICK"} /\ JoinRoom
        \/ Head(c2s).t \in {"LOBBY_CHAT", "ROOM_CHAT"} /\ srv' = srv
           /\ (s2c' = s2c \/ \E k \in {"LOBBY_CHAT", "ROOM_CHAT"} : ToClient(<<[t |-> k]>>))
    BY <1>10, <2>2 DEF Serve, Say, Relay, TalkRequests
  <2>11. CASE Head(c2s).t = "MAKE" /\ MakeRoom
    <3>1. \E s \in Seats : Seated(s)
      BY <1>1, <2>11, MakeGivesSeat
    <3> QED
      BY <2>1, <2>11, <3>1, TalkSeat DEF Requests
  <2>12. CASE Head(c2s).t \in {"JOIN", "QUICK"} /\ JoinRoom
    BY <2>7, <2>12 DEF Requests
  <2> QED
    BY <2>5, <2>8, <2>9, <2>11, <2>12
<1>11. CASE Others
  <2>1. UNCHANGED <<c2s, scene, picks, isEnding, loading>>
    BY <1>11 DEF Others, menuVars, roomVars
  <2>2. /\ srv' = srv
        /\ \E k \in {"LOBBY_CHAT", "ROOM_CHAT"} :
              ToClient(<<[t |-> k]>>) /\ (k = "ROOM_CHAT" => srv.room # "none")
    BY <1>2, <1>11 DEF Others, Say, Relay, NoMatch
  <2>3. PICK k \in {"LOBBY_CHAT", "ROOM_CHAT"} :
           ToClient(<<[t |-> k]>>) /\ (k = "ROOM_CHAT" => srv.room # "none")
    BY <2>2
  <2> DEFINE m == [t |-> k]
  <2>4. m \in ClientPackets /\ m.t = k /\ ToClient(<<m>>)
    BY <2>3, Packets
  <2> HIDE DEF m
  <2>5. s2c' = Append(s2c, m)
    BY <1>1, <2>4, SentTypes
  <2> QED
    BY <2>1, <2>2, <2>3, <2>4, <2>5, TalkTold
<1>12. CASE Receive
  <2>1. s2c # <<>> /\ s2c' = Tail(s2c) /\ UNCHANGED <<srv, c2s>>
    BY <1>12 DEF Receive
  <2>2. Head(s2c).t \in TalkAnswers
    BY <1>1, <1>2, <2>1, OnlyTail DEF InTurn
  <2>3. UNCHANGED <<isEnding, loading>>
    BY <1>12, <2>2 DEF Receive, TalkAnswers, LoggedIn, Joined, NewPlayer, Chat, menuVars
  <2>4. picks' = picks
    BY <1>2, <1>12, <2>2 DEF Receive, TalkAnswers, LoggedIn, Joined, NewPlayer, Chat, roomVars,
       NoMatch
  <2>5. scene' = IF Head(s2c).t = "ID" THEN "LOBBY"
                 ELSE IF Head(s2c).t = "JOINED" THEN "ROOM" ELSE scene
    BY <1>12, <2>2 DEF Receive, TalkAnswers, LoggedIn, Joined, EnterRoom, NewPlayer, Chat, menuVars
  <2> QED
    BY <2>1, <2>3, <2>4, <2>5, TalkReceive
<1> QED
  BY <1>3, <1>4, <1>7, <1>8, <1>9, <1>10, <1>11, <1>12 DEF Next


-----------------------------------------------------------------------------
(* The course "play": what can happen                                      *)

\* What the stations are made of stays, and nobody moves the keys away.
Idle ==
    /\ UNCHANGED <<scene, isEnding, loading, srv, c2s, s2c, my, heroes, typing>>
    /\ scene \in {"LOADING", "GAME"} => focus' = focus \/ focus' = "main"

LEMMA IdleKeeps == ASSUME Playing, Idle PROVE Playing'
<1>1. ASSUME scene \in {"LOADING", "GAME"}, KeysKept PROVE KeysKept'
  BY <1>1 DEF Idle, KeysKept
<1>2. UNCHANGED <<scene, isEnding, loading, srv, c2s, s2c, my, heroes>>
  BY DEF Idle
<1>3. CASE Out
  BY <1>2, <1>3 DEF Playing, Out, NoRoom, Only
<1>4. CASE Known
  BY <1>2, <1>4 DEF Playing, Known, NoRoom, Only, Has
<1>5. CASE InLobby
  BY <1>2, <1>5 DEF Playing, InLobby, Homeward, Only
<1>6. CASE Asking
  BY <1>2, <1>6 DEF Playing, Asking, Homeward, Only
<1>7. CASE Arriving
  BY <1>2, <1>7 DEF Playing, Arriving, OfOthers
<1>8. CASE InRoom
  BY <1>2, <1>8 DEF Playing, InRoom, Member, Only, OfOthers, Picked
<1>9. CASE Called
  BY <1>2, <1>9 DEF Playing, Called, InMatch, Member, Only, OfOthers, Picked
<1>10. CASE Loading
  BY <1>1, <1>2, <1>10 DEF Playing, Loading, InMatch, Member, Only, Picked
<1>11. CASE Loaded
  BY <1>1, <1>2, <1>11 DEF Playing, Loaded, InMatch, Member, Picked
<1>12. CASE Put
  BY <1>1, <1>2, <1>12 DEF Playing, Put, InMatch, Member, Only, Picked
<1>13. CASE InGame
  BY <1>1, <1>2, <1>13 DEF Playing, InGame, InMatch, Member, Only, Picked
<1>14. CASE Ending
  BY <1>2, <1>14 DEF Playing, Ending, Only
<1> QED
  BY <1>3, <1>4, <1>5, <1>6, <1>7, <1>8, <1>9, <1>10, <1>11, <1>12, <1>13, <1>14 DEF Playing

LEMMA PlayActions ==
    ASSUME Types, course = "play", Next
    PROVE  \/ Idle
           \/ scene = "MAINMENU" /\ SendLogin
           \/ scene = "LOBBY" /\ (LobbyClick \/ DialogClick \/ ConfirmRoom)
           \/ scene = "ROOM" /\ ReadyClick
           \/ loading /\ LoadingFrame
           \/ scene = "GAME" /\ EndFrame
           \/ Serve \/ Others \/ Receive
<1>1. CASE ID_PASSWORD_Input \/ MenuClick \/ KeyReturn \/ AltTab \/ Pick
  BY <1>1 DEF ID_PASSWORD_Input, MenuClick, KeyReturn, AltTab, Pick, Idle, menuVars, roomVars,
              netVars, history
<1>2. CASE EditReturn
  BY <1>2 DEF EditReturn, Idle, roomVars, history
<1>3. ~Wheel /\ ~Password_Input
  BY DEF Wheel, Password_Input
<1>4. CASE SendLogin \/ LobbyClick \/ DialogClick \/ ConfirmRoom \/ ReadyClick
  BY <1>4 DEF SendLogin, LobbyClick, DialogClick, ConfirmRoom, ReadyClick
<1>5. CASE LoadingFrame \/ EndFrame
  BY <1>5 DEF LoadingFrame, EndFrame
<1> QED
  BY <1>1, <1>2, <1>3, <1>4, <1>5 DEF Next

\* A player who waits for answers is never hasty.
LEMMA NeverHasty ==
    ASSUME Types, course = "play", ~hasty, Next
    PROVE  ~hasty' /\ course' = course
<1>1. ASSUME Hurry(TRUE) \/ Hurry(FALSE) PROVE ~hasty' /\ course' = course
  <2>1. CASE Hurry(TRUE)
    BY <2>1, Zenon DEF Hurry
  <2>2. CASE Hurry(FALSE)
    BY <2>2, Zenon DEF Hurry
  <2> QED
    BY <1>1, <2>1, <2>2, Zenon
<1>2. CASE LobbyClick \/ DialogClick \/ ConfirmRoom \/ ReadyClick
  BY <1>1, <1>2 DEF LobbyClick, DialogClick, ConfirmRoom, ReadyClick
<1>3. CASE \/ ID_PASSWORD_Input \/ MenuClick \/ SendLogin \/ KeyReturn \/ EditReturn \/ AltTab
           \/ Wheel \/ Password_Input \/ Pick \/ LoadingFrame \/ EndFrame
  BY <1>3 DEF ID_PASSWORD_Input, MenuClick, SendLogin, KeyReturn, EditReturn, AltTab, Wheel,
              Password_Input, Pick, LoadingFrame, EndFrame, history
<1>4. CASE Serve \/ Others
  BY <1>4 DEF Serve, Others, Say, history
<1>5. CASE Receive
  BY <1>5 DEF Receive, LoggedIn, Joined, NewPlayer, OtherReady, AllReady, PutPlayer, Chat, history
<1> QED
  BY <1>2, <1>3, <1>4, <1>5 DEF Next

LEMMA CourseKept == ASSUME Next PROVE course' = course
BY DEF Next, LobbyClick, DialogClick, ConfirmRoom, ReadyClick, Hurry, ID_PASSWORD_Input, MenuClick,
       SendLogin, KeyReturn, EditReturn, AltTab, Wheel, Password_Input, Pick, LoadingFrame,
       EndFrame, Serve, Others, Say, Receive, LoggedIn, Joined, NewPlayer, OtherReady, AllReady,
       PutPlayer, Chat, history

\* The client's side of a station, as far as the server's steps leave it alone
Unmoved == UNCHANGED <<scene, isEnding, loading, focus, typing, my, heroes>>

LEMMA PlayServe ==
    ASSUME Types, course = "play", Serve
    PROVE  Unmoved /\ c2s # <<>> /\ c2s' = Tail(c2s)
BY DEF Serve, Say, Unmoved, menuVars, roomVars, history

\* What the other players do
LEMMA PlayOthers ==
    ASSUME Types, course = "play", Others
    PROVE  /\ Unmoved /\ c2s' = c2s
           /\ \E m \in ClientPackets :
                 /\ s2c' = Append(s2c, m)
                 /\ \/ m.t = "NEWPLAYER" /\ srv.room = "open" /\ srv' = [srv EXCEPT !.ready = FALSE]
                    \/ m.t = "READY" /\ m.seat # srv.seat /\ srv.room = "open" /\ srv' = srv
                    \/ /\ m.t = "ALLREADY" /\ srv.ready
                       /\ srv' = [srv EXCEPT !.ready = FALSE, !.room = "game"]
                    \/ m.t = "RESULT" /\ scene = "GAME" /\ srv' = srv
<1>1. Unmoved /\ c2s' = c2s /\ NetTypes
  BY DEF Types, Others, Say, Unmoved, menuVars, roomVars, history
<1>2. /\ \A k \in {"NEWPLAYER", "ALLREADY", "RESULT"} : [t |-> k] \in ClientPackets
      /\ \A s \in Seats, h \in Heroes : [t |-> "READY", seat |-> s, pick |-> h] \in ClientPackets
  BY Packets
<1>3. \A m \in ClientPackets : ToClient(<<m>>) => s2c' = Append(s2c, m)
  BY <1>1, SentTypes
<1>4. ASSUME NEW k \in {"NEWPLAYER", "ALLREADY", "RESULT"}, ToClient(<<[t |-> k]>>)
      PROVE  \E m \in ClientPackets : m.t = k /\ s2c' = Append(s2c, m)
  <2> DEFINE m == [t |-> k]
  <2>1. m \in ClientPackets /\ m.t = k /\ ToClient(<<m>>)
    BY <1>2, <1>4
  <2> HIDE DEF m
  <2> QED
    BY <1>3, <2>1
<1>5. ASSUME NEW s \in Seats, NEW h \in Heroes,
             ToClient(<<[t |-> "READY", seat |-> s, pick |-> h]>>)
      PROVE  \E m \in ClientPackets : m.t = "READY" /\ m.seat = s /\ s2c' = Append(s2c, m)
  <2> DEFINE m == [t |-> "READY", seat |-> s, pick |-> h]
  <2>1. m \in ClientPackets /\ m.t = "READY" /\ m.seat = s /\ ToClient(<<m>>)
    BY <1>2, <1>5
  <2> HIDE DEF m
  <2> QED
    BY <1>3, <2>1
<1>6. CASE srv.room = "open" /\ srv' = [srv EXCEPT !.ready = FALSE] /\ ToClient(<<[t |-> "NEWPLAYER"]>>)
  BY <1>1, <1>4, <1>6
<1>7. CASE /\ srv.room = "open" /\ srv' = srv
           /\ \E s \in Seats \ {srv.seat}, h \in Heroes :
                 ToClient(<<[t |-> "READY", seat |-> s, pick |-> h]>>)
  BY <1>1, <1>5, <1>7
<1>8. CASE /\ srv.ready /\ srv' = [srv EXCEPT !.ready = FALSE, !.room = "game"]
           /\ ToClient(<<[t |-> "ALLREADY"]>>)
  BY <1>1, <1>4, <1>8
<1>9. CASE scene = "GAME" /\ srv' = srv /\ ToClient(<<[t |-> "RESULT"]>>)
  BY <1>1, <1>4, <1>9
<1> QED
  BY <1>6, <1>7, <1>8, <1>9 DEF Others, Say

LEMMA PlayReceive ==
    ASSUME Types, Receive
    PROVE  /\ s2c # <<>> /\ s2c' = Tail(s2c) /\ UNCHANGED <<srv, c2s>>
           /\ Head(s2c) \in ClientPackets
           /\ Head(s2c).t \in {"LOGIN_FAILED", "NOJOIN", "RESULT", "NEWPLAYER"} => Unmoved
<1>1. s2c # <<>> /\ s2c' = Tail(s2c) /\ UNCHANGED <<srv, c2s>> /\ s2c \in Seq(ClientPackets)
  BY DEF Receive, Types, NetTypes
<1>2. Head(s2c) \in ClientPackets
  BY <1>1, TailPlaces
<1>3. ASSUME Head(s2c).t \in {"LOGIN_FAILED", "NOJOIN", "RESULT", "NEWPLAYER"} PROVE Unmoved
  BY <1>3 DEF Receive, Unmoved, NewPlayer, menuVars, roomVars, history
<1> QED
  BY <1>1, <1>2, <1>3


-----------------------------------------------------------------------------
(* The course "play": before the room                                      *)

\* LOGIN is answered.
LEMMA PlayLogin ==
    ASSUME Types, course = "play", Serve, Head(c2s).t = "LOGIN"
    PROVE  \/ /\ srv' = [srv EXCEPT !.lobby = TRUE]
              /\ \E m \in ClientPackets : m.t = "ID" /\ s2c' = Append(s2c, m)
           \/ /\ srv' = srv
              /\ \E m \in ClientPackets : m.t = "LOGIN_FAILED" /\ s2c' = Append(s2c, m)
<1>1. Login /\ NetTypes
  BY DEF Serve, Types
<1>2. \A k \in {"ID", "LOGIN_FAILED"} : [t |-> k] \in ClientPackets
  BY Packets
<1>3. ASSUME NEW k \in {"ID", "LOGIN_FAILED"}, ToClient(<<[t |-> k]>>)
      PROVE  \E m \in ClientPackets : m.t = k /\ s2c' = Append(s2c, m)
  <2> DEFINE m == [t |-> k]
  <2>1. m \in ClientPackets /\ m.t = k /\ ToClient(<<m>>)
    BY <1>2, <1>3
  <2> HIDE DEF m
  <2> QED
    BY <1>1, <2>1, SentTypes
<1> QED
  BY <1>1, <1>3 DEF Login

LEMMA LoginFromMenu ==
    ASSUME Types, SendLogin, Only(c2s, {"LOGIN"})
    PROVE  Only(c2s', {"LOGIN"}) /\ UNCHANGED <<scene, isEnding, loading, srv, s2c>>
<1> DEFINE m == [t |-> "LOGIN"]
<1>1. m \in ServerPackets /\ m.t = "LOGIN" /\ c2s \in Seq(ServerPackets)
  BY Packets DEF Types, NetTypes
<1>2. c2s' = Append(c2s, m) /\ UNCHANGED <<scene, isEnding, loading, srv, s2c>>
  BY DEF SendLogin, ToServer, menuVars
<1> HIDE DEF m
<1> QED
  BY <1>1, <1>2, OnlyAppend

LEMMA FromOut == ASSUME Types, course = "play", Out, Next PROVE Playing'
<1>1. c2s \in Seq(ServerPackets) /\ s2c \in Seq(ClientPackets) /\ SrvTypes(srv)
  BY DEF Types, NetTypes, SrvTypes
<1>2. scene = "MAINMENU" /\ NoRoom /\ ~srv.lobby /\ Only(c2s, {"LOGIN"}) /\ Only(s2c, {"LOGIN_FAILED"})
  BY DEF Out
<1>3. Idle \/ SendLogin \/ Serve \/ Others \/ Receive
  BY <1>2, PlayActions DEF NoRoom
<1>4. CASE Idle
  BY <1>4, IdleKeeps DEF Playing
<1>5. CASE SendLogin
  BY <1>2, <1>5, LoginFromMenu DEF Playing, Out, NoRoom
<1>6. CASE Serve
  <2>1. Unmoved /\ c2s # <<>> /\ c2s' = Tail(c2s)
    BY <1>6, PlayServe
  <2>2. Only(c2s', {"LOGIN"}) /\ Head(c2s).t = "LOGIN"
    BY <1>1, <1>2, <2>1, OnlyTail
  <2>3. ASSUME srv' = [srv EXCEPT !.lobby = TRUE],
               NEW m \in ClientPackets, m.t = "ID", s2c' = Append(s2c, m)
        PROVE  Playing'
    <3>1. srv'.lobby /\ srv'.room = srv.room /\ srv'.ready = srv.ready
      BY <1>1, <2>3 DEF SrvTypes
    <3>2. Only(s2c', {"LOGIN_FAILED", "ID"}) /\ Has(s2c', "ID")
      <4>1. Only(s2c, {"LOGIN_FAILED", "ID"})
        BY <1>2 DEF Only
      <4> QED
        BY <1>1, <2>3, <4>1, OnlyAppend, HasAppend
    <3> QED
      BY <1>2, <2>1, <2>2, <3>1, <3>2 DEF Playing, Known, NoRoom, Unmoved
  <2>4. ASSUME srv' = srv, NEW m \in ClientPackets, m.t = "LOGIN_FAILED", s2c' = Append(s2c, m)
        PROVE  Playing'
    <3>1. Only(s2c', {"LOGIN_FAILED"})
      BY <1>1, <1>2, <2>4, OnlyAppend
    <3> QED
      BY <1>2, <2>1, <2>2, <2>4, <3>1 DEF Playing, Out, NoRoom, Unmoved
  <2> QED
    BY <1>6, <2>2, <2>3, <2>4, PlayLogin
<1>7. CASE Others
  BY <1>2, <1>7, PlayOthers DEF NoRoom
<1>8. CASE Receive
  <2>1. s2c # <<>> /\ s2c' = Tail(s2c) /\ UNCHANGED <<srv, c2s>>
    BY <1>8, PlayReceive
  <2>2. Only(s2c', {"LOGIN_FAILED"}) /\ Head(s2c).t = "LOGIN_FAILED"
    BY <1>1, <1>2, <2>1, OnlyTail
  <2>3. Unmoved
    BY <1>8, <2>2, PlayReceive
  <2> QED
    BY <1>2, <2>1, <2>2, <2>3 DEF Playing, Out, NoRoom, Unmoved
<1> QED
  BY <1>3, <1>4, <1>5, <1>6, <1>7, <1>8

LEMMA FromKnown == ASSUME Types, course = "play", Known, Next PROVE Playing'
<1>1. c2s \in Seq(ServerPackets) /\ s2c \in Seq(ClientPackets) /\ SrvTypes(srv)
  BY DEF Types, NetTypes, SrvTypes
<1>2. /\ scene = "MAINMENU" /\ NoRoom /\ srv.lobby /\ Only(c2s, {"LOGIN"})
      /\ Only(s2c, {"LOGIN_FAILED", "ID"}) /\ Has(s2c, "ID")
  BY DEF Known
<1>3. Idle \/ SendLogin \/ Serve \/ Others \/ Receive
  BY <1>2, PlayActions DEF NoRoom
<1>4. CASE Idle
  BY <1>4, IdleKeeps DEF Playing
<1>5. CASE SendLogin
  BY <1>2, <1>5, LoginFromMenu DEF Playing, Known, NoRoom
<1>6. CASE Serve
  <2>1. Unmoved /\ c2s # <<>> /\ c2s' = Tail(c2s)
    BY <1>6, PlayServe
  <2>2. Only(c2s', {"LOGIN"}) /\ Head(c2s).t = "LOGIN"
    BY <1>1, <1>2, <2>1, OnlyTail
  <2>3. srv'.lobby /\ srv'.room = srv.room /\ srv'.ready = srv.ready
    BY <1>1, <1>2, <1>6, <2>2, PlayLogin DEF SrvTypes
  <2>4. PICK m \in ClientPackets : m.t \in {"LOGIN_FAILED", "ID"} /\ s2c' = Append(s2c, m)
    BY <1>6, <2>2, PlayLogin
  <2>5. Only(s2c', {"LOGIN_FAILED", "ID"}) /\ Has(s2c', "ID")
    BY <1>1, <1>2, <2>4, OnlyAppend, HasAppend
  <2> QED
    BY <1>2, <2>1, <2>2, <2>3, <2>5 DEF Playing, Known, NoRoom, Unmoved
<1>7. CASE Others
  BY <1>2, <1>7, PlayOthers DEF NoRoom
<1>8. CASE Receive
  <2>1. s2c # <<>> /\ s2c' = Tail(s2c) /\ UNCHANGED <<srv, c2s>>
    BY <1>8, PlayReceive
  <2>2. Only(s2c', {"LOGIN_FAILED", "ID"}) /\ Head(s2c).t \in {"LOGIN_FAILED", "ID"}
    BY <1>1, <1>2, <2>1, OnlyTail
  <2>3. CASE Head(s2c).t = "LOGIN_FAILED"
    <3>1. Unmoved
      BY <1>8, <2>3, PlayReceive
    <3>2. Has(s2c', "ID")
      BY <1>1, <1>2, <2>1, <2>3, HasTail
    <3> QED
      BY <1>2, <2>1, <2>2, <3>1, <3>2 DEF Playing, Known, NoRoom, Unmoved
  <2>4. CASE Head(s2c).t = "ID"
    <3>1. scene' = "LOBBY" /\ UNCHANGED <<isEnding, loading>>
      BY <1>8, <2>4 DEF Receive, LoggedIn
    <3>2. Only(s2c', {"ID", "LOGIN_FAILED", "RESULT", "NOJOIN"})
      BY <2>2 DEF Only
    <3>3. \A i \in 1 .. Len(c2s) : c2s[i].t = "LOGIN"
      BY <1>1, <1>2 DEF Only
    <3>4. Homeward(Len(c2s))'
      BY <1>2, <2>1, <3>1, <3>3 DEF Homeward, NoRoom
    <3> QED
      BY <3>1, <3>2, <3>4 DEF Playing, InLobby
  <2> QED
    BY <2>2, <2>3, <2>4
<1> QED
  BY <1>3, <1>4, <1>5, <1>6, <1>7, <1>8


\* A click in the lobby sends a request, or nothing.
LEMMA PlayClick ==
    ASSUME Types, course = "play", ~hasty, Dialogs, LobbyClick \/ DialogClick \/ ConfirmRoom, ~isEnding
    PROVE  \/ Idle
           \/ /\ ~Pending /\ UNCHANGED <<isEnding, loading, srv, s2c>>
              /\ \E m \in ServerPackets :
                    /\ m.t \in Requests /\ c2s' = Append(c2s, m)
                    /\ \/ scene' = "LOBBY"
                       \/ scene' = "ROOM" /\ m.t = "MAKE"
<1>1. /\ \A k \in {"JOIN", "QUICK", "MAKE"} : [t |-> k] \in ServerPackets
      /\ NetTypes
  BY Packets DEF Types
<1>2. SendAlso(<<>>) => c2s' = c2s
  BY <1>1, SendAlsoValues
<1>3. ASSUME NEW k \in {"JOIN", "QUICK", "MAKE"}, SendAlso(<<[t |-> k]>>)
      PROVE  \E m \in ServerPackets : m.t = k /\ c2s' = Append(c2s, m)
  <2> DEFINE m == [t |-> k]
  <2>1. m \in ServerPackets /\ m.t = k /\ SendAlso(<<m>>)
    BY <1>1, <1>3
  <2> HIDE DEF m
  <2> QED
    BY <1>1, <2>1, SendAlsoValues
<1>4. UNCHANGED <<isEnding, loading, srv, s2c, my, heroes>> /\ scene = "LOBBY"
  BY DEF LobbyClick, DialogClick, ConfirmRoom, Confirm
<1>5. CASE LobbyClick
  <2>1. scene' = scene /\ typing' = typing
    BY <1>5 DEF LobbyClick, Hurry
  <2>2. CASE SendAlso(<<>>)
    BY <1>2, <1>4, <2>1, <2>2 DEF Idle
  <2>3. CASE (\E t \in {"JOIN", "QUICK"} : SendAlso(<<[t |-> t]>>)) /\ Hurry(TRUE)
    <3>1. ~Pending
      BY <2>3 DEF Hurry
    <3>2. PICK k \in {"JOIN", "QUICK"} : SendAlso(<<[t |-> k]>>)
      BY <2>3
    <3>3. PICK m \in ServerPackets : m.t = k /\ c2s' = Append(c2s, m)
      BY <1>3, <3>2
    <3> QED
      BY <1>4, <2>1, <3>1, <3>3 DEF Requests
  <2> QED
    BY <1>5, <2>2, <2>3 DEF LobbyClick
<1>6. CASE DialogClick
  BY <1>2, <1>4, <1>6 DEF DialogClick, Hurry, Idle
<1>7. CASE ConfirmRoom
  <2>1. ~Pending
    BY <1>7 DEF ConfirmRoom, Hurry
  <2>2. PICK m \in ServerPackets : m.t = "MAKE" /\ c2s' = Append(c2s, m)
    BY <1>3, <1>7 DEF ConfirmRoom
  <2> QED
    BY <1>4, <1>7, <2>1, <2>2 DEF ConfirmRoom, EnterRoom, Requests
<1> QED
  BY <1>5, <1>6, <1>7

LEMMA FromLobby == ASSUME Types, course = "play", ~hasty, Dialogs, InLobby, Next PROVE Playing'
<1>1. c2s \in Seq(ServerPackets) /\ s2c \in Seq(ClientPackets) /\ SrvTypes(srv)
  BY DEF Types, NetTypes, SrvTypes
<1>2. /\ scene = "LOBBY" /\ Homeward(Len(c2s)) /\ ~srv.ready /\ ~isEnding /\ ~loading
      /\ Only(s2c, {"ID", "LOGIN_FAILED", "RESULT", "NOJOIN"}) /\ srv.room # "open"
  BY DEF InLobby, Homeward
<1>3. Idle \/ LobbyClick \/ DialogClick \/ ConfirmRoom \/ Serve \/ Others \/ Receive
  BY <1>2, PlayActions
<1>4. CASE Idle
  BY <1>4, IdleKeeps DEF Playing
<1>5. CASE LobbyClick \/ DialogClick \/ ConfirmRoom
  <2> SUFFICES ASSUME ~Pending, UNCHANGED <<isEnding, loading, srv, s2c>>,
                      NEW m \in ServerPackets, m.t \in Requests, c2s' = Append(c2s, m),
                      scene' = "LOBBY" \/ (scene' = "ROOM" /\ m.t = "MAKE")
               PROVE  Playing'
    BY <1>2, <1>4, <1>5, PlayClick
  <2>1. Only(s2c, {"ID", "LOGIN_FAILED", "RESULT"})
    BY <1>2 DEF Pending, Answers, Only
  <2>2. /\ c2s' # <<>> /\ Len(c2s') = Len(c2s) + 1 /\ c2s'[Len(c2s')] = m
        /\ \A i \in 1 .. Len(c2s) : c2s'[i] = c2s[i]
    BY <1>1
  <2>3. Homeward(Len(c2s) - 1)'
    <3>1. Len(c2s') - 1 = Len(c2s) /\ Len(c2s) \in Nat
      BY <1>1, <2>2
    <3>2. CASE srv.room = "none" /\ srv.lobby /\ \A i \in 1 .. Len(c2s) : c2s[i].t = "LOGIN"
      BY <1>2, <2>2, <3>1, <3>2 DEF Homeward
    <3>3. CASE srv.room = "game" /\ ~srv.lobby /\ Len(c2s) = 1 /\ c2s[1].t = "CONFIRM"
      <4>1. c2s'[1] = c2s[1]
        BY <2>2, <3>3
      <4> QED
        BY <1>2, <3>1, <3>3, <4>1 DEF Homeward
    <3> QED
      BY <1>2, <3>2, <3>3 DEF Homeward
  <2> QED
    BY <2>1, <2>2, <2>3 DEF Playing, Asking, Only
<1>6. CASE Serve
  <2>1. Unmoved /\ c2s # <<>> /\ c2s' = Tail(c2s)
    BY <1>6, PlayServe
  <2>2. Head(c2s) = c2s[1] /\ Len(c2s') = Len(c2s) - 1 /\ Len(c2s) \in Nat /\ Len(c2s) > 0
        /\ \A i \in 1 .. Len(c2s') : c2s'[i] = c2s[i + 1]
    BY <1>1, <2>1
  <2>3. CASE srv.room = "none" /\ srv.lobby /\ \A i \in 1 .. Len(c2s) : c2s[i].t = "LOGIN"
    <3>1. Head(c2s).t = "LOGIN"
      BY <2>2, <2>3
    <3>2. srv'.lobby /\ srv'.room = srv.room /\ srv'.ready = srv.ready
      BY <1>1, <1>6, <2>3, <3>1, PlayLogin DEF SrvTypes
    <3>3. PICK m \in ClientPackets : m.t \in {"LOGIN_FAILED", "ID"} /\ s2c' = Append(s2c, m)
      BY <1>6, <3>1, PlayLogin
    <3>4. Only(s2c', {"ID", "LOGIN_FAILED", "RESULT", "NOJOIN"})
      BY <1>1, <1>2, <3>3, OnlyAppend
    <3>5. \A i \in 1 .. Len(c2s') : c2s'[i].t = "LOGIN"
      BY <2>2, <2>3
    <3>6. Homeward(Len(c2s))'
      BY <1>2, <2>1, <2>3, <3>2, <3>5 DEF Homeward, Unmoved
    <3> QED
      BY <1>2, <2>1, <3>4, <3>6 DEF Playing, InLobby, Unmoved
  <2>4. CASE srv.room = "game" /\ ~srv.lobby /\ Len(c2s) = 1 /\ c2s[1].t = "CONFIRM"
    <3>1. Head(c2s).t = "CONFIRM"
      BY <2>2, <2>4
    <3>2. srv' = [srv EXCEPT !.lobby = TRUE, !.room = "none", !.ready = FALSE] /\ s2c' = s2c
      BY <1>6, <3>1 DEF Serve
    <3>3. srv'.lobby /\ srv'.room = "none" /\ ~srv'.ready
      BY <1>1, <3>2 DEF SrvTypes
    <3>4. \A i \in 1 .. Len(c2s') : c2s'[i].t = "LOGIN"
      BY <2>2, <2>4
    <3>5. Homeward(Len(c2s))'
      BY <1>2, <2>1, <3>3, <3>4 DEF Homeward, Unmoved
    <3> QED
      BY <1>2, <2>1, <3>2, <3>5 DEF Playing, InLobby, Unmoved, Only
  <2> QED
    BY <1>2, <2>3, <2>4 DEF Homeward
<1>7. CASE Others
  BY <1>2, <1>7, PlayOthers
<1>8. CASE Receive
  <2>1. s2c # <<>> /\ s2c' = Tail(s2c) /\ UNCHANGED <<srv, c2s>>
    BY <1>8, PlayReceive
  <2>2. /\ Only(s2c', {"ID", "LOGIN_FAILED", "RESULT", "NOJOIN"})
        /\ Head(s2c).t \in {"ID", "LOGIN_FAILED", "RESULT", "NOJOIN"}
    BY <1>1, <1>2, <2>1, OnlyTail
  <2>3. scene' = "LOBBY" /\ UNCHANGED <<isEnding, loading>>
    <3>1. CASE Head(s2c).t = "ID"
      BY <1>8, <3>1 DEF Receive, LoggedIn
    <3>2. CASE Head(s2c).t # "ID"
      BY <1>2, <1>8, <2>2, <3>2, PlayReceive DEF Unmoved
    <3> QED
      BY <3>1, <3>2
  <2> QED
    BY <1>2, <2>1, <2>2, <2>3 DEF Playing, InLobby, Homeward
<1> QED
  BY <1>3, <1>4, <1>5, <1>6, <1>7, <1>8

LEMMA FromEnding == ASSUME Types, course = "play", ~hasty, Dialogs, Ending, Next PROVE Playing'
<1>1. c2s \in Seq(ServerPackets) /\ s2c \in Seq(ClientPackets) /\ SrvTypes(srv) /\ NetTypes
  BY DEF Types, NetTypes, SrvTypes
<1>2. /\ scene = "LOBBY" /\ isEnding /\ ~loading /\ srv.room = "game" /\ ~srv.lobby /\ ~srv.ready
      /\ c2s = <<>> /\ Only(s2c, {"RESULT"})
  BY DEF Ending
<1>3. Idle \/ LobbyClick \/ DialogClick \/ ConfirmRoom \/ Serve \/ Others \/ Receive
  BY <1>2, PlayActions
<1>4. CASE Idle
  BY <1>4, IdleKeeps DEF Playing
<1>5. CASE LobbyClick \/ DialogClick \/ ConfirmRoom
  <2>1. ~isEnding' /\ UNCHANGED <<loading, srv, s2c>>
    BY <1>2, <1>5 DEF LobbyClick, DialogClick, ConfirmRoom, Confirm
  <2> DEFINE C == [t |-> "CONFIRM"]
             q == Append(c2s, C)
  <2>2. C \in ServerPackets /\ C.t = "CONFIRM"
    BY Packets
  <2>3. \A k \in {"JOIN", "QUICK", "MAKE"} : [t |-> k] \in ServerPackets
    BY Packets
  <2>4. /\ SendAlso(<<>>) => c2s' = q
        /\ \A m \in ServerPackets : SendAlso(<<m>>) => c2s' = Append(q, m)
    BY <1>1, <1>2, SendAlsoValues
  <2> HIDE DEF C
  <2>5. q \in Seq(ServerPackets) /\ Len(q) = 1 /\ q[1].t = "CONFIRM"
    BY <1>1, <1>2, <2>2
  <2> HIDE DEF q
  <2>6. CASE SendAlso(<<>>) /\ scene' = scene
    <3>1. c2s' = q
      BY <2>4, <2>6
    <3>2. Homeward(Len(c2s))'
      BY <1>2, <2>1, <2>5, <3>1 DEF Homeward
    <3>3. Only(s2c', {"ID", "LOGIN_FAILED", "RESULT", "NOJOIN"})
      BY <1>2, <2>1 DEF Only
    <3> QED
      BY <1>2, <2>6, <3>2, <3>3 DEF Playing, InLobby
  <2>7. ASSUME NEW k \in {"JOIN", "QUICK", "MAKE"}, SendAlso(<<[t |-> k]>>),
               scene' = IF k = "MAKE" THEN "ROOM" ELSE "LOBBY"
        PROVE  Playing'
    <3> DEFINE m == [t |-> k]
    <3>1. m \in ServerPackets /\ m.t = k /\ SendAlso(<<m>>)
      BY <2>3, <2>7
    <3> HIDE DEF m
    <3>2. c2s' = Append(q, m)
      BY <2>4, <3>1
    <3>3. c2s' # <<>> /\ Len(c2s') = 2 /\ c2s'[1] = q[1] /\ c2s'[2] = m
      <4>1. /\ Append(q, m) # <<>> /\ Len(Append(q, m)) = Len(q) + 1
            /\ Append(q, m)[Len(q) + 1] = m /\ \A i \in DOMAIN q : Append(q, m)[i] = q[i]
        BY <2>5, <3>1, AppendPlaces
      <4>2. 1 \in DOMAIN q
        BY <2>5
      <4>3. Len(q) + 1 = 2
        BY <2>5
      <4> QED
        BY <3>2, <4>1, <4>2, <4>3
    <3>4. Homeward(Len(c2s) - 1)'
      BY <1>2, <2>1, <2>5, <3>3 DEF Homeward
    <3>5. Only(s2c', {"ID", "LOGIN_FAILED", "RESULT"})
      BY <1>2, <2>1 DEF Only
    <3> QED
      BY <2>7, <3>1, <3>3, <3>4, <3>5 DEF Playing, Asking, Requests
  <2>8. CASE ConfirmRoom
    <3>1. SendAlso(<<[t |-> "MAKE"]>>) /\ scene' = "ROOM"
      BY <2>8 DEF ConfirmRoom, EnterRoom
    <3> QED
      BY <2>7, <3>1
  <2>9. CASE DialogClick
    BY <2>6, <2>9 DEF DialogClick
  <2>10. CASE LobbyClick
    <3>1. scene' = scene
      BY <2>10 DEF LobbyClick
    <3>2. SendAlso(<<>>) \/ \E k \in {"JOIN", "QUICK"} : SendAlso(<<[t |-> k]>>)
      BY <2>10 DEF LobbyClick
    <3>3. CASE SendAlso(<<>>)
      BY <2>6, <3>1, <3>3
    <3>4. ASSUME NEW k \in {"JOIN", "QUICK"}, SendAlso(<<[t |-> k]>>) PROVE Playing'
      BY <1>2, <2>7, <3>1, <3>4
    <3> QED
      BY <3>2, <3>3, <3>4
  <2> QED
    BY <1>5, <2>8, <2>9, <2>10
<1>6. CASE Serve
  BY <1>2, <1>6, PlayServe
<1>7. CASE Others
  BY <1>2, <1>7, PlayOthers
<1>8. CASE Receive
  <2>1. s2c # <<>> /\ s2c' = Tail(s2c) /\ UNCHANGED <<srv, c2s>>
    BY <1>8, PlayReceive
  <2>2. Only(s2c', {"RESULT"}) /\ Head(s2c).t = "RESULT"
    BY <1>1, <1>2, <2>1, OnlyTail
  <2>3. Unmoved
    BY <1>8, <2>2, PlayReceive
  <2> QED
    BY <1>2, <2>1, <2>2, <2>3 DEF Playing, Ending, Unmoved
<1> QED
  BY <1>3, <1>4, <1>5, <1>6, <1>7, <1>8


-----------------------------------------------------------------------------
(* The course "play": joining                                              *)

LEMMA FromAsking == ASSUME Types, course = "play", ~hasty, Dialogs, Asking, Next PROVE Playing'
<1>1. c2s \in Seq(ServerPackets) /\ s2c \in Seq(ClientPackets) /\ SrvTypes(srv) /\ NetTypes
  BY DEF Types, NetTypes, SrvTypes
<1>2. /\ scene \in {"LOBBY", "ROOM"} /\ c2s # <<>> /\ Homeward(Len(c2s) - 1)
      /\ ~srv.ready /\ ~isEnding /\ ~loading /\ srv.room # "open"
      /\ c2s[Len(c2s)].t \in Requests /\ (scene = "ROOM" => c2s[Len(c2s)].t = "MAKE")
      /\ Only(s2c, {"ID", "LOGIN_FAILED", "RESULT"})
  BY DEF Asking, Homeward
<1>3. Len(c2s) \in Nat /\ Len(c2s) > 0 /\ Len(c2s) \in DOMAIN c2s
  BY <1>1, <1>2
<1>4. Pending
  BY <1>2, <1>3 DEF Pending
<1>5. Idle \/ LobbyClick \/ DialogClick \/ ConfirmRoom \/ ReadyClick \/ Serve \/ Others \/ Receive
  BY <1>2, PlayActions
<1>6. CASE Idle
  BY <1>6, IdleKeeps DEF Playing
<1>7. CASE LobbyClick \/ DialogClick \/ ConfirmRoom
  <2>1. ~dialog.open
    BY <1>4 DEF Dialogs, DialogAlone
  <2>2. LobbyClick
    BY <1>7, <2>1 DEF DialogClick, ConfirmRoom
  <2> QED
    BY <1>2, <1>4, <1>6, <2>2, PlayClick
<1>8. ~ReadyClick
  BY <1>4 DEF ReadyClick, Hurry
<1>9. CASE Serve
  <2>1. Unmoved /\ c2s' = Tail(c2s)
    BY <1>9, PlayServe
  <2>2. /\ Head(c2s) = c2s[1] /\ Len(c2s') = Len(c2s) - 1
        /\ \A i \in 1 .. Len(c2s') : c2s'[i] = c2s[i + 1]
    BY <1>1, <1>2, <2>1
  <2>3. CASE Len(c2s) > 1
    <3>1. Len(c2s') \in Nat /\ Len(c2s') > 0 /\ c2s' # <<>> /\ c2s'[Len(c2s')] = c2s[Len(c2s)]
      <4>1. Len(c2s') \in Nat /\ Len(c2s') > 0
        BY <1>3, <2>2, <2>3
      <4>2. c2s' \in Seq(ServerPackets)
        BY <1>1, <1>2, <2>1, TailPlaces
      <4>3. Len(c2s') \in 1 .. Len(c2s') /\ Len(c2s') + 1 = Len(c2s)
        BY <1>3, <2>2, <4>1
      <4> QED
        BY <2>2, <4>1, <4>2, <4>3
    <3>2. CASE srv.room = "none" /\ srv.lobby /\ \A i \in 1 .. Len(c2s) - 1 : c2s[i].t = "LOGIN"
      <4>1. Head(c2s).t = "LOGIN"
        BY <1>3, <2>2, <2>3, <3>2
      <4>2. srv'.lobby /\ srv'.room = srv.room /\ srv'.ready = srv.ready
        BY <1>1, <1>9, <3>2, <4>1, PlayLogin DEF SrvTypes
      <4>3. PICK m \in ClientPackets : m.t \in {"LOGIN_FAILED", "ID"} /\ s2c' = Append(s2c, m)
        BY <1>9, <4>1, PlayLogin
      <4>4. Only(s2c', {"ID", "LOGIN_FAILED", "RESULT"})
        BY <1>1, <1>2, <4>3, OnlyAppend
      <4>5. \A i \in 1 .. Len(c2s') - 1 : c2s'[i].t = "LOGIN"
        BY <1>3, <2>2, <3>2
      <4>6. Homeward(Len(c2s) - 1)'
        BY <1>2, <2>1, <3>2, <4>2, <4>5 DEF Homeward, Unmoved
      <4> QED
        BY <1>2, <2>1, <3>1, <4>4, <4>6 DEF Playing, Asking, Unmoved
    <3>3. CASE srv.room = "game" /\ ~srv.lobby /\ Len(c2s) - 1 = 1 /\ c2s[1].t = "CONFIRM"
      <4>1. Head(c2s).t = "CONFIRM"
        BY <2>2, <3>3
      <4>2. srv' = [srv EXCEPT !.lobby = TRUE, !.room = "none", !.ready = FALSE] /\ s2c' = s2c
        BY <1>9, <4>1 DEF Serve
      <4>3. srv'.lobby /\ srv'.room = "none" /\ ~srv'.ready
        BY <1>1, <4>2 DEF SrvTypes
      <4>4. \A i \in 1 .. Len(c2s') - 1 : c2s'[i].t = "LOGIN"
        <5>1. Len(c2s') - 1 = 0
          <6>1. Len(c2s) = 2
            BY <1>3, <3>3
          <6> QED
            BY <2>2, <6>1
        <5>2. \A i \in 1 .. 0 : c2s'[i].t = "LOGIN"
          OBVIOUS
        <5> QED
          BY <5>1, <5>2
      <4>5. Homeward(Len(c2s) - 1)'
        BY <1>2, <2>1, <4>3, <4>4 DEF Homeward, Unmoved
      <4> QED
        BY <1>2, <2>1, <3>1, <4>2, <4>5 DEF Playing, Asking, Unmoved, Only
    <3> QED
      BY <1>2, <3>2, <3>3 DEF Homeward
  <2>4. CASE Len(c2s) = 1
    <3>1. Head(c2s).t \in Requests /\ (scene = "ROOM" => Head(c2s).t = "MAKE") /\ c2s' = <<>>
      BY <1>1, <1>2, <2>1, <2>2, <2>4
    <3>2. srv.room = "none" /\ srv.lobby
      BY <1>2, <2>4 DEF Homeward
    <3>3. (MakeRoom /\ Head(c2s).t = "MAKE") \/ (JoinRoom /\ Head(c2s).t \in {"JOIN", "QUICK"})
      BY <1>9, <3>1 DEF Serve, Requests
    <3>4. ASSUME NEW s \in Seats, Seated(s) PROVE Playing'
      <4> DEFINE m == [t |-> "JOINED", seat |-> s]
                 n == [t |-> "NEWPLAYER"]
                 q == Append(s2c, m)
      <4>1. m \in ClientPackets /\ n \in ClientPackets /\ m.t = "JOINED" /\ m.seat = s
            /\ n.t = "NEWPLAYER"
        BY Packets
      <4>2. s2c' = q \/ s2c' = Append(q, n)
        BY <3>4 DEF Seated
      <4>3. srv'.room = "open" /\ ~srv'.lobby /\ ~srv'.ready /\ srv'.seat = s
        BY <1>1, <3>4 DEF Seated, SrvTypes
      <4> HIDE DEF m, n
      <4> DEFINE k == Len(s2c) + 1
      <4>4. /\ q \in Seq(ClientPackets) /\ Len(q) = k /\ k \in Nat /\ k > 0 /\ q[k] = m
            /\ \A i \in 1 .. k - 1 : q[i] = s2c[i]
        BY <1>1, <4>1
      <4> HIDE DEF q
      <4>5. \A i \in 1 .. k - 1 : q[i].t \in {"ID", "LOGIN_FAILED", "RESULT"}
        BY <1>1, <1>2, <4>4 DEF Only
      <4> HIDE DEF k
      <4>6. /\ Append(q, n) \in Seq(ClientPackets) /\ Len(Append(q, n)) = k + 1
            /\ \A i \in 1 .. k : Append(q, n)[i] = q[i]
            /\ Append(q, n)[k + 1] = n
        BY <4>1, <4>4
      <4>7. /\ k \in DOMAIN s2c' /\ s2c'[k] = m
            /\ \A i \in 1 .. k - 1 : s2c'[i].t \in {"ID", "LOGIN_FAILED", "RESULT"}
            /\ \A i \in k + 1 .. Len(s2c') : s2c'[i].t = "NEWPLAYER"
        <5>1. CASE s2c' = q
          BY <4>4, <4>5, <5>1
        <5>2. CASE s2c' = Append(q, n)
          <6>1. k \in DOMAIN s2c' /\ s2c'[k] = m
            BY <4>4, <4>6, <5>2
          <6>2. \A i \in 1 .. k - 1 : s2c'[i].t \in {"ID", "LOGIN_FAILED", "RESULT"}
            BY <4>4, <4>5, <4>6, <5>2
          <6>3. \A i \in k + 1 .. Len(s2c') : i = k + 1
            BY <4>4, <4>6, <5>2
          <6>4. s2c'[k + 1].t = "NEWPLAYER"
            BY <4>1, <4>6, <5>2
          <6> QED
            BY <6>1, <6>2, <6>3, <6>4
        <5> QED
          BY <4>2, <5>1, <5>2
      <4>8. \A i \in k + 1 .. Len(s2c') : OfOthers(s2c[i])'
        BY <4>7 DEF OfOthers
      <4>9. scene' \in {"LOBBY", "ROOM"} /\ ~isEnding' /\ ~loading'
        BY <1>2, <2>1 DEF Unmoved
      <4>10. Arriving'
        BY <3>1, <4>1, <4>3, <4>7, <4>8, <4>9 DEF Arriving, OfOthers
      <4> QED
        BY <4>10 DEF Playing
    <3>5. CASE JoinRoom /\ srv' = srv /\ s2c' = Append(s2c, [t |-> "NOJOIN"])
      <4> DEFINE m == [t |-> "NOJOIN"]
      <4>1. m \in ClientPackets /\ m.t = "NOJOIN" /\ s2c' = Append(s2c, m)
        BY <3>5, Packets
      <4> HIDE DEF m
      <4>2. Only(s2c', {"ID", "LOGIN_FAILED", "RESULT", "NOJOIN"})
        <5>1. Only(s2c, {"ID", "LOGIN_FAILED", "RESULT", "NOJOIN"})
          BY <1>2 DEF Only
        <5> QED
          BY <1>1, <4>1, <5>1, OnlyAppend
      <4>3. scene' = "LOBBY" \/ Head(c2s).t = "MAKE"
        BY <1>2, <2>1, <3>1 DEF Unmoved
      <4>4. CASE scene' = "LOBBY"
        <5>1. Len(c2s') = 0
          BY <3>1
        <5>3. \A i \in 1 .. Len(c2s') : c2s'[i].t = "LOGIN"
          BY <5>1
        <5>2. Homeward(Len(c2s))'
          BY <1>2, <2>1, <3>2, <3>5, <5>3 DEF Homeward, Unmoved
        <5> QED
          BY <4>2, <4>4, <5>2 DEF Playing, InLobby
      <4>5. CASE Head(c2s).t = "MAKE"
        <5>1. \E s \in Seats : Seated(s)
          BY <1>1, <1>9, <4>5, MakeGivesSeat DEF Serve
        <5> QED
          BY <3>4, <5>1
      <4> QED
        BY <4>3, <4>4, <4>5
    <3> QED
      BY <3>3, <3>4, <3>5, Requested
  <2>5. Len(c2s) > 1 \/ Len(c2s) = 1
    BY <1>3
  <2> QED
    BY <2>3, <2>4, <2>5
<1>10. CASE Others
  <2>1. scene # "GAME"
    BY <1>2
  <2> QED
    BY <1>2, <1>10, <2>1, PlayOthers
<1>11. CASE Receive
  <2>1. s2c # <<>> /\ s2c' = Tail(s2c) /\ UNCHANGED <<srv, c2s>>
    BY <1>11, PlayReceive
  <2>2. /\ Only(s2c', {"ID", "LOGIN_FAILED", "RESULT"})
        /\ Head(s2c).t \in {"ID", "LOGIN_FAILED", "RESULT"}
    BY <1>1, <1>2, <2>1, OnlyTail
  <2>3. (scene' = "LOBBY" \/ scene' = scene) /\ UNCHANGED <<isEnding, loading>>
    <3>1. CASE Head(s2c).t = "ID"
      BY <1>11, <3>1 DEF Receive, LoggedIn
    <3>2. CASE Head(s2c).t # "ID"
      BY <1>2, <1>11, <2>2, <3>2, PlayReceive DEF Unmoved
    <3> QED
      BY <3>1, <3>2
  <2> QED
    BY <1>2, <2>1, <2>2, <2>3 DEF Playing, Asking, Homeward
<1> QED
  BY <1>5, <1>6, <1>7, <1>8, <1>9, <1>10, <1>11


LEMMA FromArriving == ASSUME Types, course = "play", ~hasty, Dialogs, Arriving, Next PROVE Playing'
<1>1. c2s \in Seq(ServerPackets) /\ s2c \in Seq(ClientPackets) /\ SrvTypes(srv)
  BY DEF Types, NetTypes, SrvTypes
<1>2. /\ scene \in {"LOBBY", "ROOM"} /\ ~isEnding /\ ~loading
      /\ srv.room = "open" /\ ~srv.lobby /\ ~srv.ready /\ c2s = <<>>
  BY DEF Arriving
<1>3. PICK k \in DOMAIN s2c :
        /\ s2c[k].t = "JOINED" /\ s2c[k].seat = srv.seat
        /\ \A i \in 1 .. k - 1 : s2c[i].t \in {"ID", "LOGIN_FAILED", "RESULT"}
        /\ \A i \in k + 1 .. Len(s2c) : OfOthers(s2c[i])
  BY DEF Arriving
<1>4. Pending
  BY <1>3 DEF Pending, Answers
<1>5. k \in Nat /\ k > 0 /\ k <= Len(s2c) /\ Len(s2c) \in Nat
  BY <1>1
<1>6. Idle \/ LobbyClick \/ DialogClick \/ ConfirmRoom \/ ReadyClick \/ Serve \/ Others \/ Receive
  BY <1>2, PlayActions
<1>7. CASE Idle
  BY <1>7, IdleKeeps DEF Playing
<1>8. CASE LobbyClick \/ DialogClick \/ ConfirmRoom
  BY <1>2, <1>4, <1>7, <1>8, PlayClick
<1>9. ~ReadyClick
  BY <1>4 DEF ReadyClick, Hurry
<1>10. ~Serve
  BY <1>2, PlayServe
<1>11. CASE Others
  <2>1. Unmoved /\ c2s' = c2s
    BY <1>11, PlayOthers
  <2>2. scene # "GAME"
    BY <1>2
  <2>3. PICK m \in ClientPackets :
          /\ s2c' = Append(s2c, m)
          /\ \/ m.t = "NEWPLAYER" /\ srv' = [srv EXCEPT !.ready = FALSE]
             \/ m.t = "READY" /\ m.seat # srv.seat /\ srv' = srv
    BY <1>2, <1>11, <2>2, PlayOthers
  <2>4. OfOthers(m)
    BY <2>3 DEF OfOthers
  <2>5. UNCHANGED <<srv.room, srv.lobby, srv.seat>> /\ ~srv'.ready
    BY <1>1, <1>2, <2>3 DEF SrvTypes
  <2>6. /\ Len(s2c') = Len(s2c) + 1 /\ s2c'[Len(s2c) + 1] = m
        /\ \A i \in 1 .. Len(s2c) : s2c'[i] = s2c[i]
        /\ s2c' \in Seq(ClientPackets)
    <3>1. Append(s2c, m) \in Seq(ClientPackets)
      BY <1>1, <2>3
    <3> QED
      BY <1>1, <2>3, <3>1
  <2>7. k \in DOMAIN s2c' /\ s2c'[k] = s2c[k]
    BY <1>5, <2>6
  <2>8. \A i \in 1 .. k - 1 : s2c'[i].t \in {"ID", "LOGIN_FAILED", "RESULT"}
    <3>1. \A i \in 1 .. k - 1 : i \in 1 .. Len(s2c)
      BY <1>5
    <3> QED
      BY <1>3, <2>6, <3>1
  <2>9. \A i \in k + 1 .. Len(s2c') : OfOthers(s2c'[i])
    <3>1. \A i \in k + 1 .. Len(s2c') : i = Len(s2c) + 1 \/ (i \in k + 1 .. Len(s2c) /\ i \in 1 .. Len(s2c))
      BY <1>5, <2>6
    <3> QED
      BY <1>3, <2>4, <2>6, <3>1
  <2>10. \A i \in k + 1 .. Len(s2c') : OfOthers(s2c[i])'
    BY <2>5, <2>9 DEF OfOthers
  <2>11. Arriving'
    BY <1>2, <1>3, <2>1, <2>5, <2>7, <2>8, <2>10 DEF Arriving, Unmoved
  <2> QED
    BY <2>11 DEF Playing
<1>12. CASE Receive
  <2>1. s2c # <<>> /\ s2c' = Tail(s2c) /\ UNCHANGED <<srv, c2s>>
    BY <1>12, PlayReceive
  <2>2. /\ Head(s2c) = s2c[1] /\ Len(s2c') = Len(s2c) - 1
        /\ \A i \in 1 .. Len(s2c') : s2c'[i] = s2c[i + 1]
        /\ s2c' \in Seq(ClientPackets)
    BY <1>1, <2>1
  <2>3. CASE k = 1
    <3>1. Head(s2c).t = "JOINED" /\ Head(s2c).seat = srv.seat
      BY <1>3, <2>2, <2>3
    <3>2. Joined(Head(s2c).seat)
      BY <1>12, <3>1 DEF Receive
    <3>3. scene' = "ROOM" /\ my'.seat = srv.seat /\ UNCHANGED <<isEnding, loading>>
      BY <3>1, <3>2 DEF Joined, EnterRoom
    <3>4. \A i \in DOMAIN s2c' : OfOthers(s2c'[i])
      <4>1. \A i \in DOMAIN s2c' : i \in 1 .. Len(s2c') /\ i + 1 \in k + 1 .. Len(s2c)
        BY <1>5, <2>2, <2>3
      <4> QED
        BY <1>3, <2>2, <4>1
    <3>5. \A i \in DOMAIN s2c' : OfOthers(s2c[i])'
      BY <2>1, <3>4 DEF OfOthers
    <3>6. InRoom'
      BY <1>2, <2>1, <3>3, <3>5 DEF InRoom, Member, Only
    <3> QED
      BY <3>6 DEF Playing
  <2>4. CASE k > 1
    <3>1. Head(s2c).t \in {"ID", "LOGIN_FAILED", "RESULT"}
      BY <1>3, <1>5, <2>2, <2>4
    <3>2. scene' \in {"LOBBY", "ROOM"} /\ UNCHANGED <<isEnding, loading>>
      <4>1. CASE Head(s2c).t = "ID"
        BY <1>12, <4>1 DEF Receive, LoggedIn
      <4>2. CASE Head(s2c).t # "ID"
        BY <1>2, <1>12, <3>1, <4>2, PlayReceive DEF Unmoved
      <4> QED
        BY <4>1, <4>2
    <3>3. k - 1 \in 1 .. Len(s2c') /\ k - 1 \in DOMAIN s2c'
      BY <1>5, <2>2, <2>4
    <3>4. s2c'[k - 1] = s2c[k]
      <4>1. s2c'[k - 1] = s2c[(k - 1) + 1]
        BY <2>2, <3>3
      <4> QED
        BY <1>5, <4>1
    <3>5. \A i \in 1 .. (k - 1) - 1 : s2c'[i].t \in {"ID", "LOGIN_FAILED", "RESULT"}
      <4>1. \A i \in 1 .. (k - 1) - 1 : i \in 1 .. Len(s2c') /\ i + 1 \in 1 .. k - 1
        BY <1>5, <2>2
      <4> QED
        BY <1>3, <2>2, <4>1
    <3>6. \A i \in (k - 1) + 1 .. Len(s2c') : OfOthers(s2c'[i])
      <4>1. \A i \in (k - 1) + 1 .. Len(s2c') : i \in 1 .. Len(s2c') /\ i + 1 \in k + 1 .. Len(s2c)
        BY <1>5, <2>2
      <4> QED
        BY <1>3, <2>2, <4>1
    <3>7. \A i \in (k - 1) + 1 .. Len(s2c') : OfOthers(s2c[i])'
      BY <2>1, <3>6 DEF OfOthers
    <3>8. Arriving'
      BY <1>2, <1>3, <2>1, <3>2, <3>3, <3>4, <3>5, <3>7 DEF Arriving
    <3> QED
      BY <3>8 DEF Playing
  <2>5. k = 1 \/ k > 1
    BY <1>5
  <2> QED
    BY <2>3, <2>4, <2>5
<1> QED
  BY <1>6, <1>7, <1>8, <1>9, <1>10, <1>11, <1>12


-----------------------------------------------------------------------------
(* The course "play": in the room                                          *)

\* A click on ready: the own hero is the one of the last packet.
LEMMA ReadySent ==
    ASSUME Types, ReadyClick, Only(c2s, {"READY"})
    PROVE  /\ UNCHANGED <<scene, isEnding, loading, srv, s2c, my>>
           /\ c2s' # <<>> /\ Only(c2s', {"READY"}) /\ Picked(Len(c2s))'
<1>1. c2s \in Seq(ServerPackets) /\ RoomTypes
  BY DEF Types, NetTypes
<1>2. my.seat \in Seats /\ picks[my.seat] \in Heroes
  BY <1>1 DEF RoomTypes, ReadyClick
<1> DEFINE m == [t |-> "READY", pick |-> picks[my.seat]]
<1>3. m \in ServerPackets /\ m.t = "READY" /\ m.pick = picks[my.seat]
  BY <1>2, Packets
<1>4. c2s' = Append(c2s, m) /\ UNCHANGED <<scene, isEnding, loading, srv, s2c, my>>
  BY DEF ReadyClick, ToServer, menuVars
<1>5. heroes'[my.seat] = picks[my.seat]
  BY <1>1, <1>2 DEF ReadyClick, RoomTypes
<1> HIDE DEF m
<1>6. c2s' # <<>> /\ Len(c2s') = Len(c2s) + 1 /\ c2s'[Len(c2s')] = m /\ Len(c2s) \in Nat
  BY <1>1, <1>3, <1>4
<1>7. Only(c2s', {"READY"})
  BY <1>1, <1>3, <1>4, OnlyAppend
<1>8. Picked(Len(c2s))'
  <2>1. Len(c2s') # 0
    BY <1>6
  <2> QED
    BY <1>3, <1>4, <1>5, <1>6, <2>1 DEF Picked
<1> QED
  BY <1>4, <1>6, <1>7, <1>8

\* The server handles CS_READY: it knows the hero of the packet.
LEMMA ReadyServed ==
    ASSUME Types, course = "play", Serve, Head(c2s).t = "READY"
    PROVE  /\ Unmoved /\ s2c' = s2c
           /\ srv'.room = srv.room /\ srv'.lobby = srv.lobby /\ srv'.seat = srv.seat
           /\ srv'.pick = Head(c2s).pick
           /\ srv'.ready <=> srv.room = "open"
<1>1. SrvTypes(srv)
  BY DEF Types, NetTypes, SrvTypes
<1>2. Unmoved
  BY PlayServe
<1>3. srv' = [srv EXCEPT !.pick = Head(c2s).pick, !.ready = (srv.room = "open")] /\ s2c' = s2c
  BY DEF Serve
<1>4. srv'.room = srv.room /\ srv'.lobby = srv.lobby /\ srv'.seat = srv.seat
      /\ srv'.pick = Head(c2s).pick
  BY <1>1, <1>3 DEF SrvTypes
<1>5. srv'.ready <=> srv.room = "open"
  BY <1>1, <1>3 DEF SrvTypes
<1> QED
  BY <1>2, <1>3, <1>4, <1>5

LEMMA PickServed ==
    ASSUME c2s \in Seq(ServerPackets), c2s # <<>>, c2s' = Tail(c2s), Picked(Len(c2s)),
           srv'.pick = Head(c2s).pick, UNCHANGED <<my, heroes>>
    PROVE  Picked(Len(c2s))'
<1>1. /\ Len(c2s) \in Nat /\ Len(c2s) > 0 /\ Head(c2s) = c2s[1] /\ Len(c2s') = Len(c2s) - 1
      /\ \A i \in 1 .. Len(c2s') : c2s'[i] = c2s[i + 1]
  OBVIOUS
<1>2. heroes[my.seat] = c2s[Len(c2s)].pick
  BY <1>1 DEF Picked
<1>3. CASE Len(c2s') = 0
  <2>1. Len(c2s) = 1
    BY <1>1, <1>3
  <2>2. heroes'[my'.seat] = srv'.pick
    BY <1>1, <1>2, <2>1
  <2> QED
    BY <1>3, <2>2 DEF Picked
<1>4. CASE Len(c2s') # 0
  <2>1. Len(c2s') \in 1 .. Len(c2s') /\ Len(c2s') + 1 = Len(c2s)
    BY <1>1, <1>4
  <2>2. c2s'[Len(c2s')] = c2s[Len(c2s)]
    BY <1>1, <2>1
  <2> QED
    BY <1>2, <1>4, <2>2 DEF Picked
<1> QED
  BY <1>3, <1>4

\* The others' packets leave the own hero alone.
LEMMA OthersReceived ==
    ASSUME Types, Receive, OfOthers(Head(s2c)), my.seat = srv.seat
    PROVE  /\ UNCHANGED <<scene, isEnding, loading, focus, typing, my>>
           /\ heroes'[my.seat] = heroes[my.seat]
<1>1. CASE Head(s2c).t = "NEWPLAYER"
  BY <1>1, PlayReceive DEF Unmoved
<1>2. CASE Head(s2c).t = "READY" /\ Head(s2c).seat # srv.seat
  <2>1. OtherReady(Head(s2c))
    BY <1>2 DEF Receive
  <2>2. heroes \in [Seats -> Heroes \cup {EMPTY}]
    BY DEF Types, RoomTypes
  <2>3. heroes' = [heroes EXCEPT ![Head(s2c).seat] = Head(s2c).pick] /\ my' = my
    BY <1>2, <2>1 DEF OtherReady
  <2>4. heroes'[my.seat] = heroes[my.seat]
    BY <1>2, <2>2, <2>3
  <2> QED
    BY <2>1, <2>3, <2>4 DEF OtherReady, menuVars, history
<1> QED
  BY <1>1, <1>2 DEF OfOthers

LEMMA FromRoom == ASSUME Types, course = "play", InRoom, Next PROVE Playing'
<1>1. c2s \in Seq(ServerPackets) /\ s2c \in Seq(ClientPackets) /\ SrvTypes(srv)
  BY DEF Types, NetTypes, SrvTypes
<1>2. /\ scene = "ROOM" /\ ~loading /\ srv.room = "open"
      /\ ~srv.lobby /\ my.seat = srv.seat /\ ~isEnding
      /\ Only(c2s, {"READY"}) /\ \A i \in DOMAIN s2c : OfOthers(s2c[i])
      /\ srv.ready \/ c2s # <<>> => Picked(Len(c2s))
  BY DEF InRoom, Member
<1>3. Idle \/ ReadyClick \/ Serve \/ Others \/ Receive
  BY <1>2, PlayActions
<1>4. CASE Idle
  BY <1>4, IdleKeeps DEF Playing
<1>5. CASE ReadyClick
  <2>1. /\ UNCHANGED <<scene, isEnding, loading, srv, s2c, my>>
        /\ c2s' # <<>> /\ Only(c2s', {"READY"}) /\ Picked(Len(c2s))'
    BY <1>2, <1>5, ReadySent
  <2> QED
    BY <1>2, <2>1 DEF Playing, InRoom, Member, OfOthers
<1>6. CASE Serve
  <2>1. c2s # <<>> /\ c2s' = Tail(c2s)
    BY <1>6, PlayServe
  <2>2. Head(c2s).t = "READY" /\ Only(c2s', {"READY"})
    BY <1>1, <1>2, <2>1, OnlyTail
  <2>3. /\ Unmoved /\ s2c' = s2c
        /\ srv'.room = srv.room /\ srv'.lobby = srv.lobby /\ srv'.seat = srv.seat
        /\ srv'.pick = Head(c2s).pick
    BY <1>6, <2>2, ReadyServed
  <2>4. Picked(Len(c2s))'
    BY <1>1, <1>2, <2>1, <2>3, PickServed DEF Unmoved
  <2>5. \A i \in DOMAIN s2c : OfOthers(s2c[i])'
    BY <1>2, <2>3 DEF OfOthers
  <2> QED
    BY <1>2, <2>2, <2>3, <2>4, <2>5 DEF Playing, InRoom, Member, Unmoved
<1>7. CASE Others
  <2>1. Unmoved /\ c2s' = c2s
    BY <1>7, PlayOthers
  <2>2. PICK m \in ClientPackets :
          /\ s2c' = Append(s2c, m)
          /\ \/ m.t = "NEWPLAYER" /\ srv' = [srv EXCEPT !.ready = FALSE]
             \/ m.t = "READY" /\ m.seat # srv.seat /\ srv' = srv
             \/ /\ m.t = "ALLREADY" /\ srv.ready
                /\ srv' = [srv EXCEPT !.ready = FALSE, !.room = "game"]
    BY <1>2, <1>7, PlayOthers
  <2>3. /\ srv'.lobby = srv.lobby /\ srv'.seat = srv.seat /\ srv'.pick = srv.pick
        /\ srv'.ready => srv.ready
    BY <1>1, <2>2 DEF SrvTypes
  <2>4. Picked(Len(c2s)) => Picked(Len(c2s))'
    BY <2>1, <2>3 DEF Picked, Unmoved
  <2>5. /\ Len(s2c') = Len(s2c) + 1 /\ Len(s2c) \in Nat /\ s2c'[Len(s2c) + 1] = m
        /\ \A i \in 1 .. Len(s2c) : s2c'[i] = s2c[i]
        /\ s2c' \in Seq(ClientPackets) /\ s2c' # <<>>
    <3>1. Append(s2c, m) \in Seq(ClientPackets)
      BY <1>1, <2>2
    <3> QED
      BY <1>1, <2>2, <3>1
  <2>6. \A i \in 1 .. Len(s2c) : OfOthers(s2c'[i])
    BY <1>1, <1>2, <2>5
  <2>7. CASE m.t # "ALLREADY"
    <3>1. srv'.room = "open"
      BY <1>1, <1>2, <2>2, <2>7 DEF SrvTypes
    <3>2. OfOthers(m)
      BY <2>2, <2>7 DEF OfOthers
    <3>3. \A i \in DOMAIN s2c' : OfOthers(s2c'[i])
      <4>1. \A i \in DOMAIN s2c' : i \in 1 .. Len(s2c) \/ i = Len(s2c) + 1
        BY <2>5
      <4> QED
        BY <2>5, <2>6, <3>2, <4>1
    <3>4. \A i \in DOMAIN s2c' : OfOthers(s2c[i])'
      BY <2>3, <3>3 DEF OfOthers
    <3>5. InRoom'
      BY <1>2, <2>1, <2>3, <2>4, <3>1, <3>4 DEF InRoom, Member, Unmoved, Only
    <3> QED
      BY <3>5 DEF Playing
  <2>8. CASE m.t = "ALLREADY"
    <3>1. srv.ready /\ srv'.room = "game" /\ ~srv'.ready
      BY <1>1, <2>2, <2>8 DEF SrvTypes
    <3>2. Picked(Len(c2s))'
      BY <1>2, <2>4, <3>1
    <3>3. \A i \in 1 .. Len(s2c') - 1 : OfOthers(s2c[i])'
      <4>1. Len(s2c') - 1 = Len(s2c)
        BY <2>5
      <4> QED
        BY <2>3, <2>6, <4>1 DEF OfOthers
    <3>4. s2c'[Len(s2c')].t = "ALLREADY"
      BY <2>5, <2>8
    <3>5. Called'
      BY <1>2, <2>1, <2>3, <2>5, <3>1, <3>2, <3>3, <3>4 DEF Called, InMatch, Member, Unmoved, Only
    <3> QED
      BY <3>5 DEF Playing
  <2> QED
    BY <2>7, <2>8
<1>8. CASE Receive
  <2>1. s2c # <<>> /\ s2c' = Tail(s2c) /\ UNCHANGED <<srv, c2s>>
    BY <1>8, PlayReceive
  <2>2. /\ Head(s2c) = s2c[1] /\ 1 \in DOMAIN s2c
        /\ \A i \in DOMAIN Tail(s2c) : i + 1 \in DOMAIN s2c /\ Tail(s2c)[i] = s2c[i + 1]
    BY <1>1, <2>1, TailPlaces
  <2>3. OfOthers(Head(s2c))
    BY <1>2, <2>2
  <2>4. /\ UNCHANGED <<scene, isEnding, loading, focus, typing, my>>
        /\ heroes'[my.seat] = heroes[my.seat]
    BY <1>2, <1>8, <2>3, OthersReceived
  <2>5. \A i \in DOMAIN s2c' : OfOthers(s2c'[i])
    BY <1>2, <2>1, <2>2
  <2>6. \A i \in DOMAIN s2c' : OfOthers(s2c[i])'
    BY <2>1, <2>5 DEF OfOthers
  <2>7. Picked(Len(c2s)) => Picked(Len(c2s))'
    BY <2>1, <2>4 DEF Picked
  <2>8. InRoom'
    BY <1>2, <2>1, <2>4, <2>6, <2>7 DEF InRoom, Member, Only
  <2> QED
    BY <2>8 DEF Playing
<1> QED
  BY <1>3, <1>4, <1>5, <1>6, <1>7, <1>8


-----------------------------------------------------------------------------
(* The course "play": the match                                            *)

LEMMA FromCalled == ASSUME Types, course = "play", Called, Next PROVE Playing'
<1>1. c2s \in Seq(ServerPackets) /\ s2c \in Seq(ClientPackets) /\ SrvTypes(srv)
  BY DEF Types, NetTypes, SrvTypes
<1>2. /\ scene = "ROOM" /\ ~loading /\ srv.room = "game" /\ ~srv.ready
      /\ ~srv.lobby /\ my.seat = srv.seat /\ ~isEnding
      /\ Only(c2s, {"READY"}) /\ Picked(Len(c2s))
      /\ s2c # <<>> /\ s2c[Len(s2c)].t = "ALLREADY"
      /\ \A i \in 1 .. Len(s2c) - 1 : OfOthers(s2c[i])
  BY DEF Called, InMatch, Member
<1>3. Idle \/ ReadyClick \/ Serve \/ Others \/ Receive
  BY <1>2, PlayActions
<1>4. CASE Idle
  BY <1>4, IdleKeeps DEF Playing
<1>5. CASE ReadyClick
  <2>1. /\ UNCHANGED <<scene, isEnding, loading, srv, s2c, my>>
        /\ Only(c2s', {"READY"}) /\ Picked(Len(c2s))'
    BY <1>2, <1>5, ReadySent
  <2> QED
    BY <1>2, <2>1 DEF Playing, Called, InMatch, Member, OfOthers
<1>6. CASE Serve
  <2>1. c2s # <<>> /\ c2s' = Tail(c2s)
    BY <1>6, PlayServe
  <2>2. Head(c2s).t = "READY" /\ Only(c2s', {"READY"})
    BY <1>1, <1>2, <2>1, OnlyTail
  <2>3. /\ Unmoved /\ s2c' = s2c
        /\ srv'.room = srv.room /\ srv'.lobby = srv.lobby /\ srv'.seat = srv.seat
        /\ srv'.pick = Head(c2s).pick /\ ~srv'.ready
    BY <1>2, <1>6, <2>2, ReadyServed
  <2>4. Picked(Len(c2s))'
    BY <1>1, <1>2, <2>1, <2>3, PickServed DEF Unmoved
  <2>5. \A i \in 1 .. Len(s2c) - 1 : OfOthers(s2c[i])'
    BY <1>2, <2>3 DEF OfOthers
  <2>6. Called'
    BY <1>2, <2>2, <2>3, <2>4, <2>5 DEF Called, InMatch, Member, Unmoved
  <2> QED
    BY <2>6 DEF Playing
<1>7. CASE Others
  <2>1. srv.room # "open" /\ scene # "GAME"
    BY <1>2
  <2> QED
    BY <1>2, <1>7, <2>1, PlayOthers
<1>8. CASE Receive
  <2>1. s2c # <<>> /\ s2c' = Tail(s2c) /\ UNCHANGED <<srv, c2s>>
    BY <1>8, PlayReceive
  <2>2. /\ Head(s2c) = s2c[1] /\ Len(s2c') = Len(s2c) - 1 /\ Len(s2c) \in Nat /\ Len(s2c) > 0
        /\ \A i \in 1 .. Len(s2c') : s2c'[i] = s2c[i + 1]
        /\ s2c' \in Seq(ClientPackets)
    BY <1>1, <2>1
  <2>3. CASE Len(s2c) = 1
    <3>1. Head(s2c).t = "ALLREADY" /\ s2c' = <<>>
      BY <1>2, <2>2, <2>3
    <3>2. AllReady
      BY <1>8, <3>1 DEF Receive
    <3>3. /\ scene' = "LOADING" /\ loading' /\ KeysKept'
          /\ UNCHANGED <<isEnding, my, heroes>>
      <4>1. typing' = (focus = "edit") /\ focus' = focus
        BY <3>2 DEF AllReady
      <4>2. KeysKept'
        BY <4>1, Zenon DEF KeysKept
      <4> QED
        BY <3>2, <4>2 DEF AllReady, roomVars
    <3>4. Picked(Len(c2s))'
      BY <1>2, <2>1, <3>3 DEF Picked
    <3>5. Loading'
      BY <1>2, <2>1, <3>1, <3>3, <3>4 DEF Loading, InMatch, Member, Only
    <3> QED
      BY <3>5 DEF Playing
  <2>4. CASE Len(s2c) > 1
    <3>1. OfOthers(Head(s2c))
      <4>1. 1 \in 1 .. Len(s2c) - 1
        BY <2>2, <2>4
      <4> QED
        BY <1>2, <2>2, <4>1
    <3>2. /\ UNCHANGED <<scene, isEnding, loading, focus, typing, my>>
          /\ heroes'[my.seat] = heroes[my.seat]
      BY <1>2, <1>8, <3>1, OthersReceived
    <3>3. Picked(Len(c2s))'
      BY <1>2, <2>1, <3>2 DEF Picked
    <3>4. s2c' # <<>> /\ s2c'[Len(s2c')] = s2c[Len(s2c)]
      <4>1. Len(s2c') \in 1 .. Len(s2c') /\ Len(s2c') + 1 = Len(s2c)
        BY <2>2, <2>4
      <4>2. s2c' # <<>>
        BY <2>2, <4>1
      <4> QED
        BY <2>2, <4>1, <4>2
    <3>5. \A i \in 1 .. Len(s2c') - 1 : OfOthers(s2c'[i])
      <4>1. \A i \in 1 .. Len(s2c') - 1 : i \in 1 .. Len(s2c') /\ i + 1 \in 1 .. Len(s2c) - 1
        BY <2>2
      <4> QED
        BY <1>2, <2>2, <4>1
    <3>6. \A i \in 1 .. Len(s2c') - 1 : OfOthers(s2c[i])'
      BY <2>1, <3>5 DEF OfOthers
    <3>7. Called'
      BY <1>2, <2>1, <3>2, <3>3, <3>4, <3>6 DEF Called, InMatch, Member, Only
    <3> QED
      BY <3>7 DEF Playing
  <2>5. Len(s2c) = 1 \/ Len(s2c) > 1
    BY <2>2
  <2> QED
    BY <2>3, <2>4, <2>5
<1> QED
  BY <1>3, <1>4, <1>5, <1>6, <1>7, <1>8

LEMMA FromLoading == ASSUME Types, course = "play", Loading, Next PROVE Playing'
<1>1. c2s \in Seq(ServerPackets) /\ s2c \in Seq(ClientPackets) /\ SrvTypes(srv)
  BY DEF Types, NetTypes, SrvTypes
<1>2. /\ scene = "LOADING" /\ loading /\ srv.room = "game" /\ ~srv.ready
      /\ ~srv.lobby /\ my.seat = srv.seat /\ ~isEnding
      /\ Only(c2s, {"READY"}) /\ Picked(Len(c2s)) /\ s2c = <<>> /\ KeysKept
  BY DEF Loading, InMatch, Member
<1>3. Idle \/ LoadingFrame \/ Serve \/ Others \/ Receive
  BY <1>2, PlayActions
<1>4. CASE Idle
  BY <1>4, IdleKeeps DEF Playing
<1>5. CASE LoadingFrame
  <2> DEFINE m == [t |-> "LOADED"]
  <2>1. m \in ServerPackets /\ m.t = "LOADED"
    BY Packets
  <2>2. /\ c2s' = Append(c2s, m) /\ ~loading'
        /\ UNCHANGED <<scene, isEnding, focus, typing, srv, s2c, my, heroes>>
    BY <1>5 DEF LoadingFrame, ToServer, roomVars, history
  <2> HIDE DEF m
  <2>3. /\ c2s' # <<>> /\ Len(c2s') = Len(c2s) + 1 /\ c2s'[Len(c2s')] = m /\ Len(c2s) \in Nat
        /\ \A i \in 1 .. Len(c2s) : c2s'[i] = c2s[i]
    BY <1>1, <2>1, <2>2
  <2>4. Len(c2s') - 1 = Len(c2s)
    BY <2>3
  <2>5. \A i \in 1 .. Len(c2s') - 1 : c2s'[i].t = "READY"
    BY <1>1, <1>2, <2>3, <2>4 DEF Only
  <2>6. Picked(Len(c2s) - 1)'
    <3>1. CASE Len(c2s) = 0
      BY <1>2, <2>2, <2>4, <3>1 DEF Picked
    <3>2. CASE Len(c2s) # 0
      <4>1. c2s'[Len(c2s)] = c2s[Len(c2s)]
        BY <2>3, <3>2
      <4> QED
        BY <1>2, <2>2, <2>4, <3>2, <4>1 DEF Picked
    <3> QED
      BY <3>1, <3>2
  <2>7. Loaded'
    BY <1>2, <2>1, <2>2, <2>3, <2>5, <2>6 DEF Loaded, InMatch, Member, KeysKept
  <2> QED
    BY <2>7 DEF Playing
<1>6. CASE Serve
  <2>1. c2s # <<>> /\ c2s' = Tail(c2s)
    BY <1>6, PlayServe
  <2>2. Head(c2s).t = "READY" /\ Only(c2s', {"READY"})
    BY <1>1, <1>2, <2>1, OnlyTail
  <2>3. /\ Unmoved /\ s2c' = s2c
        /\ srv'.room = srv.room /\ srv'.lobby = srv.lobby /\ srv'.seat = srv.seat
        /\ srv'.pick = Head(c2s).pick /\ ~srv'.ready
    BY <1>2, <1>6, <2>2, ReadyServed
  <2>4. Picked(Len(c2s))'
    BY <1>1, <1>2, <2>1, <2>3, PickServed DEF Unmoved
  <2>5. Loading'
    BY <1>2, <2>2, <2>3, <2>4 DEF Loading, InMatch, Member, Unmoved, KeysKept
  <2> QED
    BY <2>5 DEF Playing
<1>7. CASE Others
  <2>1. srv.room # "open" /\ scene # "GAME"
    BY <1>2
  <2> QED
    BY <1>2, <1>7, <2>1, PlayOthers
<1>8. ~Receive
  BY <1>2, PlayReceive
<1> QED
  BY <1>3, <1>4, <1>5, <1>6, <1>7, <1>8

LEMMA FromLoaded == ASSUME Types, course = "play", Loaded, Next PROVE Playing'
<1>1. c2s \in Seq(ServerPackets) /\ s2c \in Seq(ClientPackets) /\ SrvTypes(srv) /\ NetTypes
  BY DEF Types, NetTypes, SrvTypes
<1>2. /\ scene = "LOADING" /\ ~loading /\ srv.room = "game" /\ ~srv.ready
      /\ ~srv.lobby /\ my.seat = srv.seat /\ ~isEnding
      /\ c2s # <<>> /\ c2s[Len(c2s)].t = "LOADED" /\ s2c = <<>> /\ KeysKept
      /\ (\A i \in 1 .. Len(c2s) - 1 : c2s[i].t = "READY") /\ Picked(Len(c2s) - 1)
  BY DEF Loaded, InMatch, Member
<1>3. Idle \/ Serve \/ Others \/ Receive
  BY <1>2, PlayActions
<1>4. CASE Idle
  BY <1>4, IdleKeeps DEF Playing
<1>5. CASE Serve
  <2>1. Unmoved /\ c2s' = Tail(c2s)
    BY <1>5, PlayServe
  <2>2. /\ Head(c2s) = c2s[1] /\ Len(c2s') = Len(c2s) - 1 /\ Len(c2s) \in Nat /\ Len(c2s) > 0
        /\ \A i \in 1 .. Len(c2s') : c2s'[i] = c2s[i + 1]
        /\ c2s' \in Seq(ServerPackets)
    BY <1>1, <1>2, <2>1
  <2>3. CASE Len(c2s) = 1
    <3>1. Head(c2s).t = "LOADED" /\ c2s' = <<>>
      BY <1>2, <2>2, <2>3
    <3> DEFINE m == [t |-> "PUT"]
    <3>2. m \in ClientPackets /\ m.t = "PUT"
      BY Packets
    <3>3. srv' = srv /\ ToClient(<<m>>)
      BY <1>2, <1>5, <3>1 DEF Serve, Relay
    <3> HIDE DEF m
    <3>4. s2c' = Append(s2c, m)
      BY <1>1, <3>2, <3>3, SentTypes
    <3>5. Len(s2c') = 1 /\ Only(s2c', {"PUT"})
      <4>1. Only(s2c, {"PUT"})
        BY <1>2 DEF Only
      <4>2. Only(s2c', {"PUT"})
        BY <1>1, <3>2, <3>4, <4>1, OnlyAppend
      <4> QED
        BY <1>1, <1>2, <3>2, <3>4, <4>2
    <3>6. Picked(0)'
      <4>1. Len(c2s) - 1 = 0
        BY <2>3
      <4> QED
        BY <1>2, <2>1, <3>3, <4>1 DEF Picked, Unmoved
    <3>7. Put'
      BY <1>2, <2>1, <3>1, <3>3, <3>5, <3>6 DEF Put, InMatch, Member, Unmoved, KeysKept
    <3> QED
      BY <3>7 DEF Playing
  <2>4. CASE Len(c2s) > 1
    <3>1. Head(c2s).t = "READY"
      <4>1. 1 \in 1 .. Len(c2s) - 1
        BY <2>2, <2>4
      <4> QED
        BY <1>2, <2>2, <4>1
    <3>2. /\ s2c' = s2c
          /\ srv'.room = srv.room /\ srv'.lobby = srv.lobby /\ srv'.seat = srv.seat
          /\ srv'.pick = Head(c2s).pick /\ ~srv'.ready
      BY <1>2, <1>5, <3>1, ReadyServed
    <3>3. c2s' # <<>> /\ c2s'[Len(c2s')] = c2s[Len(c2s)]
      <4>1. Len(c2s') \in 1 .. Len(c2s') /\ Len(c2s') + 1 = Len(c2s)
        BY <2>2, <2>4
      <4>2. c2s' # <<>>
        BY <2>2, <4>1
      <4> QED
        BY <2>2, <4>1, <4>2
    <3>4. \A i \in 1 .. Len(c2s') - 1 : c2s'[i].t = "READY"
      <4>1. \A i \in 1 .. Len(c2s') - 1 : i \in 1 .. Len(c2s') /\ i + 1 \in 1 .. Len(c2s) - 1
        BY <2>2
      <4> QED
        BY <1>2, <2>2, <4>1
    <3>5. Picked(Len(c2s) - 1)'
      <4>1. heroes[my.seat] = c2s[Len(c2s) - 1].pick
        BY <1>2, <2>2, <2>4 DEF Picked
      <4>2. CASE Len(c2s) = 2
        <5>1. Len(c2s') - 1 = 0
          BY <2>2, <4>2
        <5>2. heroes[my.seat] = Head(c2s).pick
          BY <2>2, <4>1, <4>2
        <5> QED
          BY <2>1, <3>2, <5>1, <5>2 DEF Picked, Unmoved
      <4>3. CASE Len(c2s) > 2
        <5>1. /\ Len(c2s') - 1 \in 1 .. Len(c2s') /\ (Len(c2s') - 1) + 1 = Len(c2s) - 1
              /\ Len(c2s') - 1 # 0
          BY <2>2, <4>3
        <5>2. c2s'[Len(c2s') - 1] = c2s[Len(c2s) - 1]
          BY <2>2, <5>1
        <5> QED
          BY <2>1, <4>1, <5>1, <5>2 DEF Picked, Unmoved
      <4>4. Len(c2s) = 2 \/ Len(c2s) > 2
        BY <2>2, <2>4
      <4> QED
        BY <4>2, <4>3, <4>4
    <3>6. Loaded'
      BY <1>2, <2>1, <3>2, <3>3, <3>4, <3>5 DEF Loaded, InMatch, Member, Unmoved, KeysKept
    <3> QED
      BY <3>6 DEF Playing
  <2>5. Len(c2s) = 1 \/ Len(c2s) > 1
    BY <2>2
  <2> QED
    BY <2>3, <2>4, <2>5
<1>6. CASE Others
  <2>1. srv.room # "open" /\ scene # "GAME"
    BY <1>2
  <2> QED
    BY <1>2, <1>6, <2>1, PlayOthers
<1>7. ~Receive
  BY <1>2, PlayReceive
<1> QED
  BY <1>3, <1>4, <1>5, <1>6, <1>7

LEMMA FromPut == ASSUME Types, course = "play", Put, Next PROVE Playing'
<1>1. s2c \in Seq(ClientPackets)
  BY DEF Types, NetTypes
<1>2. /\ scene = "LOADING" /\ ~loading /\ srv.room = "game" /\ ~srv.ready
      /\ ~srv.lobby /\ my.seat = srv.seat /\ ~isEnding
      /\ c2s = <<>> /\ Picked(0) /\ Len(s2c) = 1 /\ Only(s2c, {"PUT"}) /\ KeysKept
  BY DEF Put, InMatch, Member
<1>3. Idle \/ Serve \/ Others \/ Receive
  BY <1>2, PlayActions
<1>4. CASE Idle
  BY <1>4, IdleKeeps DEF Playing
<1>5. ~Serve
  BY <1>2, PlayServe
<1>6. CASE Others
  <2>1. srv.room # "open" /\ scene # "GAME"
    BY <1>2
  <2> QED
    BY <1>2, <1>6, <2>1, PlayOthers
<1>7. CASE Receive
  <2>1. s2c # <<>> /\ s2c' = Tail(s2c) /\ UNCHANGED <<srv, c2s>>
    BY <1>7, PlayReceive
  <2>2. Head(s2c).t = "PUT" /\ Only(s2c', {"PUT"}) /\ s2c' = <<>>
    BY <1>1, <1>2, <2>1, OnlyTail
  <2>3. PutPlayer
    BY <1>7, <2>2 DEF Receive
  <2>4. scene' = "GAME" /\ UNCHANGED <<isEnding, loading, focus, typing, my, heroes>>
    BY <2>3 DEF PutPlayer, history
  <2>5. InGame'
    BY <1>2, <2>1, <2>2, <2>4 DEF InGame, InMatch, Member, KeysKept, Picked, Only
  <2> QED
    BY <2>5 DEF Playing
<1> QED
  BY <1>3, <1>4, <1>5, <1>6, <1>7

LEMMA FromGame == ASSUME Types, course = "play", InGame, Next PROVE Playing'
<1>1. s2c \in Seq(ClientPackets)
  BY DEF Types, NetTypes
<1>2. /\ scene = "GAME" /\ ~loading /\ srv.room = "game" /\ ~srv.ready
      /\ ~srv.lobby /\ my.seat = srv.seat /\ ~isEnding
      /\ c2s = <<>> /\ Picked(0) /\ Only(s2c, {"RESULT"}) /\ KeysKept
  BY DEF InGame, InMatch, Member
<1>3. Idle \/ EndFrame \/ Serve \/ Others \/ Receive
  BY <1>2, PlayActions
<1>4. CASE Idle
  BY <1>4, IdleKeeps DEF Playing
<1>5. CASE EndFrame
  <2>1. scene' = "LOBBY" /\ isEnding' /\ UNCHANGED <<loading, srv, c2s, s2c>>
    BY <1>5 DEF EndFrame, netVars
  <2> QED
    BY <1>2, <2>1 DEF Playing, Ending, Only
<1>6. ~Serve
  BY <1>2, PlayServe
<1>7. CASE Others
  <2>1. Unmoved /\ c2s' = c2s
    BY <1>7, PlayOthers
  <2>2. PICK m \in ClientPackets : s2c' = Append(s2c, m) /\ m.t = "RESULT" /\ srv' = srv
    <3>1. srv.room # "open"
      BY <1>2
    <3> QED
      BY <1>2, <1>7, <3>1, PlayOthers
  <2>3. Only(s2c', {"RESULT"})
    BY <1>1, <1>2, <2>2, OnlyAppend
  <2>4. InGame'
    BY <1>2, <2>1, <2>2, <2>3 DEF InGame, InMatch, Member, KeysKept, Picked, Unmoved
  <2> QED
    BY <2>4 DEF Playing
<1>8. CASE Receive
  <2>1. s2c # <<>> /\ s2c' = Tail(s2c) /\ UNCHANGED <<srv, c2s>>
    BY <1>8, PlayReceive
  <2>2. Head(s2c).t = "RESULT" /\ Only(s2c', {"RESULT"})
    BY <1>1, <1>2, <2>1, OnlyTail
  <2>3. Unmoved
    BY <1>8, <2>2, PlayReceive
  <2>4. InGame'
    BY <1>2, <2>1, <2>2, <2>3 DEF InGame, InMatch, Member, KeysKept, Picked, Unmoved
  <2> QED
    BY <2>4 DEF Playing
<1> QED
  BY <1>3, <1>4, <1>5, <1>6, <1>7, <1>8

LEMMA PlayingStep ==
    ASSUME Types, course = "play", ~hasty, Dialogs, Playing, Next
    PROVE  Playing'
BY FromOut, FromKnown, FromLobby, FromAsking, FromArriving, FromRoom, FromCalled, FromLoading,
   FromLoaded, FromPut, FromGame, FromEnding DEF Playing


-----------------------------------------------------------------------------
(* The invariant is inductive                                              *)

LEMMA InitInvariant == Init => Invariant
<1> SUFFICES ASSUME Init PROVE Invariant
  OBVIOUS
<1>1. Types
  BY InitTypes
<1>2. ChatsRanged
  <2>1. Lines \in Nat /\ Lines > 0
    BY ScreensAssumption
  <2>2. Ranged(NewChat)
    BY <2>1 DEF Ranged, NewChat
  <2>3. chat["ROOM"] = NewChat /\ chat["LOBBY"] = NewChat
    BY DEF Init
  <2> QED
    BY <2>2, <2>3 DEF ChatsRanged
<1>3. Dialogs
  BY DEF Init, Dialogs, DialogAlone, DialogFresh
<1>4. Talking
  BY DEF Init, Talking, NoMatch, InTurn, AtMenu, LobbyKnown, Only, Has, LoginsFirst, NoLateID
<1>5. Out
  BY DEF Init, Out, NoRoom, Only
<1>6. ~hasty
  BY DEF Init
<1> QED
  BY <1>1, <1>2, <1>3, <1>4, <1>5, <1>6 DEF Invariant, Playing

LEMMA InvariantStep == Invariant /\ [Next]_vars => Invariant'
<1> SUFFICES ASSUME Invariant, [Next]_vars PROVE Invariant'
  OBVIOUS
<1>1. /\ Types /\ ChatsRanged /\ Dialogs
      /\ course = "talk" => Talking
      /\ course = "play" => Playing /\ ~hasty
  BY DEF Invariant
<1>2. CASE Next
  <2>1. Types'
    BY <1>1, <1>2, TypesStep
  <2>2. ChatsRanged'
    BY <1>1, <1>2, ChatsRangedStep
  <2>3. Dialogs'
    BY <1>1, <1>2, <2>1, DialogStep
  <2>4. course' = course
    BY <1>2, CourseKept
  <2>5. course' = "talk" => Talking'
    BY <1>1, <1>2, <2>4, TalkingStep
  <2>6. course' = "play" => Playing' /\ ~hasty'
    BY <1>1, <1>2, <2>4, PlayingStep, NeverHasty
  <2> QED
    BY <2>1, <2>2, <2>3, <2>5, <2>6 DEF Invariant
<1>3. CASE UNCHANGED vars
  <2>1. UNCHANGED <<menuVars, chat, roomVars, netVars, history>>
    BY <1>3 DEF vars
  <2>2. Types'
    BY <1>1, <2>1, MenuUnchanged, ChatUnchanged, RoomUnchanged, NetUnchanged, HistoryUnchanged
    DEF Types
  <2>3. UNCHANGED <<scene, isEnding, loading, focus, dialog, srv, c2s, s2c, my, picks, heroes,
                    course, wiped, typing, hasty>>
    BY <2>1 DEF menuVars, roomVars, netVars, history
  <2>4. ChatsRanged'
    BY <1>1, <2>1, <2>3 DEF ChatsRanged, Ranged
  <2>5. Dialogs'
    BY <1>1, <2>3 DEF Dialogs, DialogAlone, DialogFresh, Pending
  <2>6. course' = "talk" => Talking'
    BY <1>1, <2>3, TalkUnchanged
  <2>7. course' = "play" => Playing' /\ ~hasty'
    <3>1. Idle
      BY <2>3 DEF Idle
    <3> QED
      BY <1>1, <2>3, <3>1, IdleKeeps
  <2> QED
    BY <2>2, <2>4, <2>5, <2>6, <2>7 DEF Invariant
<1> QED
  BY <1>2, <1>3

THEOREM InvariantHolds == Spec => []Invariant
<1> QED
  BY InitInvariant, InvariantStep, PTL DEF Spec

-----------------------------------------------------------------------------
(* The theorems                                                            *)

\* Every text fits its box with the zero that ends it, whatever is typed, and
\* every hero and seat is one there is.
THEOREM TypesHold == Spec => []TypeOK
<1>1. Invariant => TypeOK
  BY TypesAreOK DEF Invariant
<1> QED
  BY <1>1, InvariantHolds, PTL

\* The scroll range of the chat windows (Draw in Room.cpp and Lobby.cpp) stays
\* inside the vector of lines, for every window height and number of lines.
THEOREM ChatsCanBeDrawn == Spec => []ChatDrawable
<1>1. Invariant => ChatDrawable
  <2> SUFFICES ASSUME Invariant PROVE ChatDrawable
    OBVIOUS
  <2>1. chat["ROOM"] \in Windows /\ chat["LOBBY"] \in Windows
    BY DEF Invariant, Types, ChatTypes
  <2>2. Drawable(chat["ROOM"])
    BY <2>1, RangedIsDrawable DEF Invariant, ChatsRanged
  <2>3. wiped \/ Drawable(chat["LOBBY"])
    BY <2>1, RangedIsDrawable DEF Invariant, ChatsRanged
  <2> QED
    BY <2>2, <2>3 DEF ChatDrawable
<1> QED
  BY <1>1, InvariantHolds, PTL

\* With nothing on its way, the client shows the lobby exactly if the server
\* counts it in, for every order of clicks, logins, answers and chat lines.
THEOREM ScenesAgree == Spec => []SceneAgrees
<1>1. Invariant => SceneAgrees
  <2> SUFFICES ASSUME Invariant, c2s = <<>>, s2c = <<>>
               PROVE  srv.lobby <=> scene = "LOBBY" /\ ~isEnding
    BY DEF SceneAgrees
  <2>1. course \in {"talk", "play"} /\ SrvTypes(srv)
    BY DEF Invariant, Types, HistoryTypes, NetTypes, SrvTypes
  <2>2. ~Has(c2s, "MAKE") /\ ~Has(s2c, "ID") /\ ~Has(s2c, "JOINED") /\ Len(c2s) = 0 /\ Len(s2c) = 0
    BY DEF Has
  <2>3. CASE course = "talk"
    BY <2>2, <2>3 DEF Invariant, Talking, NoMatch, LobbyKnown
  <2>4. CASE course = "play"
    <3>1. Playing
      BY <2>4 DEF Invariant
    <3>2. CASE Out
      BY <3>2 DEF Out
    <3>3. CASE InLobby
      BY <2>2, <3>3 DEF InLobby, Homeward
    <3>4. CASE InRoom \/ Called \/ Loading \/ Loaded \/ Put \/ InGame
      BY <3>4 DEF InRoom, Called, Loading, Loaded, Put, InGame, InMatch, Member
    <3>5. CASE Ending
      BY <3>5 DEF Ending
    <3>6. ~Known /\ ~Asking /\ ~Arriving
      BY <2>2 DEF Known, Asking, Arriving
    <3> QED
      BY <3>1, <3>2, <3>3, <3>4, <3>5, <3>6 DEF Playing
  <2> QED
    BY <2>1, <2>3, <2>4
<1> QED
  BY <1>1, InvariantHolds, PTL

\* In the match the own hero is the one the server has for this client,
\* whatever crossed the click on ready.
THEOREM PicksAgree == Spec => []PickAgrees
<1>1. Invariant => PickAgrees
  <2> SUFFICES ASSUME Invariant, scene \in {"LOADING", "GAME"}, c2s = <<>>, ~hasty
               PROVE  heroes[my.seat] = srv.pick
    BY DEF PickAgrees
  <2>1. course = "play"
    BY DEF Invariant, Types, HistoryTypes, Talking, NoMatch
  <2>2. Loading \/ Loaded \/ Put \/ InGame
    BY <2>1 DEF Invariant, Playing, Out, Known, InLobby, Asking, Arriving, InRoom, Called, Ending
  <2>3. Len(c2s) = 0
    OBVIOUS
  <2>4. Picked(0)
    BY <2>2, <2>3 DEF Loading, Loaded, Put, InGame
  <2> QED
    BY <2>4 DEF Picked
<1> QED
  BY <1>1, InvariantHolds, PTL

\* Only an answer that comes while the dialog is open leaves its tick behind.
THEOREM DialogsAreFresh == Spec => []DialogFresh
<1>1. Invariant => DialogFresh
  BY DEF Invariant, Dialogs
<1> QED
  BY <1>1, InvariantHolds, PTL

\* The keys of a match go to the hero, unless the player was typing when the
\* room was called to the match.
THEOREM KeysGoToHero == Spec => []KeysReachHero
<1>1. Invariant => KeysReachHero
  <2> SUFFICES ASSUME Invariant, scene = "GAME", focus = "edit" PROVE typing
    BY DEF KeysReachHero
  <2>1. course = "play"
    BY DEF Invariant, Types, HistoryTypes, Talking, NoMatch
  <2>2. InGame
    BY <2>1 DEF Invariant, Playing, Out, Known, InLobby, Asking, Arriving, InRoom, Called,
                Loading, Loaded, Put, Ending
  <2> QED
    BY <2>2 DEF InGame, KeysKept
<1> QED
  BY <1>1, InvariantHolds, PTL
=============================================================================
