------------------------------- MODULE Rooms -------------------------------
(***************************************************************************)
(* The game server's session state: which client slots are connected,     *)
(* which rooms exist, who is in them and how far each room is on its way  *)
(* from the lobby to a match and back.  One action per packet handler of   *)
(* ProcessPacket (PacketFunc.cpp), plus the accept thread and              *)
(* DisconnectClient (Lunatic_Server.cpp).                                  *)
(*                                                                         *)
(* Handlers are atomic here.  The packets are only the ones a client that  *)
(* waits for its answers sends; Session.tla adds the client program and    *)
(* the two byte streams and shows that they produce exactly such packets.  *)
(* Two things can go wrong and are switched on by constants: a player may  *)
(* drop (MayDrop), and a room may be made when none is empty               *)
(* (MayOverflow).                                                          *)
(***************************************************************************)
EXTENDS Integers, FiniteSets

CONSTANTS
    MaxUser,        \* MAX_USER: slots of g_Clients
    MaxRoom,        \* MAX_ROOM: slots of g_Room
    MaxGamer,       \* the 8 of "size() == 8": a room with so many is FULL
    Workers,        \* worker threads started by main
    MayDrop,        \* may a connection break?
    MayOverflow     \* may CS_MAKE_ROOM arrive when no room is empty?

\* What the proofs need of the constants; 10, 6, 8 and 6 in the sources.
\* The counters of a room are bytes, so a room must hold fewer than 256.
ASSUME RoomsAssumption ==
    /\ MaxUser \in Nat \ {0}
    /\ MaxRoom \in Nat \ {0}
    /\ MaxGamer \in 2 .. 255
    /\ Workers \in Nat \ {0}
    /\ MayDrop \in BOOLEAN
    /\ MayOverflow \in BOOLEAN

Users == 0 .. MaxUser - 1
RoomIds == 0 .. MaxRoom - 1
Byte == 0 .. 255
Status == {"EMPTY", "JOINABLE", "FULL", "INGAME"}

VARIABLES
    connect,        \* CLIENT.m_bConnect
    lobby,          \* CLIENT.m_bLobby
    gameID,         \* CLIENT.m_GameID
    roomNum,        \* g_RoomNum, the room made last
    status,         \* ROOM.m_RoomStatus
    members,        \* ROOM.m_GameID_list
    accepted,       \* ROOM.m_AcceptLoading_list
    readycount,     \* ROOM.m_readycount
    loadcount,      \* ROOM.m_loadcount
    hung            \* slots whose packet is being handled by a thread that
                    \* never returns from error_display

clientVars == <<connect, lobby, gameID>>
roomVars == <<status, members, accepted, readycount, loadcount>>
vars == <<connect, lobby, gameID, roomNum, status, members, accepted,
          readycount, loadcount, hung>>

Init ==
    /\ connect = [s \in Users |-> FALSE]
    /\ lobby = [s \in Users |-> FALSE]
    /\ gameID = [s \in Users |-> 0]
    /\ roomNum = 0
    /\ status = [r \in RoomIds |-> "EMPTY"]
    /\ members = [r \in RoomIds |-> {}]
    /\ accepted = [r \in RoomIds |-> {}]
    /\ readycount = [r \in RoomIds |-> 0]
    /\ loadcount = [r \in RoomIds |-> 0]
    /\ hung = {}

-----------------------------------------------------------------------------
Size(r) == Cardinality(members[r])

\* Definitions with the suffix _bug are plausible mistakes in the definition
\* that follows; the properties below tell them from the code.

\* ++ on a BYTE
Inc_bug(n) == n - 1
Inc(n) == (n + 1) % 256

\* size() - 1, stored in a BYTE
NewGameID_bug(n) == (n - 2) % 256
NewGameID(n) == (n - 1) % 256

\* The status of a room that now has n members
EnteredStatus_bug(n, old) == IF n > MaxGamer THEN "FULL" ELSE old
EnteredStatus(n, old) == IF n = MaxGamer THEN "FULL" ELSE old

\* What CS_JOIN_ROOM turns away
Refused_bug == {"FULL", "EMPTY"}
Refused == {"FULL", "INGAME", "EMPTY"}

\* A completed receive of slot s finds a worker: its socket is open, its
\* last packet was finished, and not every worker is stuck.
Served(s) == connect[s] /\ s \notin hung /\ Cardinality(hung) < Workers

\* Send_Packet to a socket that DisconnectClient has closed fails with an
\* error other than WSA_IO_PENDING and ends in error_display's endless loop:
\* a broadcast to room r does not return when a member is gone.
Unreachable(r) == \E d \in members[r] : ~connect[d]

\* After a broadcast of a packet of s to room r
AfterBroadcast(s, r) ==
    hung' = IF Unreachable(r) THEN hung \cup {s} ELSE hung

EmptyRooms == {r \in RoomIds : members[r] = {}}
Joinable_bug == {r \in RoomIds : status[r] \notin {"FULL", "INGAME"}}
Joinable == {r \in RoomIds : status[r] = "JOINABLE"}
FirstRoom(S) == CHOOSE r \in S : \A q \in S : r <= q

\* The tests that start a game and end the loading, after the increment
AllReady_bug(r) == Inc(readycount[r]) > Size(r)
AllReady(r) == Inc(readycount[r]) = Size(r)
AllLoaded_bug(r) == Inc(loadcount[r]) = Size(r) - 1
AllLoaded(r) == Inc(loadcount[r]) = Size(r)

\* m_AcceptLoading_list.insert(s) and m_GameID_list.erase(s)
AcceptedWith(s, r) == accepted[r] \cup {s}
MembersWithout_bug(s, r) == members[r]
MembersWithout(s, r) == members[r] \ {s}

-----------------------------------------------------------------------------
(* Accept thread: the lowest free slot is taken; with none free the socket *)
(* is closed and nothing changes.                                          *)
Accept(s) ==
    /\ ~connect[s]
    /\ \A t \in 0 .. s - 1 : connect[t]
    /\ connect' = [connect EXCEPT ![s] = TRUE]
    /\ lobby' = [lobby EXCEPT ![s] = TRUE]
    /\ UNCHANGED <<gameID, roomNum, roomVars, hung>>

(* A receive of length 0 or error 64: the slot becomes free.  No room is   *)
(* told: the slot stays in every m_GameID_list it is in.                   *)
DisconnectClient(s) ==
    /\ Served(s)
    /\ connect' = [connect EXCEPT ![s] = FALSE]
    /\ lobby' = [lobby EXCEPT ![s] = FALSE]
    /\ UNCHANGED <<gameID, roomNum, roomVars, hung>>

(* CS_MAKE_ROOM: the first room without members, or the one of the last    *)
(* CS_MAKE_ROOM when every room has some.                                  *)
MakeRoom(s) ==
    LET r == IF EmptyRooms # {} THEN FirstRoom(EmptyRooms) ELSE roomNum IN
    /\ roomNum' = r
    /\ gameID' = [gameID EXCEPT ![s] = 0]
    /\ lobby' = [lobby EXCEPT ![s] = FALSE]
    /\ status' = [status EXCEPT ![r] = "JOINABLE"]
    /\ members' = [members EXCEPT ![r] = @ \cup {s}]
    /\ UNCHANGED <<connect, accepted, readycount, loadcount, hung>>

\* Entering room r, common to CS_JOIN_ROOM and CS_QUICK_JOIN
Enter(s, r) ==
    LET now == Cardinality(members[r] \cup {s}) IN
    /\ readycount' = [readycount EXCEPT ![r] = 0]
    /\ lobby' = [lobby EXCEPT ![s] = FALSE]
    /\ members' = [members EXCEPT ![r] = @ \cup {s}]
    /\ gameID' = [gameID EXCEPT ![s] = NewGameID(now)]
    /\ status' = [status EXCEPT ![r] = EnteredStatus(now, @)]
    /\ hung' = IF \E d \in members[r] \ {s} : ~connect[d]
               THEN hung \cup {s} ELSE hung
    /\ UNCHANGED <<connect, roomNum, accepted, loadcount>>

(* CS_JOIN_ROOM: refused when the room is FULL, INGAME or ROOM_EMPTY.      *)
JoinRoom(s, r) ==
    IF status[r] \in Refused
    THEN UNCHANGED vars
    ELSE Enter(s, r)

(* CS_QUICK_JOIN: the first JOINABLE room, refused when there is none.     *)
QuickJoin(s) ==
    IF Joinable = {} THEN UNCHANGED vars ELSE Enter(s, FirstRoom(Joinable))

(* CS_READY: count, tell the room, and start the game when the count has   *)
(* reached the number of members.  A broadcast that does not return never  *)
(* comes to the test.                                                      *)
Ready(s, r) ==
    LET start == ~Unreachable(r) /\ AllReady(r) IN
    /\ readycount' = [readycount EXCEPT ![r] = IF start THEN 0 ELSE Inc(@)]
    /\ status' = [status EXCEPT ![r] = IF start THEN "INGAME" ELSE @]
    /\ AfterBroadcast(s, r)
    /\ UNCHANGED <<clientVars, roomNum, members, accepted, loadcount>>

(* CS_LOADCOMPLETE: when as many have loaded as the room has members, the  *)
(* heroes are put on the map of every member.                              *)
LoadComplete(s, r) ==
    /\ loadcount' = [loadcount EXCEPT ![r] = IF AllLoaded(r) THEN 0 ELSE Inc(@)]
    /\ accepted' = [accepted EXCEPT ![r] = AcceptedWith(s, r)]
    /\ IF AllLoaded(r) THEN AfterBroadcast(s, r) ELSE UNCHANGED hung
    /\ UNCHANGED <<clientVars, roomNum, status, members, readycount>>

(* CS_RESULTCONFIRM (LobbyReset): back to the lobby; the last one to leave *)
(* empties the room.                                                       *)
ResultConfirm(s, r) ==
    LET left == MembersWithout(s, r) IN
    /\ lobby' = [lobby EXCEPT ![s] = TRUE]
    /\ gameID' = [gameID EXCEPT ![s] = 0]
    /\ members' = [members EXCEPT ![r] = left]
    /\ IF left = {}
       THEN /\ status' = [status EXCEPT ![r] = "EMPTY"]
            /\ accepted' = [accepted EXCEPT ![r] = {}]
            /\ readycount' = [readycount EXCEPT ![r] = 0]
            /\ loadcount' = [loadcount EXCEPT ![r] = 0]
       ELSE UNCHANGED <<status, accepted, readycount, loadcount>>
    /\ UNCHANGED <<connect, roomNum, hung>>

-----------------------------------------------------------------------------
(* When a client sends what.  In the lobby: make, join, quick join.  In a  *)
(* room: ready, which may still arrive when presses counted twice have     *)
(* started the game; ReadyBound caps the presses.  After SC_ALLREADY,      *)
(* once: loaded.  After SC_RESULT, once the heroes were put on the map:    *)
(* confirm.                                                                *)
ReadyBound == 2 * MaxGamer
Drop(s) == MayDrop /\ DisconnectClient(s)
Make(s) == Served(s) /\ lobby[s] /\ (MayOverflow \/ EmptyRooms # {}) /\ MakeRoom(s)
Join(s, r) == Served(s) /\ lobby[s] /\ JoinRoom(s, r)
Quick(s) == Served(s) /\ lobby[s] /\ QuickJoin(s)
PressReady(s, r) ==
    /\ Served(s) /\ s \in members[r] \ accepted[r] /\ readycount[r] < ReadyBound
    /\ Ready(s, r)
Loaded(s, r) ==
    /\ Served(s) /\ s \in members[r] \ accepted[r] /\ status[r] = "INGAME"
    /\ LoadComplete(s, r)
Confirm(s, r) ==
    /\ Served(s) /\ s \in members[r] /\ status[r] = "INGAME"
    /\ members[r] \subseteq accepted[r]
    /\ ResultConfirm(s, r)

Next ==
    \E s \in Users :
        \/ Accept(s)
        \/ Drop(s)
        \/ Make(s)
        \/ Quick(s)
        \/ \E r \in RoomIds :
              \/ Join(s, r)
              \/ PressReady(s, r)
              \/ Loaded(s, r)
              \/ Confirm(s, r)

Spec == Init /\ [][Next]_vars

\* A client that got SC_ALLREADY loads in its next frame and reports it
\* (CGameFramework::FrameAdvance); a free worker handles the packet.
FairSpec == Spec /\ \A s \in Users, r \in RoomIds : WF_vars(Loaded(s, r))
-----------------------------------------------------------------------------
(* Properties *)

\* Every variable holds what its C++ type and its use allow.
TypeOK ==
    /\ connect \in [Users -> BOOLEAN]
    /\ lobby \in [Users -> BOOLEAN]
    /\ gameID \in [Users -> Byte]
    /\ roomNum \in RoomIds
    /\ status \in [RoomIds -> Status]
    /\ members \in [RoomIds -> SUBSET Users]
    /\ accepted \in [RoomIds -> SUBSET Users]
    /\ readycount \in [RoomIds -> Byte]
    /\ loadcount \in [RoomIds -> Byte]
    /\ hung \in SUBSET Users

\* m_RoomStatus and m_GameID_list are two records of the same fact, written
\* by different handlers: CS_MAKE_ROOM looks for a room by its list, the two
\* joins by its status.  They must never disagree on whether it is in use.
StatusMatchesMembers ==
    \A r \in RoomIds : status[r] = "EMPTY" <=> members[r] = {}

\* A room is offered to CS_JOIN_ROOM and CS_QUICK_JOIN exactly while it has a
\* free place: the test "size() == 8" after an insert cannot be stepped over,
\* not even by a client that takes the slot of one who dropped.
RoomCapacity ==
    \A r \in RoomIds :
        /\ status[r] = "JOINABLE" => Size(r) < MaxGamer
        /\ status[r] = "FULL" => Size(r) = MaxGamer
        /\ Size(r) <= MaxGamer

\* The server holds a player in at most one room, and in none while it also
\* sends that player the lobby's traffic (m_bLobby).
OneRoom ==
    \A s \in Users, r \in RoomIds : s \in members[r] =>
        /\ ~lobby[s]
        /\ \A q \in RoomIds : s \in members[q] => q = r

\* m_GameID picks the hero, the team and the start position of a player, and
\* addresses it in every packet of the match: no two members share one.  It
\* is computed as size() - 1 at each join and never again.
DistinctGameIDs ==
    \A r \in RoomIds : \A s, t \in members[r] :
        gameID[s] = gameID[t] => s = t

\* Only the test "readycount == size()" starts a game.  The count of a
\* waiting room stays below its size, so the test cannot be stepped over
\* although joins reset the count and enlarge the room in between.
ReadyBelowSize ==
    \A r \in RoomIds :
        status[r] \in {"JOINABLE", "FULL"} => readycount[r] < Size(r)

\* m_loadcount and m_AcceptLoading_list count the same arrivals: while some
\* member is missing the count is the size of the list, and it returns to 0
\* exactly when the list has become everyone.
LoadAccounting ==
    \A r \in RoomIds :
        /\ status[r] \in {"JOINABLE", "FULL"} => accepted[r] = {} /\ loadcount[r] = 0
        /\ status[r] = "INGAME" =>
              \/ members[r] \subseteq accepted[r] /\ loadcount[r] = 0
              \/ /\ accepted[r] \subseteq members[r] /\ accepted[r] # members[r]
                 /\ loadcount[r] = Cardinality(accepted[r])

\* A running game is closed: nobody is added, and the room is offered again
\* only after the last player has left it.
GameClosed ==
    [][\A r \in RoomIds : status[r] = "INGAME" =>
          /\ members'[r] \subseteq members[r]
          /\ status'[r] = "INGAME" \/ members'[r] = {}]_vars

\* Every started game gets past the loading screen: the heroes are put on the
\* map after all members loaded.
LoadingFinishes ==
    \A r \in RoomIds : status[r] = "INGAME" ~> members[r] \subseteq accepted[r]

\* "The overlapped receive is always kept up" (comment of Accept_Thread): no
\* connected client is left without a pending receive for good.
ReceiveKeptUp == \A s \in Users : connect[s] => s \notin hung
=============================================================================
