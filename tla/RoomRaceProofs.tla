--------------------------- MODULE RoomRaceProofs ---------------------------
(***************************************************************************)
(* RoomRace for every number of clients, rooms and workers: handlers that  *)
(* overlap keep every room sound while they work on different rooms, and   *)
(* handlers that do not overlap amount to the steps of Rooms.              *)
(***************************************************************************)
EXTENDS RoomRace, RoomsProofs

-----------------------------------------------------------------------------
(* Types.                                                                  *)

MakePlaces == {"make.leave", "make.fill", "make.insert", "make.tell", "make.info"}
JoinPlaces == {"join.enter", "join.insert", "join.number", "join.full",
               "join.tell", "join.info"}
ReadyPlaces == {"ready.store", "ready.test", "ready.start"}
LoadPlaces == {"load.store", "load.insert", "load.test"}
LeavePlaces == {"leave.erase", "leave.test", "leave.clear", "leave.info"}
Places == {"idle"} \cup MakePlaces \cup JoinPlaces \cup ReadyPlaces
          \cup LoadPlaces \cup LeavePlaces
Stages == {"LOBBY", "ROOM", "LOADING", "LOADED", "GAME"}

RaceTypeOK ==
    /\ TypeOK
    /\ task \in [Users -> [at : Places, r : RoomIds, n : Byte]]
    /\ \A s \in Users : task[s].at = "idle" => task[s] = Idle
    /\ stage \in [Users -> Stages]
    /\ myRoom \in [Users -> RoomIds]
    /\ pressed \in [Users -> BOOLEAN]
    /\ list \in [Users -> [RoomIds -> [status : Status, count : Nat]]]
    /\ overlapped \in BOOLEAN /\ collided \in BOOLEAN

\* Nobody drops in RoomRace.
AllConnected == hung = {} /\ \A s \in Users : connect[s]

-----------------------------------------------------------------------------
(* A room that nobody works on.                                            *)

Distinct(r, M) == \A d, e \in M : gameID[d] = gameID[e] => d = e
Show(M, w) == \A d \in M : stage[d] = w
NobodyLoaded(r) == accepted[r] = {} /\ loadcount[r] = 0

Empty(r) == status[r] = "EMPTY" /\ members[r] = {} /\ NobodyLoaded(r) /\ readycount[r] = 0

\* As many as the status says
Counted(r) ==
    /\ NobodyLoaded(r)
    /\ \/ status[r] = "JOINABLE" /\ Size(r) < MaxGamer
       \/ status[r] = "FULL" /\ Size(r) = MaxGamer
Numbered(r) == Distinct(r, members[r]) /\ \A d \in members[r] : gameID[d] < Size(r)
Waits(r) ==
    Counted(r) /\ readycount[r] < Size(r) /\ Numbered(r) /\ Show(members[r], "ROOM")

\* Of a started room the members in S have built the scene.
Loading(r, S) ==
    /\ status[r] = "INGAME" /\ Distinct(r, members[r]) /\ Size(r) <= MaxGamer
    /\ accepted[r] \subseteq members[r]
    /\ \A d \in members[r] : stage[d] = IF d \in S THEN "LOADED" ELSE "LOADING"
Loads(r) ==
    /\ Loading(r, accepted[r]) /\ accepted[r] # members[r]
    /\ loadcount[r] = Cardinality(accepted[r])

Playing(r, M) ==
    /\ status[r] = "INGAME" /\ loadcount[r] = 0 /\ members[r] \subseteq accepted[r]
    /\ Distinct(r, M) /\ Show(M, "GAME")
Plays(r) == Playing(r, members[r]) /\ members[r] # {}

Sound(r) == Empty(r) \/ Waits(r) \/ Loads(r) \/ Plays(r)

-----------------------------------------------------------------------------
(* A room that the handler of s works on.                                  *)

\* Between the insert and the answer of a join
Entered(s, r) ==
    /\ s \in members[r] /\ NobodyLoaded(r) /\ readycount[r] < Size(r)
    /\ Size(r) <= MaxGamer /\ Show(members[r] \ {s}, "ROOM")

MidMake(s, r) ==
    /\ At(s, "make.leave") => Empty(r)
    /\ At(s, "make.fill") => Empty(r) /\ gameID[s] = 0
    /\ At(s, "make.insert") =>
          /\ status[r] = "JOINABLE" /\ members[r] = {} /\ NobodyLoaded(r)
          /\ readycount[r] = 0 /\ gameID[s] = 0
    /\ At(s, "make.tell") =>
          /\ status[r] = "JOINABLE" /\ members[r] = {s} /\ NobodyLoaded(r)
          /\ readycount[r] = 0 /\ gameID[s] = 0
    /\ At(s, "make.info") => Waits(r)

MidJoin(s, r) ==
    /\ task[s].at \in {"join.enter", "join.insert"} => Waits(r) /\ status[r] = "JOINABLE"
    /\ At(s, "join.number") =>
          /\ status[r] = "JOINABLE" /\ Entered(s, r) /\ Distinct(r, members[r] \ {s})
          /\ \A d \in members[r] \ {s} : gameID[d] < Size(r) - 1
    /\ At(s, "join.full") => status[r] = "JOINABLE" /\ Entered(s, r) /\ Numbered(r)
    /\ At(s, "join.tell") => Counted(r) /\ Entered(s, r) /\ Numbered(r)
    /\ At(s, "join.info") => Waits(r)

MidReady(s, r) ==
    /\ At(s, "ready.store") => Waits(r) /\ task[s].n = readycount[r]
    /\ At(s, "ready.test") =>
          Counted(r) /\ readycount[r] <= Size(r) /\ Numbered(r) /\ Show(members[r], "ROOM")
    /\ At(s, "ready.start") =>
          /\ status[r] = "INGAME" /\ NobodyLoaded(r) /\ Size(r) <= MaxGamer
          /\ Distinct(r, members[r]) /\ Show(members[r], "ROOM")

MidLoad(s, r) ==
    /\ task[s].at \in {"load.store", "load.insert"} =>
          Loading(r, accepted[r] \cup {s}) /\ s \notin accepted[r]
    /\ At(s, "load.store") =>
          loadcount[r] = Cardinality(accepted[r]) /\ task[s].n = loadcount[r]
    /\ At(s, "load.insert") => loadcount[r] = Cardinality(accepted[r]) + 1
    /\ At(s, "load.test") =>
          Loading(r, accepted[r]) /\ loadcount[r] = Cardinality(accepted[r])

MidLeave(s, r) ==
    /\ At(s, "leave.erase") => Playing(r, members[r] \ {s})
    /\ At(s, "leave.test") => Playing(r, members[r])
    /\ At(s, "leave.clear") => members[r] = {}

Midway(s, r) == /\ MidMake(s, r) /\ MidJoin(s, r) /\ MidReady(s, r)
                /\ MidLoad(s, r) /\ MidLeave(s, r)

-----------------------------------------------------------------------------
(* Where a client is, and where the server has it.                         *)

WorkRoom(s) == IF Making(task[s]) THEN roomNum ELSE task[s].r
In(s, S) == \A r \in RoomIds : s \in members[r] <=> r \in S

Nowhere(s) == stage[s] = "LOBBY" /\ lobby[s] /\ In(s, {})
Home(s) ==
    /\ At(s, "idle") =>
          \/ Nowhere(s)
          \/ stage[s] # "LOBBY" /\ ~lobby[s] /\ In(s, {myRoom[s]})
    /\ task[s].at \in {"make.leave", "join.enter", "leave.test", "leave.clear", "leave.info"}
          => Nowhere(s)
    /\ task[s].at \in {"make.fill", "make.insert", "join.insert"} =>
          stage[s] = "LOBBY" /\ ~lobby[s] /\ In(s, {})
    /\ task[s].at \in {"make.tell", "join.number", "join.full", "join.tell"} =>
          stage[s] = "LOBBY" /\ ~lobby[s] /\ In(s, {WorkRoom(s)})
    /\ task[s].at \in {"make.info", "join.info"} \cup ReadyPlaces =>
          /\ stage[s] = "ROOM" /\ ~lobby[s]
          /\ myRoom[s] = WorkRoom(s) /\ In(s, {WorkRoom(s)})
    /\ task[s].at \in LoadPlaces =>
          /\ stage[s] = "LOADED" /\ ~lobby[s]
          /\ myRoom[s] = WorkRoom(s) /\ In(s, {WorkRoom(s)})
    /\ At(s, "leave.erase") => stage[s] = "LOBBY" /\ lobby[s] /\ In(s, {WorkRoom(s)})

RoomsSound ==
    \A r \in RoomIds :
        /\ Untouched(r) => Sound(r)
        /\ \A s \in Users : WorksOn(task[s], r) => Midway(s, r)

RaceInv ==
    /\ RaceTypeOK /\ AllConnected
    /\ ~collided /\ ~Collision => RoomsSound /\ \A s \in Users : Home(s)

-----------------------------------------------------------------------------
(* What follows from the places of the handlers.                           *)

LEMMA PlaceOf ==
    ASSUME RaceTypeOK, NEW s \in Users
    PROVE  /\ task[s].at \in Places /\ task[s].r \in RoomIds /\ task[s].n \in Byte
           /\ task[s] = Idle <=> At(s, "idle")
           /\ Making(task[s]) <=> task[s].at \in MakePlaces
  BY DEF RaceTypeOK, At, Idle, Making, MakePlaces

\* Nobody is in two rooms, and a handler works on its client's room, if the
\* client has one.
LEMMA OneHome ==
    ASSUME RaceTypeOK, NEW d \in Users, Home(d)
    PROVE  /\ \A q, r \in RoomIds : d \in members[q] /\ d \in members[r] => q = r
           /\ \A q, r \in RoomIds : WorksOn(task[d], q) /\ d \in members[r] => q = r
<1>1. /\ task[d].at \in Places
      /\ task[d] = Idle <=> At(d, "idle")
  BY PlaceOf
<1>2. /\ In(d, {}) \/ In(d, {myRoom[d]}) \/ In(d, {WorkRoom(d)})
      /\ At(d, "idle") \/ At(d, "leave.info") \/ In(d, {}) \/ In(d, {WorkRoom(d)})
  BY <1>1 DEF Home, Nowhere, Places, MakePlaces, JoinPlaces, ReadyPlaces, LoadPlaces,
              LeavePlaces, At
<1>3. \A q, r \in RoomIds : d \in members[q] /\ d \in members[r] => q = r
  BY <1>2 DEF In
<1>4. ASSUME NEW q \in RoomIds, NEW r \in RoomIds, WorksOn(task[d], q), d \in members[r]
      PROVE  q = r
  <2>1. q = WorkRoom(d) /\ ~At(d, "idle") /\ ~At(d, "leave.info")
    BY <1>1, <1>4 DEF WorksOn, WorkRoom, At
  <2> QED
    BY <1>2, <1>4, <2>1 DEF In
<1> QED
  BY <1>3, <1>4

-----------------------------------------------------------------------------
(* Types are kept.                                                         *)

LEMMA GotoType ==
    ASSUME RaceTypeOK, NEW s \in Users, NEW at \in Places \ {"idle"},
           NEW r \in RoomIds, NEW n \in Byte, Goto(s, at, r, n)
    PROVE  /\ task' \in [Users -> [at : Places, r : RoomIds, n : Byte]]
           /\ \A d \in Users : task'[d].at = "idle" => task'[d] = Idle
           /\ overlapped' \in BOOLEAN /\ collided' \in BOOLEAN
           /\ task'[s] = [at |-> at, r |-> r, n |-> n]
           /\ \A d \in Users \ {s} : task'[d] = task[d]
           /\ task' = [task EXCEPT ![s] = [at |-> at, r |-> r, n |-> n]]
<1>1. overlapped' \in BOOLEAN /\ collided' \in BOOLEAN
  BY Zenon DEF Goto
<1>2. task' = [task EXCEPT ![s] = [at |-> at, r |-> r, n |-> n]]
  BY DEF Goto
<1> QED
  BY <1>1, <1>2 DEF RaceTypeOK

LEMMA ReturnType ==
    ASSUME RaceTypeOK, NEW s \in Users, Return(s)
    PROVE  /\ task' \in [Users -> [at : Places, r : RoomIds, n : Byte]]
           /\ \A d \in Users : task'[d].at = "idle" => task'[d] = Idle
           /\ overlapped' \in BOOLEAN /\ collided' \in BOOLEAN
           /\ task'[s] = Idle
           /\ \A d \in Users \ {s} : task'[d] = task[d]
           /\ task' = [task EXCEPT ![s] = Idle]
<1>1. overlapped' \in BOOLEAN /\ collided' \in BOOLEAN
  BY Zenon DEF Return, RaceTypeOK
<1>2. task' = [task EXCEPT ![s] = Idle]
  BY DEF Return
<1>3. Idle \in [at : Places, r : RoomIds, n : Byte]
  BY RoomsAssumption DEF Idle, Places, RoomIds, Byte
<1> QED
  BY <1>1, <1>2, <1>3 DEF RaceTypeOK

LEMMA Increments ==
    /\ \A n \in Nat : Inc(n) \in Byte /\ NewGameID(n) \in Byte
    /\ \A n \in Nat : n < 255 => Inc(n) = n + 1
    /\ \A n \in Nat : n \in 1 .. 256 => NewGameID(n) = n - 1
  BY DEF Inc, NewGameID, Byte

LEMMA SizeType ==
    ASSUME TypeOK, NEW r \in RoomIds
    PROVE  Size(r) \in Nat /\ IsFiniteSet(members[r])
           /\ (members[r] # {} <=> Size(r) > 0)
  BY SubsetOfUsers, CountZero DEF TypeOK, Size

LEMMA ListType ==
    ASSUME RaceTypeOK, NEW T \in SUBSET RoomIds
    PROVE  SendRoomInfo(T) \in [Users -> [RoomIds -> [status : Status, count : Nat]]]
<1>1. \A r \in RoomIds : Listed(r) \in [status : Status, count : Nat]
  BY SizeType DEF RaceTypeOK, TypeOK, Listed
<1> QED
  BY <1>1 DEF SendRoomInfo, RaceTypeOK

LEMMA PlacesTyped ==
    /\ MakePlaces \cup JoinPlaces \cup ReadyPlaces \cup LoadPlaces \cup LeavePlaces
           = Places \ {"idle"}
    /\ 0 \in RoomIds /\ 0 \in Byte
  BY RoomsAssumption DEF Places, MakePlaces, JoinPlaces, ReadyPlaces, LoadPlaces,
                         LeavePlaces, RoomIds, Byte

LEMMA InsertType ==
    ASSUME TypeOK, NEW s \in Users, NEW r \in RoomIds, Insert(s, r)
    PROVE  members' \in [RoomIds -> SUBSET Users]
<1>1. members' = [members EXCEPT ![r] = members[r] \cup {s}] \/ members' = members
  BY Zenon DEF Insert
<1>2. members[r] \cup {s} \in SUBSET Users
  BY DEF TypeOK
<1> QED
  BY <1>1, <1>2 DEF TypeOK

LEMMA MakeTypes ==
    ASSUME RaceTypeOK, NEW s \in Users,
           \/ ScanMake(s) \/ LeaveMake(s) \/ FillMake(s) \/ InsertMake(s)
           \/ TellMake(s) \/ InfoMake(s)
    PROVE  RaceTypeOK'
<1> USE DEF RaceTypeOK, TypeOK, vars, clientVars, roomVars, client
<1>0. 0 \in RoomIds /\ 0 \in Byte
  BY PlacesTyped
<1>1. CASE ScanMake(s)
  <2>1. MakeScan(s) \in RoomIds
    <3>1. EmptyRooms \in SUBSET RoomIds /\ EmptyRooms # {}
      BY <1>1 DEF ScanMake, EmptyRooms
    <3> QED
      BY <3>1, FirstRoomFound DEF MakeScan
  <2>2. Goto(s, "make.leave", 0, 0) /\ "make.leave" \in Places \ {"idle"}
    BY <1>1 DEF ScanMake, Places, MakePlaces
  <2> QED
    BY <1>0, <1>1, <2>1, <2>2, GotoType DEF ScanMake
<1>2. CASE LeaveMake(s)
  <2>2. Goto(s, "make.fill", 0, 0) /\ "make.fill" \in Places \ {"idle"}
    BY <1>2 DEF LeaveMake, Places, MakePlaces
  <2> QED
    BY <1>0, <1>2, <2>2, GotoType DEF LeaveMake
<1>3. CASE FillMake(s)
  <2>2. Goto(s, "make.insert", 0, 0) /\ "make.insert" \in Places \ {"idle"}
    BY <1>3 DEF FillMake, Places, MakePlaces
  <2> QED
    BY <1>0, <1>3, <2>2, GotoType DEF FillMake, Status
<1>4. CASE InsertMake(s)
  <2>2. Goto(s, "make.tell", 0, 0) /\ "make.tell" \in Places \ {"idle"}
    BY <1>4 DEF InsertMake, Places, MakePlaces
  <2> QED
    <3>1. members' \in [RoomIds -> SUBSET Users]
      BY <1>0, <1>4, InsertType DEF InsertMake
    <3>2. UNCHANGED <<clientVars, roomNum, status, accepted, readycount, loadcount, hung, client>>
      BY <1>4 DEF InsertMake
    <3> QED
      BY <1>0, <2>2, <3>1, <3>2, GotoType
<1>5. CASE TellMake(s)
  <2>2. Goto(s, "make.info", 0, 0) /\ "make.info" \in Places \ {"idle"}
    BY <1>5 DEF TellMake, Places, MakePlaces
  <2>3. NoList \in [RoomIds -> [status : Status, count : Nat]]
    BY DEF NoList, Status
  <2> QED
    BY <1>0, <1>5, <2>2, <2>3, GotoType DEF TellMake, Stages
<1>6. CASE InfoMake(s)
  <2>2. list' \in [Users -> [RoomIds -> [status : Status, count : Nat]]]
    <3>1. {roomNum} \in SUBSET RoomIds
      OBVIOUS
    <3> QED
      BY <1>6, <3>1, ListType DEF InfoMake
  <2> QED
    BY <1>6, <2>2, ReturnType DEF InfoMake
<1> QED
  BY <1>1, <1>2, <1>3, <1>4, <1>5, <1>6

LEMMA JoinTypes ==
    ASSUME RaceTypeOK, NEW s \in Users,
           \/ ScanQuick(s) \/ \E r \in RoomIds : TestJoin(s, r)
           \/ EnterJoin(s) \/ InsertJoin(s) \/ NumberJoin(s) \/ FullJoin(s)
           \/ TellJoin(s) \/ InfoJoin(s)
    PROVE  RaceTypeOK'
<1> USE DEF RaceTypeOK, TypeOK, vars, clientVars, roomVars, client
<1>0. 0 \in RoomIds /\ 0 \in Byte /\ task[s].r \in RoomIds
  BY PlacesTyped
<1>1. CASE ScanQuick(s)
  <2>1. FirstRoom(Joinable) \in RoomIds
    <3>1. Joinable \in SUBSET RoomIds /\ Joinable # {}
      BY <1>1 DEF ScanQuick, Joinable
    <3> QED
      BY <3>1, FirstRoomFound
  <2>2. Goto(s, "join.enter", FirstRoom(Joinable), 0) /\ "join.enter" \in Places \ {"idle"}
    BY <1>1 DEF ScanQuick, Places, JoinPlaces
  <2> QED
    BY <1>0, <1>1, <2>1, <2>2, GotoType DEF ScanQuick
<1>2. ASSUME NEW r \in RoomIds, TestJoin(s, r)
      PROVE  RaceTypeOK'
  <2>2. Goto(s, "join.enter", r, 0) /\ "join.enter" \in Places \ {"idle"}
    BY <1>2 DEF TestJoin, Places, JoinPlaces
  <2> QED
    BY <1>0, <1>2, <2>2, GotoType DEF TestJoin
<1>3. CASE EnterJoin(s)
  <2>2. Goto(s, "join.insert", task[s].r, 0) /\ "join.insert" \in Places \ {"idle"}
    BY <1>3 DEF EnterJoin, Places, JoinPlaces
  <2> QED
    BY <1>0, <1>3, <2>2, GotoType DEF EnterJoin, ResetCount
<1>4. CASE InsertJoin(s)
  <2>2. Goto(s, "join.number", task[s].r, 0) /\ "join.number" \in Places \ {"idle"}
    BY <1>4 DEF InsertJoin, Places, JoinPlaces
  <2> QED
    <3>1. members' \in [RoomIds -> SUBSET Users]
      BY <1>0, <1>4, InsertType DEF InsertJoin
    <3>2. UNCHANGED <<clientVars, roomNum, status, accepted, readycount, loadcount, hung, client>>
      BY <1>4 DEF InsertJoin
    <3> QED
      BY <1>0, <2>2, <3>1, <3>2, GotoType
<1>5. CASE NumberJoin(s)
  <2>1. NewGameID(Size(task[s].r)) \in Byte
    BY <1>0, SizeType, Increments
  <2>2. Goto(s, "join.full", task[s].r, 0) /\ "join.full" \in Places \ {"idle"}
    BY <1>5 DEF NumberJoin, Places, JoinPlaces
  <2> QED
    BY <1>0, <1>5, <2>1, <2>2, GotoType DEF NumberJoin
<1>6. CASE FullJoin(s)
  <2>2. Goto(s, "join.tell", task[s].r, 0) /\ "join.tell" \in Places \ {"idle"}
    BY <1>6 DEF FullJoin, Places, JoinPlaces
  <2>3. EnteredStatus(Size(task[s].r), status[task[s].r]) \in Status
    BY <1>0 DEF EnteredStatus, Status
  <2> QED
    BY <1>0, <1>6, <2>2, <2>3, GotoType DEF FullJoin
<1>7. CASE TellJoin(s)
  <2>2. Goto(s, "join.info", task[s].r, 0) /\ "join.info" \in Places \ {"idle"}
    BY <1>7 DEF TellJoin, Places, JoinPlaces
  <2>3. NoList \in [RoomIds -> [status : Status, count : Nat]]
    BY DEF NoList, Status
  <2>4. pressed' \in [Users -> BOOLEAN]
    BY <1>7, Zenon DEF TellJoin
  <2> QED
    BY <1>0, <1>7, <2>2, <2>3, <2>4, GotoType DEF TellJoin, Stages
<1>8. CASE InfoJoin(s)
  <2>2. list' \in [Users -> [RoomIds -> [status : Status, count : Nat]]]
    <3>1. {task[s].r} \in SUBSET RoomIds
      BY <1>0
    <3> QED
      BY <1>8, <3>1, ListType DEF InfoJoin
  <2> QED
    BY <1>8, <2>2, ReturnType DEF InfoJoin
<1> QED
  BY <1>1, <1>2, <1>3, <1>4, <1>5, <1>6, <1>7, <1>8

LEMMA ReadyTypes ==
    ASSUME RaceTypeOK, NEW s \in Users,
           TakeReady(s) \/ StoreReady(s) \/ TestReady(s) \/ StartReady(s)
    PROVE  RaceTypeOK'
<1> USE DEF RaceTypeOK, TypeOK, vars, clientVars, roomVars, client
<1>0. /\ 0 \in RoomIds /\ 0 \in Byte /\ task[s].r \in RoomIds /\ task[s].n \in Byte
      /\ myRoom[s] \in RoomIds
  BY PlacesTyped
<1>1. CASE TakeReady(s)
  <2>1. readycount[myRoom[s]] \in Byte
    BY <1>0
  <2>2. Goto(s, "ready.store", myRoom[s], readycount[myRoom[s]])
        /\ "ready.store" \in Places \ {"idle"}
    BY <1>1 DEF TakeReady, Places, ReadyPlaces
  <2> QED
    BY <1>0, <1>1, <2>1, <2>2, GotoType DEF TakeReady
<1>2. CASE StoreReady(s)
  <2>1. Inc(task[s].n) \in Byte
    BY <1>0, Increments DEF Byte
  <2>2. Goto(s, "ready.test", task[s].r, 0) /\ "ready.test" \in Places \ {"idle"}
    BY <1>2 DEF StoreReady, Places, ReadyPlaces
  <2> QED
    BY <1>0, <1>2, <2>1, <2>2, GotoType DEF StoreReady
<1>3. CASE TestReady(s)
  <2>1. CASE readycount[task[s].r] = Size(task[s].r)
    <3>1. Goto(s, "ready.start", task[s].r, 0) /\ "ready.start" \in Places \ {"idle"}
      BY <1>3, <2>1 DEF TestReady, Places, ReadyPlaces
    <3> QED
      <4>1. readycount' \in [RoomIds -> Byte] /\ status' \in [RoomIds -> Status]
        BY <1>0, <1>3, <2>1 DEF TestReady, Status
      <4>2. UNCHANGED <<clientVars, roomNum, members, accepted, loadcount, hung, client>>
        BY <1>3 DEF TestReady
      <4> QED
        BY <1>0, <3>1, <4>1, <4>2, GotoType
  <2>2. CASE readycount[task[s].r] # Size(task[s].r)
    BY <1>3, <2>2, ReturnType DEF TestReady
  <2> QED
    BY <2>1, <2>2
<1>4. CASE StartReady(s)
  BY <1>4, ReturnType DEF StartReady, Stages
<1> QED
  BY <1>1, <1>2, <1>3, <1>4

LEMMA LoadTypes ==
    ASSUME RaceTypeOK, NEW s \in Users,
           TakeLoaded(s) \/ StoreLoaded(s) \/ InsertLoaded(s) \/ TestLoaded(s)
    PROVE  RaceTypeOK'
<1> USE DEF RaceTypeOK, TypeOK, vars, clientVars, roomVars, client
<1>0. /\ 0 \in RoomIds /\ 0 \in Byte /\ task[s].r \in RoomIds /\ task[s].n \in Byte
      /\ myRoom[s] \in RoomIds
  BY PlacesTyped
<1>1. CASE TakeLoaded(s)
  <2>1. loadcount[myRoom[s]] \in Byte
    BY <1>0
  <2>2. Goto(s, "load.store", myRoom[s], loadcount[myRoom[s]])
        /\ "load.store" \in Places \ {"idle"}
    BY <1>1 DEF TakeLoaded, Places, LoadPlaces
  <2> QED
    BY <1>0, <1>1, <2>1, <2>2, GotoType DEF TakeLoaded, Stages
<1>2. CASE StoreLoaded(s)
  <2>1. Inc(task[s].n) \in Byte
    BY <1>0, Increments DEF Byte
  <2>2. Goto(s, "load.insert", task[s].r, 0) /\ "load.insert" \in Places \ {"idle"}
    BY <1>2 DEF StoreLoaded, Places, LoadPlaces
  <2> QED
    BY <1>0, <1>2, <2>1, <2>2, GotoType DEF StoreLoaded
<1>3. CASE InsertLoaded(s)
  <2>2. Goto(s, "load.test", task[s].r, 0) /\ "load.test" \in Places \ {"idle"}
    BY <1>3 DEF InsertLoaded, Places, LoadPlaces
  <2> QED
    <3>1. accepted' \in [RoomIds -> SUBSET Users]
      <4>1. \/ accepted' = [accepted EXCEPT ![task[s].r] = AcceptedWith(s, task[s].r)]
            \/ accepted' = accepted
        BY <1>3, Zenon DEF InsertLoaded
      <4>2. AcceptedWith(s, task[s].r) \in SUBSET Users
        BY <1>0 DEF AcceptedWith
      <4> QED
        BY <1>0, <4>1, <4>2
    <3>2. UNCHANGED <<clientVars, roomNum, status, members, readycount, loadcount, hung, client>>
      BY <1>3 DEF InsertLoaded
    <3> QED
      BY <1>0, <2>2, <3>1, <3>2, GotoType
<1>4. CASE TestLoaded(s)
  <2>1. pressed' \in [Users -> BOOLEAN]
    BY <1>4, Zenon DEF TestLoaded
  <2>2. loadcount' \in [RoomIds -> Byte]
    BY <1>0, <1>4 DEF TestLoaded
  <2>3. stage' \in [Users -> Stages]
    BY <1>4 DEF TestLoaded, Stages
  <2> QED
    BY <1>4, <2>1, <2>2, <2>3, ReturnType DEF TestLoaded
<1> QED
  BY <1>1, <1>2, <1>3, <1>4

LEMMA LeaveTypes ==
    ASSUME RaceTypeOK, NEW s \in Users,
           \/ TakeConfirm(s) \/ EraseConfirm(s) \/ TestConfirm(s)
           \/ ClearConfirm(s) \/ InfoConfirm(s)
    PROVE  RaceTypeOK'
<1> USE DEF RaceTypeOK, TypeOK, vars, clientVars, roomVars, client
<1>0. 0 \in RoomIds /\ 0 \in Byte /\ task[s].r \in RoomIds /\ myRoom[s] \in RoomIds
  BY PlacesTyped
<1>1. CASE TakeConfirm(s)
  <2>2. Goto(s, "leave.erase", myRoom[s], 0) /\ "leave.erase" \in Places \ {"idle"}
    BY <1>1 DEF TakeConfirm, Places, LeavePlaces
  <2> QED
    BY <1>0, <1>1, <2>2, GotoType DEF TakeConfirm, Stages
<1>2. CASE EraseConfirm(s)
  <2>2. Goto(s, "leave.test", task[s].r, 0) /\ "leave.test" \in Places \ {"idle"}
    BY <1>2 DEF EraseConfirm, Places, LeavePlaces
  <2> QED
    BY <1>0, <1>2, <2>2, GotoType DEF EraseConfirm, MembersWithout
<1>3. CASE TestConfirm(s)
  <2>1. PICK at \in {"leave.clear", "leave.info"} : Goto(s, at, task[s].r, 0)
    BY <1>3 DEF TestConfirm
  <2>2. at \in Places \ {"idle"}
    BY DEF Places, LeavePlaces
  <2> QED
    BY <1>0, <1>3, <2>1, <2>2, GotoType DEF TestConfirm
<1>4. CASE ClearConfirm(s)
  <2>2. Goto(s, "leave.info", task[s].r, 0) /\ "leave.info" \in Places \ {"idle"}
    BY <1>4 DEF ClearConfirm, Places, LeavePlaces
  <2> QED
    BY <1>0, <1>4, <2>2, GotoType DEF ClearConfirm, Status
<1>5. CASE InfoConfirm(s)
  <2>2. list' \in [Users -> [RoomIds -> [status : Status, count : Nat]]]
    BY <1>5, ListType DEF InfoConfirm
  <2> QED
    BY <1>5, <2>2, ReturnType DEF InfoConfirm
<1> QED
  BY <1>1, <1>2, <1>3, <1>4, <1>5

LEMMA RaceTypeStep == RaceTypeOK /\ [RaceNext]_raceVars => RaceTypeOK'
<1> SUFFICES ASSUME RaceTypeOK, [RaceNext]_raceVars PROVE RaceTypeOK'
  OBVIOUS
<1>1. CASE RaceNext
  BY <1>1, MakeTypes, JoinTypes, ReadyTypes, LoadTypes, LeaveTypes DEF RaceNext
<1>2. CASE UNCHANGED raceVars
  BY <1>2 DEF RaceTypeOK, TypeOK, raceVars, vars, client
<1> QED
  BY <1>1, <1>2

LEMMA ConnectedStep == AllConnected /\ [RaceNext]_raceVars => AllConnected'
<1> SUFFICES ASSUME AllConnected, [RaceNext]_raceVars PROVE AllConnected'
  OBVIOUS
<1>1. UNCHANGED <<connect, hung>>
  <2> USE DEF vars, clientVars, raceVars
  <2>1. ASSUME NEW s \in Users,
               \/ ScanMake(s) \/ LeaveMake(s) \/ FillMake(s) \/ InsertMake(s)
               \/ TellMake(s) \/ InfoMake(s)
        PROVE  UNCHANGED <<connect, hung>>
    BY <2>1 DEF ScanMake, LeaveMake, FillMake, InsertMake, TellMake, InfoMake
  <2>2. ASSUME NEW s \in Users,
               \/ ScanQuick(s) \/ \E r \in RoomIds : TestJoin(s, r)
               \/ EnterJoin(s) \/ InsertJoin(s) \/ NumberJoin(s) \/ FullJoin(s)
               \/ TellJoin(s) \/ InfoJoin(s)
        PROVE  UNCHANGED <<connect, hung>>
    BY <2>2 DEF ScanQuick, TestJoin, EnterJoin, InsertJoin, NumberJoin, FullJoin,
                TellJoin, InfoJoin
  <2>3. ASSUME NEW s \in Users,
               \/ TakeReady(s) \/ StoreReady(s) \/ TestReady(s) \/ StartReady(s)
               \/ TakeLoaded(s) \/ StoreLoaded(s) \/ InsertLoaded(s) \/ TestLoaded(s)
        PROVE  UNCHANGED <<connect, hung>>
    BY <2>3 DEF TakeReady, StoreReady, TestReady, StartReady, TakeLoaded, StoreLoaded,
                InsertLoaded, TestLoaded
  <2>4. ASSUME NEW s \in Users,
               \/ TakeConfirm(s) \/ EraseConfirm(s) \/ TestConfirm(s)
               \/ ClearConfirm(s) \/ InfoConfirm(s)
        PROVE  UNCHANGED <<connect, hung>>
    BY <2>4 DEF TakeConfirm, EraseConfirm, TestConfirm, ClearConfirm, InfoConfirm
  <2> QED
    BY <2>1, <2>2, <2>3, <2>4 DEF RaceNext
<1> QED
  BY <1>1 DEF AllConnected

-----------------------------------------------------------------------------
(* What a step leaves alone.                                               *)

Homes == \A d \in Users : Home(d)

\* A state without a collision so far
Apart == RaceTypeOK /\ AllConnected /\ ~Collision /\ RoomsSound /\ Homes

\* The handler of s takes a step in room q and in no other.
Frame(s, q) ==
    /\ \A r \in RoomIds \ {q} :
          /\ status'[r] = status[r] /\ members'[r] = members[r]
          /\ accepted'[r] = accepted[r] /\ readycount'[r] = readycount[r]
          /\ loadcount'[r] = loadcount[r]
          /\ s \notin members[r] /\ ~WorksOn(task[s], r) /\ ~WorksOn(task[s], r)'
    /\ \A d \in Users \ {s} :
          /\ task'[d] = task[d] /\ gameID'[d] = gameID[d]
          /\ Making(task[d]) => roomNum' = roomNum
          /\ stage'[d] = stage[d] \/ (q \in RoomIds /\ d \in members[q])

LEMMA SameSound ==
    ASSUME NEW r \in RoomIds, Sound(r),
           status'[r] = status[r], members'[r] = members[r],
           accepted'[r] = accepted[r], readycount'[r] = readycount[r],
           loadcount'[r] = loadcount[r],
           \A d \in members[r] : gameID'[d] = gameID[d] /\ stage'[d] = stage[d]
    PROVE  Sound(r)'
<1>1. Size(r)' = Size(r)
  BY DEF Size
<1>2. CASE Empty(r)
  BY <1>2 DEF Empty, NobodyLoaded, Sound
<1>3. CASE Waits(r)
  BY <1>1, <1>3 DEF Waits, Counted, NobodyLoaded, Numbered, Distinct, Show, Sound
<1>4. CASE Loads(r)
  BY <1>1, <1>4 DEF Loads, Loading, Distinct, Sound
<1>5. CASE Plays(r)
  BY <1>5 DEF Plays, Playing, Distinct, Show, Sound
<1> QED
  BY <1>2, <1>3, <1>4, <1>5 DEF Sound

LEMMA SameMidway ==
    ASSUME NEW r \in RoomIds, NEW s \in Users, Midway(s, r),
           status'[r] = status[r], members'[r] = members[r],
           accepted'[r] = accepted[r], readycount'[r] = readycount[r],
           loadcount'[r] = loadcount[r],
           task'[s] = task[s], gameID'[s] = gameID[s],
           \A d \in members[r] : gameID'[d] = gameID[d] /\ stage'[d] = stage[d]
    PROVE  Midway(s, r)'
<1>1. Size(r)' = Size(r) /\ \A at : At(s, at)' <=> At(s, at)
  BY DEF Size, At
<1>2. MidMake(s, r)'
  BY <1>1 DEF Midway, MidMake, Empty, NobodyLoaded, Waits, Counted, Numbered, Distinct, Show
<1>3. MidJoin(s, r)'
  BY <1>1 DEF Midway, MidJoin, NobodyLoaded, Waits, Counted, Numbered, Distinct, Show,
              Entered
<1>4. MidReady(s, r)'
  BY <1>1 DEF Midway, MidReady, NobodyLoaded, Waits, Counted, Numbered, Distinct, Show
<1>5. MidLoad(s, r)'
  BY <1>1 DEF Midway, MidLoad, Loading, Distinct
<1>6. MidLeave(s, r)'
  BY <1>1 DEF Midway, MidLeave, Playing, Distinct, Show
<1> QED
  BY <1>2, <1>3, <1>4, <1>5, <1>6 DEF Midway

LEMMA SoundStep ==
    ASSUME Apart, ~Collision', NEW s \in Users, NEW q \in Int, Frame(s, q),
           q \in RoomIds =>
              \/ WorksOn(task[s], q)' /\ Midway(s, q)'
              \/ WorksOn(task[s], q) /\ ~WorksOn(task[s], q)' /\ Sound(q)'
    PROVE  RoomsSound'
<1>1. ASSUME NEW r \in RoomIds, NEW d \in Users \ {s}
      PROVE  WorksOn(task[d], r)' <=> WorksOn(task[d], r)
  BY <1>1 DEF Frame, WorksOn, Making
<1>2. ASSUME NEW r \in RoomIds \ {q}, NEW d \in members[r]
      PROVE  d \in Users \ {s} /\ gameID'[d] = gameID[d] /\ stage'[d] = stage[d]
  <2>1. d \in Users \ {s}
    BY DEF Frame, Apart, RaceTypeOK, TypeOK
  <2>2. ~(q \in RoomIds /\ d \in members[q])
    BY <2>1, OneHome DEF Apart, Homes
  <2> QED
    BY <2>1, <2>2 DEF Frame
<1>3. ASSUME NEW r \in RoomIds \ {q}
      PROVE  /\ Untouched(r)' => Sound(r)'
             /\ \A d \in Users : WorksOn(task[d], r)' => Midway(d, r)'
  <2>1. ASSUME Untouched(r)' PROVE Sound(r)'
    <3>1. Untouched(r)
      BY <1>1, <2>1 DEF Untouched, Frame
    <3>2. Sound(r)
      BY <3>1 DEF Apart, RoomsSound
    <3> QED
      BY <1>2, <3>2, SameSound DEF Frame
  <2>2. ASSUME NEW d \in Users, WorksOn(task[d], r)' PROVE Midway(d, r)'
    <3>1. d \in Users \ {s}
      BY <2>2 DEF Frame
    <3>2. Midway(d, r)
      BY <1>1, <2>2, <3>1 DEF Apart, RoomsSound
    <3> QED
      BY <1>2, <3>1, <3>2, SameMidway DEF Frame
  <2> QED
    BY <2>1, <2>2
<1>4. ASSUME q \in RoomIds
      PROVE  /\ Untouched(q)' => Sound(q)'
             /\ \A d \in Users : WorksOn(task[d], q)' => Midway(d, q)'
  <2>1. CASE WorksOn(task[s], q)' /\ Midway(s, q)'
    <3>1. \A d \in Users : WorksOn(task[d], q)' => d = s
      BY <1>4, <2>1 DEF Collision
    <3>2. ~Untouched(q)'
      BY <2>1 DEF Untouched
    <3> QED
      BY <2>1, <3>1, <3>2
  <2>2. CASE WorksOn(task[s], q) /\ ~WorksOn(task[s], q)' /\ Sound(q)'
    <3>1. \A d \in Users : WorksOn(task[d], q) => d = s
      BY <1>4, <2>2 DEF Collision, Apart
    <3>2. \A d \in Users : ~WorksOn(task[d], q)'
      BY <1>1, <1>4, <2>2, <3>1
    <3> QED
      BY <2>2, <3>2
  <2> QED
    BY <1>4, <2>1, <2>2
<1> QED
  BY <1>3, <1>4 DEF RoomsSound

\* A client that a step does not concern
LEMMA HomeSame ==
    ASSUME RaceTypeOK, NEW d \in Users, Home(d), task'[d] = task[d],
           stage'[d] = stage[d], lobby'[d] = lobby[d], myRoom'[d] = myRoom[d],
           Making(task[d]) => roomNum' = roomNum,
           \A r \in RoomIds : d \in members'[r] <=> d \in members[r]
    PROVE  Home(d)'
<1>1. \A at : At(d, at)' <=> At(d, at)
  BY DEF At
<1>2. WorkRoom(d)' = WorkRoom(d)
  BY DEF WorkRoom, Making
<1>3. Nowhere(d)' <=> Nowhere(d)
  BY DEF Nowhere, In
<1> QED
  BY <1>1, <1>2, <1>3 DEF Home, In

\* The other members of a room somebody works on wait.
LEMMA OthersIdle ==
    ASSUME Apart, NEW s \in Users, NEW q \in RoomIds, WorksOn(task[s], q),
           NEW d \in members[q], d # s
    PROVE  d \in Users /\ At(d, "idle") /\ stage[d] # "LOBBY" /\ ~lobby[d]
           /\ In(d, {myRoom[d]}) /\ myRoom[d] = q
<1>1. d \in Users /\ Home(d)
  BY DEF Apart, RaceTypeOK, TypeOK, Homes
<1>2. \A r \in RoomIds : ~WorksOn(task[d], r)
  BY <1>1, OneHome DEF Apart, Collision
<1>3. At(d, "idle") \/ At(d, "leave.info")
  <2>1. task[d].r \in RoomIds /\ roomNum \in RoomIds
    BY <1>1, PlaceOf DEF Apart, RaceTypeOK, TypeOK
  <2> QED
    BY <1>1, <1>2, <2>1, PlaceOf DEF WorksOn, At, Apart
<1>4. ~Nowhere(d)
  BY <1>1 DEF Nowhere, In
<1>5. At(d, "idle")
  BY <1>1, <1>3, <1>4 DEF Home, At
<1>6. stage[d] # "LOBBY" /\ ~lobby[d] /\ In(d, {myRoom[d]})
  BY <1>1, <1>4, <1>5 DEF Home
<1>7. myRoom[d] = q
  BY <1>6 DEF In
<1> QED
  BY <1>1, <1>5, <1>6, <1>7

\* A room that a handler takes up was untouched.
LEMMA TakesFree ==
    ASSUME Apart, ~Collision', NEW s \in Users, NEW q \in RoomIds, Frame(s, q),
           WorksOn(task[s], q)', ~WorksOn(task[s], q)
    PROVE  Sound(q)
<1>1. \A d \in Users \ {s} : WorksOn(task[d], q)' <=> WorksOn(task[d], q)
  BY DEF Frame, WorksOn, Making
<1>2. Untouched(q)
  BY <1>1 DEF Untouched, Collision
<1> QED
  BY <1>2 DEF Apart, RoomsSound

\* A step of s that may change room q, but of the others at most the scene
\* that members of q show
Local(s, q) ==
    /\ \A r \in RoomIds \ {q} :
          /\ status'[r] = status[r] /\ members'[r] = members[r]
          /\ accepted'[r] = accepted[r] /\ readycount'[r] = readycount[r]
          /\ loadcount'[r] = loadcount[r]
    /\ \A d \in Users \ {s} :
          /\ task'[d] = task[d] /\ gameID'[d] = gameID[d]
          /\ lobby'[d] = lobby[d] /\ myRoom'[d] = myRoom[d]
          /\ d \in members'[q] <=> d \in members[q]
          /\ stage'[d] = stage[d] \/ (d \in members[q] /\ stage'[d] # "LOBBY")

\* The handler of s goes on in the room it worked on, or leaves it.
LEMMA StepHere ==
    ASSUME Apart, ~Collision', NEW s \in Users, NEW q \in RoomIds,
           WorksOn(task[s], q), Local(s, q), roomNum' = roomNum,
           \A r \in RoomIds : WorksOn(task[s], r)' => WorksOn(task[s], r),
           WorksOn(task[s], q)' => Midway(s, q)',
           ~WorksOn(task[s], q)' => Sound(q)',
           Home(s)'
    PROVE  RoomsSound' /\ Homes'
<1>1. \A r \in RoomIds : WorksOn(task[s], r) => r = q
  BY DEF WorksOn
<1>2. \A r \in RoomIds \ {q} : s \notin members[r]
  BY OneHome DEF Apart, Homes
<1>3. Frame(s, q)
  BY <1>1, <1>2 DEF Frame, Local
<1>4. RoomsSound'
  <2>1. q \in Int
    BY RoomsAssumption DEF RoomIds
  <2> QED
    BY <1>3, <2>1, SoundStep
<1>5. ASSUME NEW d \in Users \ {s}
      PROVE  Home(d)'
  <2>1. \A r \in RoomIds : d \in members'[r] <=> d \in members[r]
    BY DEF Local
  <2>2. CASE stage'[d] = stage[d]
    BY <2>1, <2>2, HomeSame DEF Local, Apart, Homes
  <2>3. CASE d \in members[q] /\ stage'[d] # "LOBBY"
    <3>1. /\ At(d, "idle") /\ ~lobby[d]
          /\ In(d, {myRoom[d]}) /\ myRoom[d] = q
      BY <2>3, OthersIdle
    <3>2. At(d, "idle")' /\ ~lobby'[d]
      BY <3>1 DEF Local, At
    <3>3. In(d, {myRoom[d]})'
      BY <2>1, <3>1 DEF In, Local
    <3> QED
      BY <2>3, <3>2, <3>3 DEF Home, At, ReadyPlaces, LoadPlaces
  <2> QED
    BY <2>2, <2>3 DEF Local
<1> QED
  BY <1>4, <1>5 DEF Homes

\* A handler begins, and takes room q up.
LEMMA StepTakes ==
    ASSUME Apart, ~Collision', NEW s \in Users, NEW q \in RoomIds,
           At(s, "idle"), UNCHANGED roomVars,
           \A d \in Users \ {s} :
              /\ task'[d] = task[d] /\ gameID'[d] = gameID[d] /\ lobby'[d] = lobby[d]
              /\ myRoom'[d] = myRoom[d] /\ stage'[d] = stage[d],
           roomNum' = roomNum \/ Making(task'[s]),
           \A r \in RoomIds : WorksOn(task[s], r)' <=> r = q,
           \A r \in RoomIds \ {q} : s \notin members[r],
           Sound(q) => Midway(s, q)',
           Home(s)'
    PROVE  RoomsSound' /\ Homes'
<1>1. \A r \in RoomIds : ~WorksOn(task[s], r)
  BY PlaceOf DEF Apart, WorksOn
<1>2. \A d \in Users \ {s} : Making(task[d]) => roomNum' = roomNum
  BY DEF Collision, Making
<1>3. Frame(s, q)
  BY <1>1, <1>2 DEF Frame, roomVars
<1>4. Midway(s, q)'
  BY <1>1, <1>3, TakesFree
<1>5. RoomsSound'
  <2>1. q \in Int
    BY RoomsAssumption DEF RoomIds
  <2> QED
    BY <1>3, <1>4, <2>1, SoundStep
<1>6. \A d \in Users \ {s} : Home(d)'
  BY <1>2, HomeSame DEF roomVars, Apart, Homes
<1> QED
  BY <1>5, <1>6 DEF Homes

\* Where a handler is when it is at work
LEMMA Here ==
    ASSUME Apart, NEW s \in Users, ~At(s, "idle"), ~At(s, "leave.info")
    PROVE  /\ WorkRoom(s) \in RoomIds /\ WorksOn(task[s], WorkRoom(s))
           /\ Midway(s, WorkRoom(s)) /\ Home(s)
           /\ \A r \in RoomIds \ {WorkRoom(s)} : s \notin members[r]
<1>1. WorkRoom(s) \in RoomIds
  BY PlaceOf DEF Apart, RaceTypeOK, TypeOK, WorkRoom
<1>2. WorksOn(task[s], WorkRoom(s))
  BY <1>1, PlaceOf DEF Apart, WorksOn, WorkRoom, At
<1>3. Home(s) /\ Midway(s, WorkRoom(s))
  BY <1>1, <1>2 DEF Apart, RoomsSound, Homes
<1>4. \A r \in RoomIds \ {WorkRoom(s)} : s \notin members[r]
  BY <1>1, <1>2, <1>3, OneHome DEF Apart
<1> QED
  BY <1>1, <1>2, <1>3, <1>4

-----------------------------------------------------------------------------
(* CS_MAKE_ROOM statement by statement.                                    *)

\* What a sound room is, by what can be seen of it
LEMMA SoundRoom ==
    ASSUME RaceTypeOK, NEW r \in RoomIds, Sound(r)
    PROVE  /\ members[r] = {} => Empty(r)
           /\ status[r] = "JOINABLE" => Waits(r)
           /\ \A d \in members[r] : stage[d] = "ROOM" => Waits(r)
           /\ \A d \in members[r] : stage[d] = "LOADING" => Loads(r) /\ d \notin accepted[r]
           /\ \A d \in members[r] : stage[d] = "GAME" => Plays(r)
<1>1. CASE Empty(r)
  BY <1>1 DEF Empty
<1>2. CASE Waits(r)
  <2>1. members[r] # {}
    <3>1. TypeOK
      BY DEF RaceTypeOK
    <3>2. readycount[r] \in 0 .. 255 /\ readycount[r] < Size(r)
      BY <1>2, <3>1 DEF TypeOK, Byte, Waits
    <3> QED
      BY <3>1, <3>2, SizeType
  <2> QED
    BY <1>2, <2>1 DEF Waits, Counted, Show
<1>3. CASE Loads(r)
  BY <1>3 DEF Loads, Loading
<1>4. CASE Plays(r)
  BY <1>4 DEF Plays, Playing, Show
<1> QED
  BY <1>1, <1>2, <1>3, <1>4 DEF Sound

LEMMA ScanMakeSafe ==
    ASSUME Apart, ~Collision', NEW s \in Users, ScanMake(s)
    PROVE  RoomsSound' /\ Homes'
<1>1. PICK q \in RoomIds : q = roomNum' /\ members[q] = {}
  <2>1. EmptyRooms \in SUBSET RoomIds /\ EmptyRooms # {}
    BY DEF ScanMake, EmptyRooms
  <2>2. MakeScan(s) \in EmptyRooms
    BY <2>1, FirstRoomFound DEF MakeScan
  <2> QED
    BY <2>1, <2>2 DEF ScanMake, EmptyRooms
<1>2. /\ At(s, "idle") /\ stage[s] = "LOBBY" /\ Home(s)
      /\ UNCHANGED <<clientVars, roomVars, client>>
      /\ RaceTypeOK
  BY DEF ScanMake, Takes, Idle, At, Apart, Homes
<1>3. /\ task'[s] = [at |-> "make.leave", r |-> 0, n |-> 0]
      /\ \A d \in Users \ {s} : task'[d] = task[d]
  BY <1>2, GotoType, PlacesTyped DEF ScanMake, MakePlaces
<1>4. Nowhere(s)
  BY <1>2 DEF Home
<1>5. \A r \in RoomIds : WorksOn(task[s], r)' <=> r = q
  BY <1>1, <1>3 DEF WorksOn, Idle, Making
<1>6. ASSUME Sound(q) PROVE Midway(s, q)'
  <2>1. Empty(q)
    BY <1>1, <1>2, <1>6, SoundRoom
  <2>2. Empty(q)'
    BY <1>2, <2>1 DEF Empty, NobodyLoaded, roomVars
  <2> QED
    BY <1>3, <2>2 DEF Midway, MidMake, MidJoin, MidReady, MidLoad, MidLeave, At
<1>7. Home(s)'
  BY <1>2, <1>3, <1>4 DEF Home, Nowhere, In, At, clientVars, roomVars, client,
                          ReadyPlaces, LoadPlaces
<1> QED
  BY <1>1, <1>2, <1>3, <1>4, <1>5, <1>6, <1>7, StepTakes
     DEF clientVars, client, Making, Nowhere, In

LEMMA LeaveMakeSafe ==
    ASSUME Apart, ~Collision', NEW s \in Users, LeaveMake(s)
    PROVE  RoomsSound' /\ Homes'
<1>1. PICK q \in RoomIds : q = roomNum
  BY DEF Apart, RaceTypeOK, TypeOK
<1>2. /\ At(s, "make.leave") /\ WorkRoom(s) = q /\ RaceTypeOK
      /\ UNCHANGED <<connect, roomNum, roomVars, hung, client>>
      /\ gameID' = [gameID EXCEPT ![s] = 0] /\ lobby' = [lobby EXCEPT ![s] = FALSE]
  BY <1>1 DEF LeaveMake, At, WorkRoom, Making, Apart
<1>3. /\ task'[s] = [at |-> "make.fill", r |-> 0, n |-> 0]
      /\ \A d \in Users \ {s} : task'[d] = task[d]
  BY <1>2, GotoType, PlacesTyped DEF LeaveMake, MakePlaces
<1>4. /\ WorksOn(task[s], q) /\ Midway(s, q) /\ Home(s)
      /\ \A r \in RoomIds \ {q} : s \notin members[r]
  BY <1>2, Here DEF At
<1>5. Empty(q) /\ Nowhere(s)
  BY <1>2, <1>4 DEF Midway, MidMake, Home, At
<1>6. Local(s, q)
  BY <1>2, <1>3 DEF Local, roomVars, client, RaceTypeOK, TypeOK
<1>7. \A r \in RoomIds : WorksOn(task[s], r)' <=> r = q
  BY <1>1, <1>2, <1>3 DEF WorksOn, Idle, Making
<1>8. Midway(s, q)'
  <2>1. Empty(q)' /\ gameID'[s] = 0
    BY <1>2, <1>5 DEF Empty, NobodyLoaded, roomVars, RaceTypeOK, TypeOK
  <2> QED
    BY <1>3, <2>1 DEF Midway, MidMake, MidJoin, MidReady, MidLoad, MidLeave, At
<1>9. Home(s)'
  <2>1. ~lobby'[s]
    BY <1>2 DEF RaceTypeOK, TypeOK
  <2> QED
    BY <1>2, <1>3, <1>5, <2>1 DEF Home, Nowhere, In, At, roomVars, client,
                                  ReadyPlaces, LoadPlaces
<1> QED
  BY <1>2, <1>4, <1>6, <1>7, <1>8, <1>9, StepHere

LEMMA FillMakeSafe ==
    ASSUME Apart, ~Collision', NEW s \in Users, FillMake(s)
    PROVE  RoomsSound' /\ Homes'
<1>1. PICK q \in RoomIds : q = roomNum
  BY DEF Apart, RaceTypeOK, TypeOK
<1>2. /\ At(s, "make.fill") /\ WorkRoom(s) = q /\ RaceTypeOK
      /\ status' = [status EXCEPT ![q] = "JOINABLE"]
      /\ UNCHANGED <<clientVars, roomNum, members, accepted, readycount, loadcount, client>>
  BY <1>1 DEF FillMake, At, WorkRoom, Making, Apart
<1>3. /\ task'[s] = [at |-> "make.insert", r |-> 0, n |-> 0]
      /\ \A d \in Users \ {s} : task'[d] = task[d]
  BY <1>2, GotoType, PlacesTyped DEF FillMake, MakePlaces
<1>4. /\ WorksOn(task[s], q) /\ Midway(s, q) /\ Home(s)
      /\ \A r \in RoomIds \ {q} : s \notin members[r]
  BY <1>2, Here DEF At
<1>5. Empty(q) /\ gameID[s] = 0
  BY <1>2, <1>4 DEF Midway, MidMake
<1>6. Local(s, q)
  BY <1>2, <1>3 DEF Local, clientVars, client, RaceTypeOK, TypeOK
<1>7. \A r \in RoomIds : WorksOn(task[s], r)' <=> r = q
  BY <1>1, <1>2, <1>3 DEF WorksOn, Idle, Making
<1>8. Midway(s, q)'
  <2>1. status'[q] = "JOINABLE"
    BY <1>2 DEF RaceTypeOK, TypeOK
  <2> QED
    BY <1>2, <1>3, <1>5, <2>1
       DEF Midway, MidMake, MidJoin, MidReady, MidLoad, MidLeave, At, Empty, NobodyLoaded,
           clientVars
<1>9. Home(s)'
  BY <1>2, <1>3, <1>4 DEF Home, In, At, clientVars, client, ReadyPlaces, LoadPlaces
<1> QED
  BY <1>2, <1>4, <1>6, <1>7, <1>8, <1>9, StepHere

\* No other thread is inside the same set without a collision.
LEMMA InsertAlone ==
    ASSUME Apart, NEW s \in Users, NEW r \in RoomIds, WorksOn(task[s], r), Insert(s, r)
    PROVE  members' = [members EXCEPT ![r] = members[r] \cup {s}]
<1>1. \A d \in Users \ {s} : ~WorksOn(task[d], r)
  BY DEF Apart, Collision
<1>2. ~Busy(s, MemberPlaces, r)
  BY <1>1 DEF Busy, Running
<1> QED
  BY <1>2, Zenon DEF Insert

LEMMA InsertMakeSafe ==
    ASSUME Apart, ~Collision', NEW s \in Users, InsertMake(s)
    PROVE  RoomsSound' /\ Homes'
<1>1. PICK q \in RoomIds : q = roomNum
  BY DEF Apart, RaceTypeOK, TypeOK
<1>2. /\ At(s, "make.insert") /\ WorkRoom(s) = q /\ RaceTypeOK
      /\ UNCHANGED <<clientVars, roomNum, status, accepted, readycount, loadcount, client>>
  BY <1>1 DEF InsertMake, At, WorkRoom, Making, Apart
<1>3. /\ task'[s] = [at |-> "make.tell", r |-> 0, n |-> 0]
      /\ \A d \in Users \ {s} : task'[d] = task[d]
  BY <1>2, GotoType, PlacesTyped DEF InsertMake, MakePlaces
<1>4. /\ WorksOn(task[s], q) /\ Midway(s, q) /\ Home(s)
      /\ \A r \in RoomIds \ {q} : s \notin members[r]
  BY <1>2, Here DEF At
<1>5. members' = [members EXCEPT ![q] = members[q] \cup {s}]
  BY <1>1, <1>4, InsertAlone DEF InsertMake
<1>6. Local(s, q)
  BY <1>2, <1>3, <1>5 DEF Local, clientVars, client, RaceTypeOK, TypeOK
<1>7. \A r \in RoomIds : WorksOn(task[s], r)' <=> r = q
  BY <1>1, <1>2, <1>3 DEF WorksOn, Idle, Making
<1>8. Midway(s, q)'
  <2>1. /\ status[q] = "JOINABLE" /\ members[q] = {} /\ NobodyLoaded(q)
        /\ readycount[q] = 0 /\ gameID[s] = 0
    BY <1>2, <1>4 DEF Midway, MidMake
  <2>2. members'[q] = {s}
    BY <1>2, <1>5, <2>1 DEF RaceTypeOK, TypeOK
  <2> QED
    BY <1>2, <1>3, <2>1, <2>2
       DEF Midway, MidMake, MidJoin, MidReady, MidLoad, MidLeave, At, NobodyLoaded,
           clientVars
<1>9. Home(s)'
  <2>1. In(s, {q})'
    BY <1>2, <1>4, <1>5 DEF In, RaceTypeOK, TypeOK
  <2>2. WorkRoom(s)' = q
    BY <1>1, <1>2, <1>3 DEF WorkRoom, Making
  <2>3. stage'[s] = "LOBBY" /\ ~lobby'[s]
    BY <1>2, <1>4 DEF Home, At, clientVars, client
  <2> QED
    BY <1>1, <1>3, <2>1, <2>2, <2>3 DEF Home, At, ReadyPlaces, LoadPlaces
<1> QED
  BY <1>2, <1>4, <1>6, <1>7, <1>8, <1>9, StepHere

LEMMA OneMember ==
    ASSUME NEW s \in Users
    PROVE  Cardinality({s}) = 1
  BY FS_Singleton

LEMMA TellMakeSafe ==
    ASSUME Apart, ~Collision', NEW s \in Users, TellMake(s)
    PROVE  RoomsSound' /\ Homes'
<1>1. PICK q \in RoomIds : q = roomNum
  BY DEF Apart, RaceTypeOK, TypeOK
<1>2. /\ At(s, "make.tell") /\ WorkRoom(s) = q /\ RaceTypeOK /\ UNCHANGED vars
      /\ stage' = [stage EXCEPT ![s] = "ROOM"] /\ myRoom' = [myRoom EXCEPT ![s] = q]
  BY <1>1 DEF TellMake, At, WorkRoom, Making, Apart
<1>3. /\ task'[s] = [at |-> "make.info", r |-> 0, n |-> 0]
      /\ \A d \in Users \ {s} : task'[d] = task[d]
  BY <1>2, GotoType, PlacesTyped DEF TellMake, MakePlaces
<1>4. /\ WorksOn(task[s], q) /\ Midway(s, q) /\ Home(s)
      /\ \A r \in RoomIds \ {q} : s \notin members[r]
  BY <1>2, Here DEF At
<1>5. stage'[s] = "ROOM" /\ myRoom'[s] = q
  BY <1>2 DEF RaceTypeOK
<1>6. Local(s, q)
  BY <1>2, <1>3 DEF Local, vars, RaceTypeOK, TypeOK
<1>7. \A r \in RoomIds : WorksOn(task[s], r)' <=> r = q
  BY <1>1, <1>2, <1>3 DEF WorksOn, Idle, Making, vars
<1>8. Midway(s, q)'
  <2>1. /\ status[q] = "JOINABLE" /\ members[q] = {s} /\ NobodyLoaded(q)
        /\ readycount[q] = 0 /\ gameID[s] = 0
    BY <1>2, <1>4 DEF Midway, MidMake
  <2>2. Size(q)' = 1
    BY <1>2, <2>1, OneMember DEF Size, vars
  <2>3. Counted(q)'
    BY <1>2, <2>1, <2>2, RoomsAssumption DEF Counted, NobodyLoaded, vars
  <2>4. Waits(q)'
    BY <1>2, <1>5, <2>1, <2>2, <2>3 DEF Waits, Numbered, Distinct, Show, vars
  <2> QED
    BY <1>3, <2>4 DEF Midway, MidMake, MidJoin, MidReady, MidLoad, MidLeave, At
<1>9. Home(s)'
  <2>1. In(s, {q})' /\ ~lobby'[s]
    BY <1>2, <1>4 DEF In, vars, Home, At
  <2>2. WorkRoom(s)' = q
    BY <1>1, <1>2, <1>3 DEF WorkRoom, Making, vars
  <2> QED
    BY <1>3, <1>5, <2>1, <2>2 DEF Home, At, LoadPlaces
<1> QED
  BY <1>2, <1>4, <1>6, <1>7, <1>8, <1>9, StepHere DEF vars

LEMMA InfoMakeSafe ==
    ASSUME Apart, ~Collision', NEW s \in Users, InfoMake(s)
    PROVE  RoomsSound' /\ Homes'
<1>1. PICK q \in RoomIds : q = roomNum
  BY DEF Apart, RaceTypeOK, TypeOK
<1>2. /\ At(s, "make.info") /\ WorkRoom(s) = q /\ RaceTypeOK
      /\ UNCHANGED <<vars, stage, myRoom>>
  BY <1>1 DEF InfoMake, At, WorkRoom, Making, Apart
<1>3. task'[s] = Idle /\ \A d \in Users \ {s} : task'[d] = task[d]
  BY <1>2, ReturnType DEF InfoMake
<1>4. /\ WorksOn(task[s], q) /\ Midway(s, q) /\ Home(s)
      /\ \A r \in RoomIds \ {q} : s \notin members[r]
  BY <1>2, Here DEF At
<1>6. Local(s, q)
  BY <1>2, <1>3 DEF Local, vars
<1>7. \A r \in RoomIds : ~WorksOn(task[s], r)'
  BY <1>3 DEF WorksOn
<1>8. Sound(q)'
  <2>1. Sound(q)
    BY <1>2, <1>4 DEF Midway, MidMake, Sound
  <2> QED
    BY <1>2, <2>1, SameSound DEF vars
<1>9. Home(s)'
  BY <1>2, <1>3, <1>4 DEF Home, In, At, Idle, vars, ReadyPlaces, LoadPlaces
<1> QED
  BY <1>2, <1>4, <1>6, <1>7, <1>8, <1>9, StepHere DEF vars

-----------------------------------------------------------------------------
(* CS_JOIN_ROOM and CS_QUICK_JOIN statement by statement.                  *)

LEMMA TestJoinSafe ==
    ASSUME Apart, ~Collision', NEW s \in Users, NEW q \in RoomIds,
           Takes(s), stage[s] = "LOBBY", status[q] = "JOINABLE",
           Goto(s, "join.enter", q, 0), UNCHANGED <<vars, client>>
    PROVE  RoomsSound' /\ Homes'
<1>2. At(s, "idle") /\ Home(s) /\ RaceTypeOK
  BY DEF Takes, Idle, At, Apart, Homes
<1>3. /\ task'[s] = [at |-> "join.enter", r |-> q, n |-> 0]
      /\ \A d \in Users \ {s} : task'[d] = task[d]
  BY <1>2, GotoType, PlacesTyped DEF JoinPlaces
<1>4. Nowhere(s)
  BY <1>2 DEF Home
<1>5. \A r \in RoomIds : WorksOn(task[s], r)' <=> r = q
  BY <1>3 DEF WorksOn, Idle, Making
<1>6. ASSUME Sound(q) PROVE Midway(s, q)'
  <2>1. Waits(q)
    BY <1>2, <1>6, SoundRoom
  <2>2. Waits(q)' /\ status'[q] = "JOINABLE"
    <3>1. Size(q)' = Size(q)
      BY DEF Size, vars
    <3> QED
      BY <2>1, <3>1 DEF Waits, Counted, NobodyLoaded, Numbered, Distinct, Show, vars, client
  <2> QED
    BY <1>3, <2>2 DEF Midway, MidMake, MidJoin, MidReady, MidLoad, MidLeave, At
<1>7. Home(s)'
  BY <1>2, <1>3, <1>4 DEF Home, Nowhere, In, At, vars, client, ReadyPlaces, LoadPlaces
<1> QED
  BY <1>2, <1>3, <1>4, <1>5, <1>6, <1>7, StepTakes
     DEF vars, roomVars, client, Nowhere, In

LEMMA BeginJoinSafe ==
    ASSUME Apart, ~Collision', NEW s \in Users,
           ScanQuick(s) \/ \E r \in RoomIds : TestJoin(s, r)
    PROVE  RoomsSound' /\ Homes'
<1>1. CASE ScanQuick(s)
  <2>1. Joinable \in SUBSET RoomIds /\ Joinable # {}
    BY <1>1 DEF ScanQuick, Joinable
  <2>2. PICK q \in Joinable : q = FirstRoom(Joinable)
    BY <2>1, FirstRoomFound
  <2>3. q \in RoomIds /\ status[q] = "JOINABLE"
    BY <2>2 DEF Joinable
  <2> QED
    BY <1>1, <2>2, <2>3, TestJoinSafe DEF ScanQuick
<1>2. ASSUME NEW q \in RoomIds, TestJoin(s, q)
      PROVE  RoomsSound' /\ Homes'
  <2>1. status[q] \in Status \ Refused
    BY <1>2 DEF TestJoin, Apart, RaceTypeOK, TypeOK
  <2>2. status[q] = "JOINABLE"
    BY <2>1 DEF Status, Refused
  <2> QED
    BY <1>2, <2>2, TestJoinSafe DEF TestJoin
<1> QED
  BY <1>1, <1>2

LEMMA EnterJoinSafe ==
    ASSUME Apart, ~Collision', NEW s \in Users, EnterJoin(s)
    PROVE  RoomsSound' /\ Homes'
<1>1. PICK q \in RoomIds : q = task[s].r
  BY DEF Apart, RaceTypeOK
<1>2. /\ At(s, "join.enter") /\ WorkRoom(s) = q /\ RaceTypeOK
      /\ UNCHANGED <<gameID, roomNum, status, members, accepted, loadcount, client>>
      /\ readycount' = [readycount EXCEPT ![q] = 0] /\ lobby' = [lobby EXCEPT ![s] = FALSE]
  BY <1>1 DEF EnterJoin, At, WorkRoom, Making, Apart, ResetCount
<1>3. /\ task'[s] = [at |-> "join.insert", r |-> q, n |-> 0]
      /\ \A d \in Users \ {s} : task'[d] = task[d]
  BY <1>1, <1>2, GotoType, PlacesTyped DEF EnterJoin, JoinPlaces
<1>4. /\ WorksOn(task[s], q) /\ Midway(s, q) /\ Home(s)
      /\ \A r \in RoomIds \ {q} : s \notin members[r]
  BY <1>2, Here DEF At
<1>5. Waits(q) /\ status[q] = "JOINABLE" /\ Nowhere(s)
  BY <1>2, <1>4 DEF Midway, MidJoin, Home, At
<1>6. Local(s, q)
  BY <1>2, <1>3 DEF Local, client, RaceTypeOK, TypeOK
<1>7. \A r \in RoomIds : WorksOn(task[s], r)' <=> r = q
  BY <1>3 DEF WorksOn, Idle, Making
<1>8. Midway(s, q)'
  <2>1. readycount'[q] = 0 /\ Size(q)' = Size(q)
    BY <1>2 DEF Size, RaceTypeOK, TypeOK
  <2>2. Size(q) > 0
    <3>1. members[q] # {}
      BY <1>2, <1>5, SoundRoom DEF Sound, Empty
    <3> QED
      BY <1>2, <3>1, SizeType DEF RaceTypeOK
  <2>3. Waits(q)' /\ status'[q] = "JOINABLE"
    BY <1>2, <1>5, <2>1, <2>2
       DEF Waits, Counted, NobodyLoaded, Numbered, Distinct, Show, client
  <2> QED
    BY <1>3, <2>3 DEF Midway, MidMake, MidJoin, MidReady, MidLoad, MidLeave, At
<1>9. Home(s)'
  <2>1. ~lobby'[s]
    BY <1>2 DEF RaceTypeOK, TypeOK
  <2> QED
    BY <1>2, <1>3, <1>5, <2>1 DEF Home, Nowhere, In, At, client, ReadyPlaces, LoadPlaces
<1> QED
  BY <1>2, <1>4, <1>6, <1>7, <1>8, <1>9, StepHere

LEMMA InsertJoinSafe ==
    ASSUME Apart, ~Collision', NEW s \in Users, InsertJoin(s)
    PROVE  RoomsSound' /\ Homes'
<1>1. PICK q \in RoomIds : q = task[s].r
  BY DEF Apart, RaceTypeOK
<1>2. /\ At(s, "join.insert") /\ WorkRoom(s) = q /\ RaceTypeOK
      /\ UNCHANGED <<clientVars, roomNum, status, accepted, readycount, loadcount, client>>
  BY <1>1 DEF InsertJoin, At, WorkRoom, Making, Apart
<1>3. /\ task'[s] = [at |-> "join.number", r |-> q, n |-> 0]
      /\ \A d \in Users \ {s} : task'[d] = task[d]
  BY <1>1, <1>2, GotoType, PlacesTyped DEF InsertJoin, JoinPlaces
<1>4. /\ WorksOn(task[s], q) /\ Midway(s, q) /\ Home(s)
      /\ \A r \in RoomIds \ {q} : s \notin members[r]
  BY <1>2, Here DEF At
<1>5. members' = [members EXCEPT ![q] = members[q] \cup {s}]
  BY <1>1, <1>4, InsertAlone DEF InsertJoin
<1>6. Local(s, q)
  BY <1>2, <1>3, <1>5 DEF Local, clientVars, client, RaceTypeOK, TypeOK
<1>7. \A r \in RoomIds : WorksOn(task[s], r)' <=> r = q
  BY <1>3 DEF WorksOn, Idle, Making
<1>8. Midway(s, q)'
  <2>1. Waits(q) /\ status[q] = "JOINABLE" /\ s \notin members[q]
    BY <1>2, <1>4 DEF Midway, MidJoin, Home, At, In
  <2>2. members'[q] = members[q] \cup {s} /\ members'[q] \ {s} = members[q]
    BY <1>2, <1>5, <2>1 DEF RaceTypeOK, TypeOK
  <2>3. Size(q)' = Size(q) + 1 /\ Size(q) \in Nat /\ Size(q) < MaxGamer
    <3>1. members[q] \in SUBSET Users
      BY <1>2 DEF RaceTypeOK, TypeOK
    <3>2. Size(q)' = Size(q) + 1
      BY <2>1, <2>2, <3>1, CountAdd DEF Size
    <3> QED
      BY <1>2, <2>1, <3>2, SizeType DEF RaceTypeOK, Waits, Counted
  <2>4. readycount[q] \in 0 .. 255 /\ readycount[q] < Size(q)
    BY <1>2, <2>1 DEF RaceTypeOK, TypeOK, Byte, Waits
  <2>5. Entered(s, q)'
    <3>1. s \in members'[q] /\ NobodyLoaded(q)'
      BY <1>2, <2>1, <2>2 DEF NobodyLoaded, Waits, Counted
    <3>2. readycount'[q] < Size(q)' /\ Size(q)' <= MaxGamer
      BY <1>2, <2>3, <2>4, RoomsAssumption
    <3>3. Show(members[q] \ {s}, "ROOM")'
      BY <1>2, <2>1, <2>2 DEF Show, Waits, client
    <3> QED
      BY <3>1, <3>2, <3>3 DEF Entered
  <2>6. /\ Distinct(q, members[q] \ {s})'
        /\ \A d \in members'[q] \ {s} : gameID'[d] < Size(q)' - 1
    BY <1>2, <2>1, <2>2, <2>3 DEF Distinct, Waits, Numbered, clientVars
  <2> QED
    BY <1>2, <1>3, <2>1, <2>5, <2>6 DEF Midway, MidMake, MidJoin, MidReady, MidLoad, MidLeave, At
<1>9. Home(s)'
  <2>1. In(s, {q})'
    BY <1>2, <1>4, <1>5 DEF In, RaceTypeOK, TypeOK
  <2>2. WorkRoom(s)' = q
    BY <1>3 DEF WorkRoom, Making
  <2>3. stage'[s] = "LOBBY" /\ ~lobby'[s]
    BY <1>2, <1>4 DEF Home, At, clientVars, client
  <2> QED
    BY <1>3, <2>1, <2>2, <2>3 DEF Home, At, ReadyPlaces, LoadPlaces
<1> QED
  BY <1>2, <1>4, <1>6, <1>7, <1>8, <1>9, StepHere

LEMMA NumberJoinSafe ==
    ASSUME Apart, ~Collision', NEW s \in Users, NumberJoin(s)
    PROVE  RoomsSound' /\ Homes'
<1>1. PICK q \in RoomIds : q = task[s].r
  BY DEF Apart, RaceTypeOK
<1>2. /\ At(s, "join.number") /\ WorkRoom(s) = q /\ RaceTypeOK
      /\ UNCHANGED <<connect, lobby, roomNum, roomVars, client>>
      /\ gameID' = [gameID EXCEPT ![s] = NewGameID(Size(q))]
  BY <1>1 DEF NumberJoin, At, WorkRoom, Making, Apart
<1>3. /\ task'[s] = [at |-> "join.full", r |-> q, n |-> 0]
      /\ \A d \in Users \ {s} : task'[d] = task[d]
  BY <1>1, <1>2, GotoType, PlacesTyped DEF NumberJoin, JoinPlaces
<1>4. /\ WorksOn(task[s], q) /\ Midway(s, q) /\ Home(s)
      /\ \A r \in RoomIds \ {q} : s \notin members[r]
  BY <1>2, Here DEF At
<1>6. Local(s, q)
  BY <1>2, <1>3 DEF Local, roomVars, client, RaceTypeOK, TypeOK
<1>7. \A r \in RoomIds : WorksOn(task[s], r)' <=> r = q
  BY <1>3 DEF WorksOn, Idle, Making
<1>8. Midway(s, q)'
  <2>1. /\ status[q] = "JOINABLE" /\ Entered(s, q) /\ Distinct(q, members[q] \ {s})
        /\ \A d \in members[q] \ {s} : gameID[d] < Size(q) - 1
    BY <1>2, <1>4 DEF Midway, MidJoin
  <2>2. Size(q) \in 1 .. 255 /\ Size(q)' = Size(q)
    <3>1. Size(q)' = Size(q)
      BY <1>2 DEF Size, roomVars
    <3>2. Size(q) \in Nat /\ Size(q) > 0
      BY <1>2, <2>1, SizeType DEF RaceTypeOK, Entered
    <3> QED
      BY <2>1, <3>1, <3>2, RoomsAssumption DEF Entered
  <2>3. gameID'[s] = Size(q) - 1 /\ \A d \in members[q] \ {s} : gameID'[d] = gameID[d]
    <3>1. NewGameID(Size(q)) = Size(q) - 1
      BY <2>2, Increments
    <3>2. gameID \in [Users -> Byte] /\ members[q] \subseteq Users
      BY <1>2 DEF RaceTypeOK, TypeOK
    <3> QED
      BY <1>2, <3>1, <3>2
  <2>4. Numbered(q)'
    <3>1. /\ members'[q] = members[q]
          /\ \A d \in members[q] : gameID[d] \in Nat
      <4>1. gameID \in [Users -> 0 .. 255] /\ members[q] \subseteq Users
        BY <1>2 DEF RaceTypeOK, TypeOK, Byte
      <4> QED
        BY <1>2, <4>1 DEF roomVars
    <3> QED
      BY <2>1, <2>2, <2>3, <3>1 DEF Numbered, Distinct
  <2>5. Entered(s, q)' /\ status'[q] = "JOINABLE"
    BY <1>2, <2>1, <2>2 DEF Entered, NobodyLoaded, Show, roomVars, client
  <2> QED
    BY <1>3, <2>4, <2>5 DEF Midway, MidMake, MidJoin, MidReady, MidLoad, MidLeave, At
<1>9. Home(s)'
  <2>1. In(s, {q})' /\ stage'[s] = "LOBBY" /\ ~lobby'[s]
    BY <1>2, <1>4 DEF In, Home, At, roomVars, client
  <2>2. WorkRoom(s)' = q
    BY <1>3 DEF WorkRoom, Making
  <2> QED
    BY <1>3, <2>1, <2>2 DEF Home, At, ReadyPlaces, LoadPlaces
<1> QED
  BY <1>2, <1>4, <1>6, <1>7, <1>8, <1>9, StepHere

LEMMA FullJoinSafe ==
    ASSUME Apart, ~Collision', NEW s \in Users, FullJoin(s)
    PROVE  RoomsSound' /\ Homes'
<1>1. PICK q \in RoomIds : q = task[s].r
  BY DEF Apart, RaceTypeOK
<1>2. /\ At(s, "join.full") /\ WorkRoom(s) = q /\ RaceTypeOK
      /\ UNCHANGED <<clientVars, roomNum, members, accepted, readycount, loadcount, client>>
      /\ status' = [status EXCEPT ![q] = EnteredStatus(Size(q), status[q])]
  BY <1>1 DEF FullJoin, At, WorkRoom, Making, Apart
<1>3. /\ task'[s] = [at |-> "join.tell", r |-> q, n |-> 0]
      /\ \A d \in Users \ {s} : task'[d] = task[d]
  BY <1>1, <1>2, GotoType, PlacesTyped DEF FullJoin, JoinPlaces
<1>4. /\ WorksOn(task[s], q) /\ Midway(s, q) /\ Home(s)
      /\ \A r \in RoomIds \ {q} : s \notin members[r]
  BY <1>2, Here DEF At
<1>6. Local(s, q)
  BY <1>2, <1>3 DEF Local, clientVars, client, RaceTypeOK, TypeOK
<1>7. \A r \in RoomIds : WorksOn(task[s], r)' <=> r = q
  BY <1>3 DEF WorksOn, Idle, Making
<1>8. Midway(s, q)'
  <2>1. status[q] = "JOINABLE" /\ Entered(s, q) /\ Numbered(q)
    BY <1>2, <1>4 DEF Midway, MidJoin
  <2>2. Size(q) \in Nat /\ Size(q) <= MaxGamer /\ Size(q)' = Size(q)
    BY <1>2, <2>1, SizeType DEF RaceTypeOK, Entered, Size
  <2>3. status'[q] = IF Size(q) = MaxGamer THEN "FULL" ELSE "JOINABLE"
    BY <1>2, <2>1 DEF EnteredStatus, RaceTypeOK, TypeOK
  <2>4. Entered(s, q)' /\ Numbered(q)'
    BY <1>2, <2>1, <2>2 DEF Entered, Numbered, Distinct, NobodyLoaded, Show, clientVars, client
  <2>5. Counted(q)'
    BY <2>2, <2>3, <2>4, RoomsAssumption DEF Counted, Entered
  <2> QED
    BY <1>3, <2>4, <2>5 DEF Midway, MidMake, MidJoin, MidReady, MidLoad, MidLeave, At
<1>9. Home(s)'
  <2>1. In(s, {q})' /\ stage'[s] = "LOBBY" /\ ~lobby'[s]
    BY <1>2, <1>4 DEF In, Home, At, clientVars, client
  <2>2. WorkRoom(s)' = q
    BY <1>3 DEF WorkRoom, Making
  <2> QED
    BY <1>3, <2>1, <2>2 DEF Home, At, ReadyPlaces, LoadPlaces
<1> QED
  BY <1>2, <1>4, <1>6, <1>7, <1>8, <1>9, StepHere

LEMMA TellJoinSafe ==
    ASSUME Apart, ~Collision', NEW s \in Users, TellJoin(s)
    PROVE  RoomsSound' /\ Homes'
<1>1. PICK q \in RoomIds : q = task[s].r
  BY DEF Apart, RaceTypeOK
<1>2. /\ At(s, "join.tell") /\ WorkRoom(s) = q /\ RaceTypeOK /\ UNCHANGED vars
      /\ stage' = [stage EXCEPT ![s] = "ROOM"] /\ myRoom' = [myRoom EXCEPT ![s] = q]
  BY <1>1 DEF TellJoin, At, WorkRoom, Making, Apart
<1>3. /\ task'[s] = [at |-> "join.info", r |-> q, n |-> 0]
      /\ \A d \in Users \ {s} : task'[d] = task[d]
  BY <1>1, <1>2, GotoType, PlacesTyped DEF TellJoin, JoinPlaces
<1>4. /\ WorksOn(task[s], q) /\ Midway(s, q) /\ Home(s)
      /\ \A r \in RoomIds \ {q} : s \notin members[r]
  BY <1>2, Here DEF At
<1>5. stage'[s] = "ROOM" /\ myRoom'[s] = q
  BY <1>2 DEF RaceTypeOK
<1>6. Local(s, q)
  BY <1>2, <1>3 DEF Local, vars, RaceTypeOK, TypeOK
<1>7. \A r \in RoomIds : WorksOn(task[s], r)' <=> r = q
  BY <1>3 DEF WorksOn, Idle, Making
<1>8. Midway(s, q)'
  <2>1. Counted(q) /\ Entered(s, q) /\ Numbered(q) /\ Size(q)' = Size(q)
    BY <1>2, <1>4 DEF Midway, MidJoin, Size, vars
  <2>2. Show(members[q], "ROOM")'
    BY <1>2, <1>5, <2>1 DEF Show, Entered, vars, RaceTypeOK, TypeOK
  <2>3. Waits(q)'
    BY <1>2, <2>1, <2>2 DEF Waits, Counted, Entered, Numbered, Distinct, NobodyLoaded, vars
  <2> QED
    BY <1>3, <2>3 DEF Midway, MidMake, MidJoin, MidReady, MidLoad, MidLeave, At
<1>9. Home(s)'
  <2>1. In(s, {q})' /\ ~lobby'[s]
    BY <1>2, <1>4 DEF In, Home, At, vars
  <2>2. WorkRoom(s)' = q
    BY <1>3 DEF WorkRoom, Making
  <2> QED
    BY <1>3, <1>5, <2>1, <2>2 DEF Home, At, LoadPlaces
<1> QED
  BY <1>2, <1>4, <1>6, <1>7, <1>8, <1>9, StepHere DEF vars

LEMMA InfoJoinSafe ==
    ASSUME Apart, ~Collision', NEW s \in Users, InfoJoin(s)
    PROVE  RoomsSound' /\ Homes'
<1>1. PICK q \in RoomIds : q = task[s].r
  BY DEF Apart, RaceTypeOK
<1>2. /\ At(s, "join.info") /\ WorkRoom(s) = q /\ RaceTypeOK
      /\ UNCHANGED <<vars, stage, myRoom>>
  BY <1>1 DEF InfoJoin, At, WorkRoom, Making, Apart
<1>3. task'[s] = Idle /\ \A d \in Users \ {s} : task'[d] = task[d]
  BY <1>2, ReturnType DEF InfoJoin
<1>4. /\ WorksOn(task[s], q) /\ Midway(s, q) /\ Home(s)
      /\ \A r \in RoomIds \ {q} : s \notin members[r]
  BY <1>2, Here DEF At
<1>6. Local(s, q)
  BY <1>2, <1>3 DEF Local, vars
<1>7. \A r \in RoomIds : ~WorksOn(task[s], r)'
  BY <1>3 DEF WorksOn
<1>8. Sound(q)'
  <2>1. Sound(q)
    BY <1>2, <1>4 DEF Midway, MidJoin, Sound
  <2> QED
    BY <1>2, <2>1, SameSound DEF vars
<1>9. Home(s)'
  BY <1>2, <1>3, <1>4 DEF Home, In, At, Idle, vars, ReadyPlaces, LoadPlaces
<1> QED
  BY <1>2, <1>4, <1>6, <1>7, <1>8, <1>9, StepHere DEF vars

-----------------------------------------------------------------------------
(* CS_READY statement by statement.                                        *)

LEMMA TakeReadySafe ==
    ASSUME Apart, ~Collision', NEW s \in Users, TakeReady(s)
    PROVE  RoomsSound' /\ Homes'
<1>1. PICK q \in RoomIds : q = myRoom[s]
  BY DEF Apart, RaceTypeOK
<1>2. /\ At(s, "idle") /\ stage[s] = "ROOM" /\ Home(s) /\ RaceTypeOK
      /\ UNCHANGED <<vars, stage, myRoom>>
  BY DEF TakeReady, Takes, Idle, At, Apart, Homes
<1>3. /\ task'[s] = [at |-> "ready.store", r |-> q, n |-> readycount[q]]
      /\ \A d \in Users \ {s} : task'[d] = task[d]
  <2>1. Goto(s, "ready.store", q, readycount[q])
    BY <1>1 DEF TakeReady
  <2>2. readycount[q] \in Byte
    BY <1>2 DEF RaceTypeOK, TypeOK
  <2> QED
    BY <1>2, <2>1, <2>2, GotoType, PlacesTyped DEF ReadyPlaces
<1>4. ~lobby[s] /\ In(s, {q})
  BY <1>1, <1>2 DEF Home, Nowhere
<1>5. \A r \in RoomIds : WorksOn(task[s], r)' <=> r = q
  BY <1>3 DEF WorksOn, Idle, Making
<1>6. ASSUME Sound(q) PROVE Midway(s, q)'
  <2>1. Waits(q)
    BY <1>2, <1>4, <1>6, SoundRoom DEF In
  <2>2. Waits(q)'
    <3>1. Size(q)' = Size(q)
      BY <1>2 DEF Size, vars
    <3> QED
      BY <1>2, <2>1, <3>1 DEF Waits, Counted, NobodyLoaded, Numbered, Distinct, Show, vars
  <2> QED
    BY <1>2, <1>3, <2>2 DEF Midway, MidMake, MidJoin, MidReady, MidLoad, MidLeave, At, vars
<1>7. Home(s)'
  <2>1. In(s, {q})' /\ ~lobby'[s]
    BY <1>2, <1>4 DEF In, vars
  <2>2. WorkRoom(s)' = q
    BY <1>3 DEF WorkRoom, Making
  <2> QED
    BY <1>1, <1>2, <1>3, <2>1, <2>2 DEF Home, At, LoadPlaces
<1> QED
  BY <1>2, <1>3, <1>4, <1>5, <1>6, <1>7, StepTakes DEF vars, roomVars, In

LEMMA StoreReadySafe ==
    ASSUME Apart, ~Collision', NEW s \in Users, StoreReady(s)
    PROVE  RoomsSound' /\ Homes'
<1>1. PICK q \in RoomIds : q = task[s].r
  BY DEF Apart, RaceTypeOK
<1>2. /\ At(s, "ready.store") /\ WorkRoom(s) = q /\ RaceTypeOK
      /\ UNCHANGED <<clientVars, roomNum, status, members, accepted, loadcount, client>>
      /\ readycount' = [readycount EXCEPT ![q] = Inc(task[s].n)]
  BY <1>1 DEF StoreReady, At, WorkRoom, Making, Apart
<1>3. /\ task'[s] = [at |-> "ready.test", r |-> q, n |-> 0]
      /\ \A d \in Users \ {s} : task'[d] = task[d]
  BY <1>1, <1>2, GotoType, PlacesTyped DEF StoreReady, ReadyPlaces
<1>4. /\ WorksOn(task[s], q) /\ Midway(s, q) /\ Home(s)
      /\ \A r \in RoomIds \ {q} : s \notin members[r]
  BY <1>2, Here DEF At
<1>6. Local(s, q)
  BY <1>2, <1>3 DEF Local, clientVars, client, RaceTypeOK, TypeOK
<1>7. \A r \in RoomIds : WorksOn(task[s], r)' <=> r = q
  BY <1>3 DEF WorksOn, Idle, Making
<1>8. Midway(s, q)'
  <2>1. Waits(q) /\ task[s].n = readycount[q]
    BY <1>2, <1>4 DEF Midway, MidReady
  <2>2. Size(q) \in Nat /\ Size(q) <= MaxGamer /\ Size(q)' = Size(q)
    BY <1>2, <2>1, SizeType, RoomsAssumption DEF RaceTypeOK, Waits, Counted, Size
  <2>3. readycount'[q] = readycount[q] + 1 /\ readycount[q] \in Nat
    <3>1. readycount \in [RoomIds -> 0 .. 255]
      BY <1>2 DEF RaceTypeOK, TypeOK, Byte
    <3>2. readycount[q] \in Nat /\ readycount[q] < 255
      BY <2>1, <2>2, <3>1, RoomsAssumption DEF Waits
    <3>3. Inc(task[s].n) = readycount[q] + 1
      BY <2>1, <3>2, Increments
    <3> QED
      BY <1>2, <3>1, <3>2, <3>3
  <2>4. Counted(q)' /\ Numbered(q)' /\ Show(members[q], "ROOM")'
    BY <1>2, <2>1, <2>2
       DEF Waits, Counted, NobodyLoaded, Numbered, Distinct, Show, clientVars, client
  <2>5. readycount'[q] <= Size(q)'
    BY <2>1, <2>2, <2>3 DEF Waits
  <2> QED
    BY <1>3, <2>4, <2>5 DEF Midway, MidMake, MidJoin, MidReady, MidLoad, MidLeave, At
<1>9. Home(s)'
  BY <1>2, <1>3, <1>4
     DEF Home, In, At, WorkRoom, Making, clientVars, client, ReadyPlaces, LoadPlaces
<1> QED
  BY <1>2, <1>4, <1>6, <1>7, <1>8, <1>9, StepHere

LEMMA TestReadySafe ==
    ASSUME Apart, ~Collision', NEW s \in Users, TestReady(s)
    PROVE  RoomsSound' /\ Homes'
<1>1. PICK q \in RoomIds : q = task[s].r
  BY DEF Apart, RaceTypeOK
<1>2. /\ At(s, "ready.test") /\ WorkRoom(s) = q /\ RaceTypeOK
      /\ UNCHANGED <<clientVars, roomNum, members, accepted, loadcount, client>>
  BY <1>1 DEF TestReady, At, WorkRoom, Making, Apart
<1>4. /\ WorksOn(task[s], q) /\ Midway(s, q) /\ Home(s)
      /\ \A r \in RoomIds \ {q} : s \notin members[r]
  BY <1>2, Here DEF At
<1>5. /\ Counted(q) /\ readycount[q] <= Size(q) /\ Numbered(q) /\ Show(members[q], "ROOM")
      /\ stage[s] = "ROOM" /\ ~lobby[s] /\ myRoom[s] = q /\ In(s, {q})
  BY <1>2, <1>4 DEF Midway, MidReady, Home, At, ReadyPlaces
<1>6. Size(q) \in Nat /\ Size(q)' = Size(q)
  BY <1>2, SizeType DEF RaceTypeOK, Size
<1>7. CASE readycount[q] = Size(q)
  <2>1. /\ status' = [status EXCEPT ![q] = "INGAME"]
        /\ readycount' = [readycount EXCEPT ![q] = 0]
        /\ Goto(s, "ready.start", q, 0)
    BY <1>1, <1>7 DEF TestReady
  <2>2. /\ task'[s] = [at |-> "ready.start", r |-> q, n |-> 0]
        /\ \A d \in Users \ {s} : task'[d] = task[d]
    BY <1>2, <2>1, GotoType, PlacesTyped DEF ReadyPlaces
  <2>3. Local(s, q)
    BY <1>2, <2>1, <2>2 DEF Local, clientVars, client, RaceTypeOK, TypeOK
  <2>4. \A r \in RoomIds : WorksOn(task[s], r)' <=> r = q
    BY <2>2 DEF WorksOn, Idle, Making
  <2>5. Midway(s, q)'
    <3>1. status'[q] = "INGAME"
      BY <1>2, <2>1 DEF RaceTypeOK, TypeOK
    <3>2. Size(q)' <= MaxGamer
      BY <1>5, <1>6, RoomsAssumption DEF Counted
    <3>3. NobodyLoaded(q)' /\ Distinct(q, members[q])' /\ Show(members[q], "ROOM")'
      BY <1>2, <1>5 DEF NobodyLoaded, Counted, Numbered, Distinct, Show, clientVars, client
    <3> QED
      BY <2>2, <3>1, <3>2, <3>3
         DEF Midway, MidMake, MidJoin, MidReady, MidLoad, MidLeave, At
  <2>6. Home(s)'
    BY <1>2, <1>5, <2>2
       DEF Home, In, At, WorkRoom, Making, clientVars, client, ReadyPlaces, LoadPlaces
  <2> QED
    BY <1>2, <1>4, <2>3, <2>4, <2>5, <2>6, StepHere
<1>8. CASE readycount[q] # Size(q)
  <2>1. Return(s) /\ UNCHANGED <<readycount, status>>
    BY <1>1, <1>8 DEF TestReady
  <2>2. task'[s] = Idle /\ \A d \in Users \ {s} : task'[d] = task[d]
    BY <1>2, <2>1, ReturnType
  <2>3. Local(s, q)
    BY <1>2, <2>1, <2>2 DEF Local, clientVars, client
  <2>4. \A r \in RoomIds : ~WorksOn(task[s], r)'
    BY <2>2 DEF WorksOn
  <2>5. Sound(q)'
    <3>1. readycount[q] \in 0 .. 255
      BY <1>2 DEF RaceTypeOK, TypeOK, Byte
    <3>2. Waits(q)
      BY <1>5, <1>6, <1>8, <3>1 DEF Waits
    <3> QED
      BY <1>2, <2>1, <3>2, SameSound DEF Sound, clientVars, client
  <2>6. Home(s)'
    BY <1>2, <1>5, <2>2 DEF Home, In, At, Idle, clientVars, client, ReadyPlaces, LoadPlaces
  <2> QED
    BY <1>2, <1>4, <2>3, <2>4, <2>5, <2>6, StepHere
<1> QED
  BY <1>7, <1>8

LEMMA StartReadySafe ==
    ASSUME Apart, ~Collision', NEW s \in Users, StartReady(s)
    PROVE  RoomsSound' /\ Homes'
<1>1. PICK q \in RoomIds : q = task[s].r
  BY DEF Apart, RaceTypeOK
<1>2. /\ At(s, "ready.start") /\ WorkRoom(s) = q /\ RaceTypeOK
      /\ UNCHANGED <<vars, myRoom>>
      /\ stage' = [u \in Users |-> IF u \in members[q] THEN "LOADING" ELSE stage[u]]
  BY <1>1 DEF StartReady, At, WorkRoom, Making, Apart
<1>3. task'[s] = Idle /\ \A d \in Users \ {s} : task'[d] = task[d]
  BY <1>2, ReturnType DEF StartReady
<1>4. /\ WorksOn(task[s], q) /\ Midway(s, q) /\ Home(s)
      /\ \A r \in RoomIds \ {q} : s \notin members[r]
  BY <1>2, Here DEF At
<1>5. /\ status[q] = "INGAME" /\ NobodyLoaded(q) /\ Size(q) <= MaxGamer
      /\ Distinct(q, members[q]) /\ ~lobby[s] /\ myRoom[s] = q /\ In(s, {q})
  BY <1>2, <1>4 DEF Midway, MidReady, Home, At, ReadyPlaces
<1>6. Local(s, q)
  BY <1>2, <1>3 DEF Local, vars
<1>7. \A r \in RoomIds : ~WorksOn(task[s], r)'
  BY <1>3 DEF WorksOn
<1>8. Sound(q)'
  <2>1. members[q] \subseteq Users
    BY <1>2 DEF RaceTypeOK, TypeOK
  <2>2. Loading(q, accepted[q])'
    BY <1>2, <1>5, <2>1 DEF Loading, NobodyLoaded, Distinct, Size, vars
  <2>3. accepted'[q] = {} /\ loadcount'[q] = 0 /\ members'[q] # {}
    BY <1>2, <1>5 DEF NobodyLoaded, In, vars
  <2>4. Cardinality(accepted'[q]) = 0
    BY <2>3, FS_EmptySet
  <2> QED
    BY <2>2, <2>3, <2>4 DEF Sound, Loads
<1>9. Home(s)'
  BY <1>2, <1>3, <1>5 DEF Home, In, At, Idle, vars, ReadyPlaces, LoadPlaces
<1> QED
  BY <1>2, <1>4, <1>6, <1>7, <1>8, <1>9, StepHere DEF vars

-----------------------------------------------------------------------------
(* CS_LOADCOMPLETE statement by statement.                                 *)

LEMMA TakeLoadedSafe ==
    ASSUME Apart, ~Collision', NEW s \in Users, TakeLoaded(s)
    PROVE  RoomsSound' /\ Homes'
<1>1. PICK q \in RoomIds : q = myRoom[s]
  BY DEF Apart, RaceTypeOK
<1>2. /\ At(s, "idle") /\ stage[s] = "LOADING" /\ Home(s) /\ RaceTypeOK
      /\ UNCHANGED <<vars, myRoom>> /\ stage' = [stage EXCEPT ![s] = "LOADED"]
  BY DEF TakeLoaded, Takes, Idle, At, Apart, Homes
<1>3. /\ task'[s] = [at |-> "load.store", r |-> q, n |-> loadcount[q]]
      /\ \A d \in Users \ {s} : task'[d] = task[d]
  <2>1. Goto(s, "load.store", q, loadcount[q])
    BY <1>1 DEF TakeLoaded
  <2>2. loadcount[q] \in Byte
    BY <1>2 DEF RaceTypeOK, TypeOK
  <2> QED
    BY <1>2, <2>1, <2>2, GotoType, PlacesTyped DEF LoadPlaces
<1>4. ~lobby[s] /\ In(s, {q})
  BY <1>1, <1>2 DEF Home, Nowhere
<1>5. \A r \in RoomIds : WorksOn(task[s], r)' <=> r = q
  BY <1>3 DEF WorksOn, Idle, Making
<1>6. ASSUME Sound(q) PROVE Midway(s, q)'
  <2>1. Loads(q) /\ s \notin accepted[q]
    BY <1>2, <1>4, <1>6, SoundRoom DEF In
  <2>2. Loading(q, accepted[q] \cup {s})'
    <3>1. members[q] \subseteq Users /\ stage \in [Users -> Stages]
      BY <1>2 DEF RaceTypeOK, TypeOK
    <3>2. \A d \in members[q] :
             stage'[d] = IF d \in accepted[q] \cup {s} THEN "LOADED" ELSE "LOADING"
      BY <1>2, <2>1, <3>1 DEF Loads, Loading
    <3> QED
      BY <1>2, <2>1, <3>2 DEF Loads, Loading, Distinct, Size, vars
  <2> QED
    BY <1>2, <1>3, <2>1, <2>2
       DEF Midway, MidMake, MidJoin, MidReady, MidLoad, MidLeave, At, Loads, vars
<1>7. Home(s)'
  <2>1. In(s, {q})' /\ ~lobby'[s] /\ stage'[s] = "LOADED"
    BY <1>2, <1>4 DEF In, vars, RaceTypeOK
  <2>2. WorkRoom(s)' = q
    BY <1>3 DEF WorkRoom, Making
  <2> QED
    BY <1>1, <1>2, <1>3, <2>1, <2>2 DEF Home, At, ReadyPlaces
<1>8. \A d \in Users \ {s} : stage'[d] = stage[d]
  BY <1>2 DEF RaceTypeOK
<1> QED
  BY <1>2, <1>3, <1>4, <1>5, <1>6, <1>7, <1>8, StepTakes DEF vars, roomVars, In

LEMMA StoreLoadedSafe ==
    ASSUME Apart, ~Collision', NEW s \in Users, StoreLoaded(s)
    PROVE  RoomsSound' /\ Homes'
<1>1. PICK q \in RoomIds : q = task[s].r
  BY DEF Apart, RaceTypeOK
<1>2. /\ At(s, "load.store") /\ WorkRoom(s) = q /\ RaceTypeOK
      /\ UNCHANGED <<clientVars, roomNum, status, members, accepted, readycount, client>>
      /\ loadcount' = [loadcount EXCEPT ![q] = Inc(task[s].n)]
  BY <1>1 DEF StoreLoaded, At, WorkRoom, Making, Apart
<1>3. /\ task'[s] = [at |-> "load.insert", r |-> q, n |-> 0]
      /\ \A d \in Users \ {s} : task'[d] = task[d]
  BY <1>1, <1>2, GotoType, PlacesTyped DEF StoreLoaded, LoadPlaces
<1>4. /\ WorksOn(task[s], q) /\ Midway(s, q) /\ Home(s)
      /\ \A r \in RoomIds \ {q} : s \notin members[r]
  BY <1>2, Here DEF At
<1>6. Local(s, q)
  BY <1>2, <1>3 DEF Local, clientVars, client, RaceTypeOK, TypeOK
<1>7. \A r \in RoomIds : WorksOn(task[s], r)' <=> r = q
  BY <1>3 DEF WorksOn, Idle, Making
<1>8. Midway(s, q)'
  <2>1. /\ Loading(q, accepted[q] \cup {s}) /\ s \notin accepted[q]
        /\ loadcount[q] = Cardinality(accepted[q]) /\ task[s].n = loadcount[q]
        /\ s \in members[q]
    BY <1>2, <1>4 DEF Midway, MidLoad, Home, At, LoadPlaces, In
  <2>2. members[q] \in SUBSET Users /\ accepted[q] \in SUBSET members[q]
    BY <1>2, <2>1 DEF RaceTypeOK, TypeOK, Loading
  <2>3. Cardinality(accepted[q]) \in Nat /\ Cardinality(accepted[q]) < 255
    <3>1. /\ Cardinality(accepted[q]) <= Size(q) /\ Cardinality(accepted[q]) # Size(q)
          /\ Cardinality(accepted[q]) \in Nat /\ Size(q) \in Nat
      BY <2>1, <2>2, CountSubset, SubsetOfUsers DEF Size
    <3>2. Size(q) <= 255
      BY <2>1, <3>1, RoomsAssumption DEF Loading
    <3> QED
      BY <3>1, <3>2
  <2>4. loadcount'[q] = Cardinality(accepted[q]) + 1
    <3>1. Inc(task[s].n) = Cardinality(accepted[q]) + 1
      BY <2>1, <2>3, Increments
    <3> QED
      BY <1>2, <3>1 DEF RaceTypeOK, TypeOK
  <2>5. Loading(q, accepted[q] \cup {s})'
    BY <1>2, <2>1 DEF Loading, Distinct, Size, clientVars, client
  <2> QED
    BY <1>2, <1>3, <2>1, <2>4, <2>5
       DEF Midway, MidMake, MidJoin, MidReady, MidLoad, MidLeave, At
<1>9. Home(s)'
  BY <1>2, <1>3, <1>4
     DEF Home, In, At, WorkRoom, Making, clientVars, client, ReadyPlaces, LoadPlaces
<1> QED
  BY <1>2, <1>4, <1>6, <1>7, <1>8, <1>9, StepHere

LEMMA InsertLoadedSafe ==
    ASSUME Apart, ~Collision', NEW s \in Users, InsertLoaded(s)
    PROVE  RoomsSound' /\ Homes'
<1>1. PICK q \in RoomIds : q = task[s].r
  BY DEF Apart, RaceTypeOK
<1>2. /\ At(s, "load.insert") /\ WorkRoom(s) = q /\ RaceTypeOK
      /\ UNCHANGED <<clientVars, roomNum, status, members, readycount, loadcount, client>>
  BY <1>1 DEF InsertLoaded, At, WorkRoom, Making, Apart
<1>3. /\ task'[s] = [at |-> "load.test", r |-> q, n |-> 0]
      /\ \A d \in Users \ {s} : task'[d] = task[d]
  BY <1>1, <1>2, GotoType, PlacesTyped DEF InsertLoaded, LoadPlaces
<1>4. /\ WorksOn(task[s], q) /\ Midway(s, q) /\ Home(s)
      /\ \A r \in RoomIds \ {q} : s \notin members[r]
  BY <1>2, Here DEF At
<1>5. accepted' = [accepted EXCEPT ![q] = accepted[q] \cup {s}]
  <2>1. ~Busy(s, {"load.insert"}, q)
    <3>1. \A d \in Users \ {s} : ~WorksOn(task[d], q)
      BY <1>4 DEF Apart, Collision
    <3> QED
      BY <3>1 DEF Busy, Running
  <2> QED
    BY <1>1, <2>1, Zenon DEF InsertLoaded, AcceptedWith
<1>6. Local(s, q)
  BY <1>2, <1>3, <1>5 DEF Local, clientVars, client, RaceTypeOK, TypeOK
<1>7. \A r \in RoomIds : WorksOn(task[s], r)' <=> r = q
  BY <1>3 DEF WorksOn, Idle, Making
<1>8. Midway(s, q)'
  <2>1. /\ Loading(q, accepted[q] \cup {s}) /\ s \notin accepted[q]
        /\ loadcount[q] = Cardinality(accepted[q]) + 1 /\ s \in members[q]
    BY <1>2, <1>4 DEF Midway, MidLoad, Home, At, LoadPlaces, In
  <2>2. accepted'[q] = accepted[q] \cup {s} /\ accepted[q] \in SUBSET Users
    BY <1>2, <1>5 DEF RaceTypeOK, TypeOK
  <2>3. Cardinality(accepted'[q]) = Cardinality(accepted[q]) + 1
    BY <2>1, <2>2, CountAdd
  <2>4. Loading(q, accepted[q])'
    BY <1>2, <2>1, <2>2 DEF Loading, Distinct, Size, clientVars, client
  <2>5. loadcount'[q] = Cardinality(accepted[q])'
    BY <1>2, <2>1, <2>3
  <2> QED
    BY <1>3, <2>4, <2>5 DEF Midway, MidMake, MidJoin, MidReady, MidLoad, MidLeave, At
<1>9. Home(s)'
  BY <1>2, <1>3, <1>4
     DEF Home, In, At, WorkRoom, Making, clientVars, client, ReadyPlaces, LoadPlaces
<1> QED
  BY <1>2, <1>4, <1>6, <1>7, <1>8, <1>9, StepHere

LEMMA TestLoadedSafe ==
    ASSUME Apart, ~Collision', NEW s \in Users, TestLoaded(s)
    PROVE  RoomsSound' /\ Homes'
<1>1. PICK q \in RoomIds : q = task[s].r
  BY DEF Apart, RaceTypeOK
<1>2. /\ At(s, "load.test") /\ WorkRoom(s) = q /\ RaceTypeOK
      /\ UNCHANGED <<clientVars, roomNum, status, members, accepted, readycount, myRoom>>
  BY <1>1 DEF TestLoaded, At, WorkRoom, Making, Apart
<1>3. task'[s] = Idle /\ \A d \in Users \ {s} : task'[d] = task[d]
  BY <1>2, ReturnType DEF TestLoaded
<1>4. /\ WorksOn(task[s], q) /\ Midway(s, q) /\ Home(s)
      /\ \A r \in RoomIds \ {q} : s \notin members[r]
  BY <1>2, Here DEF At
<1>5. /\ Loading(q, accepted[q]) /\ loadcount[q] = Cardinality(accepted[q])
      /\ stage[s] = "LOADED" /\ ~lobby[s] /\ myRoom[s] = q /\ In(s, {q})
  BY <1>2, <1>4 DEF Midway, MidLoad, Home, At, LoadPlaces
<1>6. /\ members[q] \in SUBSET Users /\ accepted[q] \in SUBSET members[q]
      /\ s \in members[q]
  BY <1>2, <1>5 DEF RaceTypeOK, TypeOK, Loading, In
<1>7. \A r \in RoomIds : ~WorksOn(task[s], r)'
  BY <1>3 DEF WorksOn
<1>8. CASE loadcount[q] = Size(q)
  <2>1. accepted[q] = members[q]
    BY <1>5, <1>6, <1>8, CountSubset DEF Size
  <2>2. /\ loadcount' = [loadcount EXCEPT ![q] = 0]
        /\ stage' = [u \in Users |-> IF u \in members[q] /\ gameID[u] \in {gameID[a] : a \in accepted[q]}
                                     THEN "GAME" ELSE stage[u]]
    BY <1>1, <1>8 DEF TestLoaded
  <2>3. /\ \A d \in members[q] : stage'[d] = "GAME"
        /\ \A d \in Users : d \notin members[q] => stage'[d] = stage[d]
    BY <1>6, <2>1, <2>2
  <2>4. loadcount'[q] = 0 /\ \A r \in RoomIds \ {q} : loadcount'[r] = loadcount[r]
    BY <1>2, <2>2 DEF RaceTypeOK, TypeOK
  <2>5. Local(s, q)
    BY <1>2, <1>3, <2>3, <2>4 DEF Local, clientVars
  <2>6. Sound(q)'
    BY <1>2, <1>5, <1>6, <2>1, <2>3, <2>4
       DEF Sound, Plays, Playing, Loading, Distinct, Show, clientVars
  <2>7. Home(s)'
    BY <1>2, <1>3, <1>5, <1>6, <2>3
       DEF Home, In, At, Idle, clientVars, ReadyPlaces, LoadPlaces
  <2> QED
    BY <1>2, <1>4, <1>7, <2>5, <2>6, <2>7, StepHere
<1>9. CASE loadcount[q] # Size(q)
  <2>1. UNCHANGED <<loadcount, stage>>
    BY <1>1, <1>9 DEF TestLoaded
  <2>2. Local(s, q)
    BY <1>2, <1>3, <2>1 DEF Local, clientVars
  <2>3. Sound(q)'
    <3>1. Sound(q)
      BY <1>5, <1>9 DEF Sound, Loads, Size
    <3> QED
      BY <1>2, <2>1, <3>1, SameSound DEF clientVars
  <2>4. Home(s)'
    BY <1>2, <1>3, <1>5, <2>1 DEF Home, In, At, Idle, clientVars, ReadyPlaces, LoadPlaces
  <2> QED
    BY <1>2, <1>4, <1>7, <2>2, <2>3, <2>4, StepHere
<1> QED
  BY <1>8, <1>9

-----------------------------------------------------------------------------
(* CS_RESULTCONFIRM statement by statement.                                *)

LEMMA TakeConfirmSafe ==
    ASSUME Apart, ~Collision', NEW s \in Users, TakeConfirm(s)
    PROVE  RoomsSound' /\ Homes'
<1>1. PICK q \in RoomIds : q = myRoom[s]
  BY DEF Apart, RaceTypeOK
<1>2. /\ At(s, "idle") /\ stage[s] = "GAME" /\ Home(s) /\ RaceTypeOK
      /\ UNCHANGED <<roomNum, roomVars>>
      /\ stage' = [stage EXCEPT ![s] = "LOBBY"] /\ lobby' = [lobby EXCEPT ![s] = TRUE]
      /\ gameID' = [gameID EXCEPT ![s] = 0] /\ myRoom' = [myRoom EXCEPT ![s] = 0]
  BY DEF TakeConfirm, Takes, Idle, At, Apart, Homes
<1>3. /\ task'[s] = [at |-> "leave.erase", r |-> q, n |-> 0]
      /\ \A d \in Users \ {s} : task'[d] = task[d]
  BY <1>1, <1>2, GotoType, PlacesTyped DEF TakeConfirm, LeavePlaces
<1>4. ~lobby[s] /\ In(s, {q})
  BY <1>1, <1>2 DEF Home, Nowhere
<1>5. \A r \in RoomIds : WorksOn(task[s], r)' <=> r = q
  BY <1>3 DEF WorksOn, Idle, Making
<1>6. \A d \in Users \ {s} : /\ gameID'[d] = gameID[d] /\ lobby'[d] = lobby[d]
                             /\ myRoom'[d] = myRoom[d] /\ stage'[d] = stage[d]
  BY <1>2 DEF RaceTypeOK, TypeOK
<1>7. ASSUME Sound(q) PROVE Midway(s, q)'
  <2>1. Plays(q)
    BY <1>2, <1>4, <1>7, SoundRoom DEF In
  <2>2. members[q] \subseteq Users
    BY <1>2 DEF RaceTypeOK, TypeOK
  <2>3. Playing(q, members[q] \ {s})'
    BY <1>2, <1>6, <2>1, <2>2 DEF Plays, Playing, Distinct, Show, roomVars
  <2> QED
    BY <1>3, <2>3 DEF Midway, MidMake, MidJoin, MidReady, MidLoad, MidLeave, At
<1>8. Home(s)'
  <2>1. In(s, {q})' /\ lobby'[s] /\ stage'[s] = "LOBBY"
    BY <1>2, <1>4 DEF In, roomVars, RaceTypeOK, TypeOK
  <2>2. WorkRoom(s)' = q
    BY <1>3 DEF WorkRoom, Making
  <2> QED
    BY <1>3, <2>1, <2>2 DEF Home, At, ReadyPlaces, LoadPlaces
<1> QED
  BY <1>2, <1>3, <1>4, <1>5, <1>6, <1>7, <1>8, StepTakes DEF In

LEMMA EraseConfirmSafe ==
    ASSUME Apart, ~Collision', NEW s \in Users, EraseConfirm(s)
    PROVE  RoomsSound' /\ Homes'
<1>1. PICK q \in RoomIds : q = task[s].r
  BY DEF Apart, RaceTypeOK
<1>2. /\ At(s, "leave.erase") /\ WorkRoom(s) = q /\ RaceTypeOK
      /\ UNCHANGED <<clientVars, roomNum, status, accepted, readycount, loadcount, client>>
      /\ members' = [members EXCEPT ![q] = members[q] \ {s}]
  BY <1>1 DEF EraseConfirm, At, WorkRoom, Making, Apart, MembersWithout
<1>3. /\ task'[s] = [at |-> "leave.test", r |-> q, n |-> 0]
      /\ \A d \in Users \ {s} : task'[d] = task[d]
  BY <1>1, <1>2, GotoType, PlacesTyped DEF EraseConfirm, LeavePlaces
<1>4. /\ WorksOn(task[s], q) /\ Midway(s, q) /\ Home(s)
      /\ \A r \in RoomIds \ {q} : s \notin members[r]
  BY <1>2, Here DEF At
<1>5. members'[q] = members[q] \ {s}
  BY <1>2 DEF RaceTypeOK, TypeOK
<1>6. Local(s, q)
  BY <1>2, <1>3 DEF Local, clientVars, client, RaceTypeOK, TypeOK
<1>7. \A r \in RoomIds : WorksOn(task[s], r)' <=> r = q
  BY <1>3 DEF WorksOn, Idle, Making
<1>8. Midway(s, q)'
  <2>1. Playing(q, members[q] \ {s})
    BY <1>2, <1>4 DEF Midway, MidLeave
  <2>2. Playing(q, members[q])'
    BY <1>2, <1>5, <2>1 DEF Playing, Distinct, Show, clientVars, client
  <2> QED
    BY <1>3, <2>2 DEF Midway, MidMake, MidJoin, MidReady, MidLoad, MidLeave, At
<1>9. Home(s)'
  <2>1. In(s, {})'
    BY <1>4, <1>5, <1>6 DEF In, Local
  <2> QED
    BY <1>2, <1>3, <1>4, <2>1
       DEF Home, Nowhere, At, clientVars, client, ReadyPlaces, LoadPlaces
<1> QED
  BY <1>2, <1>4, <1>6, <1>7, <1>8, <1>9, StepHere

LEMMA TestConfirmSafe ==
    ASSUME Apart, ~Collision', NEW s \in Users, TestConfirm(s)
    PROVE  RoomsSound' /\ Homes'
<1>1. PICK q \in RoomIds : q = task[s].r
  BY DEF Apart, RaceTypeOK
<1>2. /\ At(s, "leave.test") /\ WorkRoom(s) = q /\ RaceTypeOK /\ UNCHANGED <<vars, client>>
  BY <1>1 DEF TestConfirm, At, WorkRoom, Making, Apart
<1>4. /\ WorksOn(task[s], q) /\ Midway(s, q) /\ Home(s)
      /\ \A r \in RoomIds \ {q} : s \notin members[r]
  BY <1>2, Here DEF At
<1>5. Playing(q, members[q]) /\ Nowhere(s)
  BY <1>2, <1>4 DEF Midway, MidLeave, Home, At
<1>6. CASE members[q] = {}
  <2>1. Goto(s, "leave.clear", q, 0)
    BY <1>1, <1>6 DEF TestConfirm
  <2>2. /\ task'[s] = [at |-> "leave.clear", r |-> q, n |-> 0]
        /\ \A d \in Users \ {s} : task'[d] = task[d]
    BY <1>2, <2>1, GotoType, PlacesTyped DEF LeavePlaces
  <2>3. Local(s, q)
    BY <1>2, <2>2 DEF Local, vars, client
  <2>4. \A r \in RoomIds : WorksOn(task[s], r)' <=> r = q
    BY <2>2 DEF WorksOn, Idle, Making
  <2>5. Midway(s, q)'
    BY <1>2, <1>6, <2>2
       DEF Midway, MidMake, MidJoin, MidReady, MidLoad, MidLeave, At, vars
  <2>6. Home(s)'
    BY <1>2, <1>5, <2>2 DEF Home, Nowhere, In, At, vars, client, ReadyPlaces, LoadPlaces
  <2> QED
    BY <1>2, <1>4, <2>3, <2>4, <2>5, <2>6, StepHere DEF vars
<1>7. CASE members[q] # {}
  <2>1. Goto(s, "leave.info", q, 0)
    BY <1>1, <1>7 DEF TestConfirm
  <2>2. /\ task'[s] = [at |-> "leave.info", r |-> q, n |-> 0]
        /\ \A d \in Users \ {s} : task'[d] = task[d]
    BY <1>2, <2>1, GotoType, PlacesTyped DEF LeavePlaces
  <2>3. Local(s, q)
    BY <1>2, <2>2 DEF Local, vars, client
  <2>4. \A r \in RoomIds : ~WorksOn(task[s], r)'
    BY <2>2 DEF WorksOn
  <2>5. Sound(q)'
    <3>1. Sound(q)
      BY <1>5, <1>7 DEF Sound, Plays
    <3> QED
      BY <1>2, <3>1, SameSound DEF vars, client
  <2>6. Home(s)'
    BY <1>2, <1>5, <2>2 DEF Home, Nowhere, In, At, vars, client, ReadyPlaces, LoadPlaces
  <2> QED
    BY <1>2, <1>4, <2>3, <2>4, <2>5, <2>6, StepHere DEF vars
<1> QED
  BY <1>6, <1>7

LEMMA ClearConfirmSafe ==
    ASSUME Apart, ~Collision', NEW s \in Users, ClearConfirm(s)
    PROVE  RoomsSound' /\ Homes'
<1>1. PICK q \in RoomIds : q = task[s].r
  BY DEF Apart, RaceTypeOK
<1>2. /\ At(s, "leave.clear") /\ WorkRoom(s) = q /\ RaceTypeOK
      /\ UNCHANGED <<clientVars, roomNum, hung, client>>
      /\ status' = [status EXCEPT ![q] = "EMPTY"] /\ members' = [members EXCEPT ![q] = {}]
      /\ accepted' = [accepted EXCEPT ![q] = {}]
      /\ readycount' = [readycount EXCEPT ![q] = 0]
      /\ loadcount' = [loadcount EXCEPT ![q] = 0]
  BY <1>1 DEF ClearConfirm, At, WorkRoom, Making, Apart
<1>3. /\ task'[s] = [at |-> "leave.info", r |-> q, n |-> 0]
      /\ \A d \in Users \ {s} : task'[d] = task[d]
  BY <1>1, <1>2, GotoType, PlacesTyped DEF ClearConfirm, LeavePlaces
<1>4. /\ WorksOn(task[s], q) /\ Midway(s, q) /\ Home(s)
      /\ \A r \in RoomIds \ {q} : s \notin members[r]
  BY <1>2, Here DEF At
<1>5. members[q] = {} /\ Nowhere(s)
  BY <1>2, <1>4 DEF Midway, MidLeave, Home, At
<1>6. /\ status'[q] = "EMPTY" /\ members'[q] = {} /\ accepted'[q] = {}
      /\ readycount'[q] = 0 /\ loadcount'[q] = 0
      /\ \A r \in RoomIds \ {q} :
            /\ status'[r] = status[r] /\ members'[r] = members[r]
            /\ accepted'[r] = accepted[r] /\ readycount'[r] = readycount[r]
            /\ loadcount'[r] = loadcount[r]
  BY <1>2 DEF RaceTypeOK, TypeOK
<1>7. Local(s, q)
  BY <1>2, <1>3, <1>5, <1>6 DEF Local, clientVars, client
<1>8. \A r \in RoomIds : ~WorksOn(task[s], r)'
  BY <1>3 DEF WorksOn
<1>9. Sound(q)'
  BY <1>6 DEF Sound, Empty, NobodyLoaded
<1>10. Home(s)'
  <2>1. In(s, {})'
    BY <1>5, <1>6 DEF In, Nowhere
  <2> QED
    BY <1>2, <1>3, <1>5, <2>1 DEF Home, Nowhere, At, clientVars, client, ReadyPlaces, LoadPlaces
<1> QED
  BY <1>2, <1>4, <1>7, <1>8, <1>9, <1>10, StepHere

LEMMA InfoConfirmSafe ==
    ASSUME Apart, ~Collision', NEW s \in Users, InfoConfirm(s)
    PROVE  RoomsSound' /\ Homes'
<1>1. At(s, "leave.info") /\ RaceTypeOK /\ Home(s) /\ UNCHANGED <<vars, stage, myRoom>>
  BY DEF InfoConfirm, Apart, Homes
<1>2. task'[s] = Idle /\ \A d \in Users \ {s} : task'[d] = task[d]
  BY <1>1, ReturnType DEF InfoConfirm
<1>3. Nowhere(s)
  BY <1>1 DEF Home, At
<1>4. Frame(s, -1)
  <2>1. \A r \in RoomIds : s \notin members[r]
    BY <1>3 DEF Nowhere, In
  <2>2. \A r \in RoomIds : ~WorksOn(task[s], r) /\ ~WorksOn(task[s], r)'
    BY <1>1, <1>2 DEF WorksOn, At
  <2> QED
    BY <1>1, <1>2, <2>1, <2>2 DEF Frame, vars
<1>5. RoomsSound'
  <2>1. -1 \in Int /\ -1 \notin RoomIds
    BY RoomsAssumption DEF RoomIds
  <2> QED
    BY <1>4, <2>1, SoundStep
<1>6. \A d \in Users \ {s} : Home(d)'
  BY <1>1, <1>2, HomeSame DEF vars, Apart, Homes
<1>7. Home(s)'
  BY <1>1, <1>2, <1>3 DEF Home, Nowhere, In, At, Idle, vars, ReadyPlaces, LoadPlaces
<1> QED
  BY <1>5, <1>6, <1>7 DEF Homes

-----------------------------------------------------------------------------
(* The invariant.                                                          *)

\* Every statement of every handler, in a state without a collision, either
\* leads to a collision or keeps the rooms and the clients in order.
LEMMA ApartStep ==
    ASSUME Apart, ~Collision', RaceNext
    PROVE  RoomsSound' /\ Homes'
<1>1. PICK s \in Users :
        \/ ScanMake(s) \/ LeaveMake(s) \/ FillMake(s) \/ InsertMake(s)
        \/ TellMake(s) \/ InfoMake(s)
        \/ ScanQuick(s) \/ \E r \in RoomIds : TestJoin(s, r)
        \/ EnterJoin(s) \/ InsertJoin(s) \/ NumberJoin(s) \/ FullJoin(s)
        \/ TellJoin(s) \/ InfoJoin(s)
        \/ TakeReady(s) \/ StoreReady(s) \/ TestReady(s) \/ StartReady(s)
        \/ TakeLoaded(s) \/ StoreLoaded(s) \/ InsertLoaded(s) \/ TestLoaded(s)
        \/ TakeConfirm(s) \/ EraseConfirm(s) \/ TestConfirm(s)
        \/ ClearConfirm(s) \/ InfoConfirm(s)
  BY Zenon DEF RaceNext
<1>2. CASE ScanMake(s) \/ LeaveMake(s) \/ FillMake(s) \/ InsertMake(s)
           \/ TellMake(s) \/ InfoMake(s)
  BY <1>2, ScanMakeSafe, LeaveMakeSafe, FillMakeSafe, InsertMakeSafe, TellMakeSafe,
     InfoMakeSafe
<1>3. CASE ScanQuick(s) \/ \E r \in RoomIds : TestJoin(s, r)
  BY <1>3, BeginJoinSafe
<1>4. CASE EnterJoin(s) \/ InsertJoin(s) \/ NumberJoin(s) \/ FullJoin(s)
           \/ TellJoin(s) \/ InfoJoin(s)
  BY <1>4, EnterJoinSafe, InsertJoinSafe, NumberJoinSafe, FullJoinSafe, TellJoinSafe,
     InfoJoinSafe
<1>5. CASE TakeReady(s) \/ StoreReady(s) \/ TestReady(s) \/ StartReady(s)
  BY <1>5, TakeReadySafe, StoreReadySafe, TestReadySafe, StartReadySafe
<1>6. CASE TakeLoaded(s) \/ StoreLoaded(s) \/ InsertLoaded(s) \/ TestLoaded(s)
  BY <1>6, TakeLoadedSafe, StoreLoadedSafe, InsertLoadedSafe, TestLoadedSafe
<1>7. CASE TakeConfirm(s) \/ EraseConfirm(s) \/ TestConfirm(s)
           \/ ClearConfirm(s) \/ InfoConfirm(s)
  BY <1>7, TakeConfirmSafe, EraseConfirmSafe, TestConfirmSafe, ClearConfirmSafe,
     InfoConfirmSafe
<1> QED
  BY <1>1, <1>2, <1>3, <1>4, <1>5, <1>6, <1>7

\* A collision is remembered by the step after it.
LEMMA Remembered ==
    ASSUME RaceNext, ~collided'
    PROVE  ~collided /\ ~Collision
<1>1. PICK s \in Users : (\E at, r, n : Goto(s, at, r, n)) \/ Return(s)
  <2>1. ASSUME NEW s \in Users,
               \/ ScanMake(s) \/ LeaveMake(s) \/ FillMake(s) \/ InsertMake(s)
               \/ TellMake(s) \/ InfoMake(s)
        PROVE  (\E at, r, n : Goto(s, at, r, n)) \/ Return(s)
    BY <2>1, Zenon DEF ScanMake, LeaveMake, FillMake, InsertMake, TellMake, InfoMake
  <2>2. ASSUME NEW s \in Users,
               \/ ScanQuick(s) \/ \E r \in RoomIds : TestJoin(s, r)
               \/ EnterJoin(s) \/ InsertJoin(s) \/ NumberJoin(s) \/ FullJoin(s)
               \/ TellJoin(s) \/ InfoJoin(s)
        PROVE  (\E at, r, n : Goto(s, at, r, n)) \/ Return(s)
    BY <2>2, Zenon DEF ScanQuick, TestJoin, EnterJoin, InsertJoin, NumberJoin, FullJoin,
                       TellJoin, InfoJoin
  <2>3. ASSUME NEW s \in Users,
               TakeReady(s) \/ StoreReady(s) \/ TestReady(s) \/ StartReady(s)
        PROVE  (\E at, r, n : Goto(s, at, r, n)) \/ Return(s)
    BY <2>3, Zenon DEF TakeReady, StoreReady, TestReady, StartReady
  <2>4. ASSUME NEW s \in Users,
               TakeLoaded(s) \/ StoreLoaded(s) \/ InsertLoaded(s) \/ TestLoaded(s)
        PROVE  (\E at, r, n : Goto(s, at, r, n)) \/ Return(s)
    BY <2>4, Zenon DEF TakeLoaded, StoreLoaded, InsertLoaded, TestLoaded
  <2>5. ASSUME NEW s \in Users,
               \/ TakeConfirm(s) \/ EraseConfirm(s) \/ TestConfirm(s)
               \/ ClearConfirm(s) \/ InfoConfirm(s)
        PROVE  (\E at, r, n : Goto(s, at, r, n)) \/ Return(s)
    BY <2>5, Zenon DEF TakeConfirm, EraseConfirm, TestConfirm, ClearConfirm, InfoConfirm
  <2> QED
    BY <2>1, <2>2, <2>3, <2>4, <2>5, Zenon DEF RaceNext
<1> QED
  BY <1>1, Zenon DEF Goto, Return

LEMMA RaceStep == RaceInv /\ [RaceNext]_raceVars => RaceInv'
<1> SUFFICES ASSUME RaceInv, [RaceNext]_raceVars PROVE RaceInv'
  OBVIOUS
<1>1. RaceTypeOK' /\ AllConnected'
  BY RaceTypeStep, ConnectedStep DEF RaceInv
<1>2. ASSUME ~collided', ~Collision'
      PROVE  RoomsSound' /\ \A s \in Users : Home(s)'
  <2>1. CASE RaceNext
    <3>1. ~collided /\ ~Collision
      BY <1>2, <2>1, Remembered
    <3>2. Apart
      BY <3>1 DEF RaceInv, Apart, Homes
    <3> QED
      BY <1>2, <2>1, <3>2, ApartStep DEF Homes
  <2>2. CASE UNCHANGED raceVars
    <3>1. ~collided
      BY <1>2, <2>2 DEF raceVars
    <3>2. Collision' <=> Collision
      BY <2>2 DEF raceVars, vars, Collision, WorksOn, Making
    <3>3. RoomsSound /\ \A s \in Users : Home(s)
      BY <1>2, <3>1, <3>2 DEF RaceInv
    <3>4. RaceTypeOK /\ UNCHANGED <<vars, task, stage, myRoom>>
      BY <2>2 DEF RaceInv, raceVars, client
    <3>5. \A r \in RoomIds : Untouched(r)' <=> Untouched(r)
      BY <3>4 DEF Untouched, WorksOn, Making, vars
    <3>6. \A r \in RoomIds, s \in Users : WorksOn(task[s], r)' <=> WorksOn(task[s], r)
      BY <3>4 DEF WorksOn, Making, vars
    <3>7. RoomsSound'
      BY <3>3, <3>4, <3>5, <3>6, SameSound, SameMidway DEF RoomsSound, vars
    <3>8. \A s \in Users : Home(s)'
      BY <3>3, <3>4, HomeSame DEF vars
    <3> QED
      BY <3>7, <3>8
  <2> QED
    BY <2>1, <2>2
<1> QED
  BY <1>1, <1>2 DEF RaceInv

LEMMA RaceStart == RaceInit => RaceInv
<1> SUFFICES ASSUME RaceInit PROVE RaceInv
  OBVIOUS
<1>1. RaceTypeOK
  <2>1. TypeOK
    BY PlacesTyped DEF RaceInit, TypeOK, Byte, Status
  <2>2. Idle \in [at : Places, r : RoomIds, n : Byte]
    BY PlacesTyped DEF Idle, Places
  <2>3. list \in [Users -> [RoomIds -> [status : Status, count : Nat]]]
    BY DEF RaceInit, NoList, Status
  <2> QED
    BY <2>1, <2>2, <2>3, PlacesTyped DEF RaceInit, RaceTypeOK, Stages
<1>2. AllConnected
  BY DEF RaceInit, AllConnected
<1>3. \A s \in Users, r \in RoomIds : ~WorksOn(task[s], r)
  BY DEF RaceInit, WorksOn
<1>4. \A r \in RoomIds : Sound(r)
  BY DEF RaceInit, Sound, Empty, NobodyLoaded
<1>5. \A s \in Users : Home(s)
  BY DEF RaceInit, Home, Nowhere, In, At, Idle, ReadyPlaces, LoadPlaces
<1> QED
  BY <1>1, <1>2, <1>3, <1>4, <1>5 DEF RaceInv, RoomsSound

\* The invariant of overlapping handlers, for any number of clients, rooms
\* and workers
LEMMA RaceAlways == RaceSpec => []RaceInv
  BY RaceStart, RaceStep, PTL DEF RaceSpec

LEMMA SoundSays ==
    ASSUME RaceTypeOK, NEW r \in RoomIds, Sound(r)
    PROVE  /\ status[r] = "EMPTY" <=> members[r] = {}
           /\ status[r] = "FULL" => Size(r) = MaxGamer
           /\ status[r] = "JOINABLE" => readycount[r] < Size(r) /\ Size(r) < MaxGamer
           /\ loadcount[r] < Size(r) \/ loadcount[r] = 0
           /\ \A s, t \in members[r] : gameID[s] = gameID[t] => s = t
<1>1. CASE Empty(r)
  BY <1>1 DEF Empty, NobodyLoaded
<1>2. CASE Waits(r)
  <2>1. members[r] # {}
    BY <1>2, SoundRoom DEF Waits, Counted, Empty
  <2> QED
    BY <1>2, <2>1 DEF Waits, Counted, NobodyLoaded, Numbered, Distinct
<1>3. CASE Loads(r)
  <2>1. members[r] \in SUBSET Users /\ accepted[r] \in SUBSET members[r]
    BY <1>3 DEF Loads, Loading, RaceTypeOK, TypeOK
  <2>2. Cardinality(accepted[r]) < Size(r)
    BY <1>3, <2>1, CountSubset, SubsetOfUsers DEF Loads, Size
  <2> QED
    BY <1>3, <2>1, <2>2 DEF Loads, Loading, Distinct
<1>4. CASE Plays(r)
  BY <1>4 DEF Plays, Playing, Distinct
<1> QED
  BY <1>1, <1>2, <1>3, <1>4 DEF Sound

\* Handlers that overlap do no harm while they work on different rooms and
\* only one of them makes a room (ProcessPacket, PacketFunc.cpp:480-706 and
\* LobbyReset): whatever the number of clients, rooms and workers, every room
\* that nobody is working on is sound, and a client that waits for nothing is
\* in the room it believes to be in.
THEOREM HandlersApart == RaceSpec => []ApartIsSafe
<1>1. RaceInv => ApartIsSafe
  <2> SUFFICES ASSUME RaceInv, ~collided, ~Collision
               PROVE  /\ \A r \in RoomIds : Untouched(r) =>
                            /\ status[r] = "EMPTY" <=> members[r] = {}
                            /\ status[r] = "FULL" => Size(r) = MaxGamer
                            /\ status[r] = "JOINABLE" =>
                                  readycount[r] < Size(r) /\ Size(r) < MaxGamer
                            /\ loadcount[r] < Size(r) \/ loadcount[r] = 0
                            /\ \A s, t \in members[r] : gameID[s] = gameID[t] => s = t
                      /\ \A s \in Users : task[s] = Idle =>
                            IF stage[s] = "LOBBY" THEN lobby[s] ELSE s \in members[myRoom[s]]
    BY DEF ApartIsSafe
  <2>1. RaceTypeOK /\ RoomsSound /\ \A s \in Users : Home(s)
    BY DEF RaceInv
  <2>2. \A r \in RoomIds : Untouched(r) => Sound(r)
    BY <2>1 DEF RoomsSound
  <2>3. ASSUME NEW s \in Users, task[s] = Idle
        PROVE  IF stage[s] = "LOBBY" THEN lobby[s] ELSE s \in members[myRoom[s]]
    <3>1. At(s, "idle") /\ myRoom[s] \in RoomIds
      BY <2>1, <2>3 DEF At, Idle, RaceTypeOK
    <3> QED
      BY <2>1, <3>1 DEF Home, Nowhere, In
  <2> QED
    BY <2>1, <2>2, <2>3, SoundSays
<1> QED
  BY <1>1, RaceAlways, PTL

-----------------------------------------------------------------------------
(* Handlers that do not overlap.  While one runs, "before" is the server   *)
(* when it began, and the server is "before" with the statements applied   *)
(* that the handler has done.                                              *)

TypedBefore ==
    /\ before.lobby \in [Users -> BOOLEAN] /\ before.gameID \in [Users -> Byte]
    /\ before.status \in [RoomIds -> Status] /\ before.members \in [RoomIds -> SUBSET Users]
    /\ before.accepted \in [RoomIds -> SUBSET Users]
    /\ before.readycount \in [RoomIds -> Byte] /\ before.loadcount \in [RoomIds -> Byte]

Among(s, places) == task[s].at \in places
NoRoom == {r \in RoomIds : before.members[r] = {}}

PartMake(s) ==
    /\ before.lobby[s] /\ NoRoom # {} /\ roomNum = FirstRoom(NoRoom)
    /\ lobby = IF At(s, "make.leave") THEN before.lobby
               ELSE [before.lobby EXCEPT ![s] = FALSE]
    /\ gameID = IF At(s, "make.leave") THEN before.gameID
                ELSE [before.gameID EXCEPT ![s] = 0]
    /\ status = IF Among(s, {"make.leave", "make.fill"}) THEN before.status
                ELSE [before.status EXCEPT ![roomNum] = "JOINABLE"]
    /\ members = IF Among(s, {"make.leave", "make.fill", "make.insert"}) THEN before.members
                 ELSE [before.members EXCEPT ![roomNum] = @ \cup {s}]
    /\ accepted = before.accepted /\ readycount = before.readycount
    /\ loadcount = before.loadcount

PartJoin(s, r) ==
    LET now == Cardinality(before.members[r] \cup {s}) IN
    /\ before.lobby[s] /\ before.status[r] = "JOINABLE"
    /\ lobby = IF At(s, "join.enter") THEN before.lobby
               ELSE [before.lobby EXCEPT ![s] = FALSE]
    /\ readycount = IF At(s, "join.enter") THEN before.readycount
                    ELSE [before.readycount EXCEPT ![r] = 0]
    /\ members = IF Among(s, {"join.enter", "join.insert"}) THEN before.members
                 ELSE [before.members EXCEPT ![r] = @ \cup {s}]
    /\ gameID = IF Among(s, {"join.enter", "join.insert", "join.number"}) THEN before.gameID
                ELSE [before.gameID EXCEPT ![s] = NewGameID(now)]
    /\ status = IF Among(s, {"join.tell", "join.info"})
                THEN [before.status EXCEPT ![r] = EnteredStatus(now, @)] ELSE before.status
    /\ roomNum = before.roomNum /\ accepted = before.accepted
    /\ loadcount = before.loadcount

PartReady(s, r) ==
    /\ s \in before.members[r] \ before.accepted[r] /\ before.readycount[r] < ReadyBound
    /\ At(s, "ready.store") =>
          readycount = before.readycount /\ task[s].n = before.readycount[r]
    /\ At(s, "ready.test") =>
          readycount = [before.readycount EXCEPT ![r] = Inc(@)]
    /\ At(s, "ready.start") =>
          /\ readycount = [before.readycount EXCEPT ![r] = 0]
          /\ Inc(before.readycount[r]) = Cardinality(before.members[r])
    /\ status = IF At(s, "ready.start") THEN [before.status EXCEPT ![r] = "INGAME"]
                ELSE before.status
    /\ lobby = before.lobby /\ gameID = before.gameID /\ roomNum = before.roomNum
    /\ members = before.members /\ accepted = before.accepted
    /\ loadcount = before.loadcount

PartLoad(s, r) ==
    /\ s \in before.members[r] \ before.accepted[r] /\ before.status[r] = "INGAME"
    /\ At(s, "load.store") =>
          loadcount = before.loadcount /\ task[s].n = before.loadcount[r]
    /\ ~At(s, "load.store") =>
          loadcount = [before.loadcount EXCEPT ![r] = Inc(@)]
    /\ accepted = IF At(s, "load.test") THEN [before.accepted EXCEPT ![r] = @ \cup {s}]
                  ELSE before.accepted
    /\ lobby = before.lobby /\ gameID = before.gameID /\ roomNum = before.roomNum
    /\ members = before.members /\ status = before.status
    /\ readycount = before.readycount

PartLeave(s, r) ==
    LET cleared == At(s, "leave.info") /\ before.members[r] \ {s} = {} IN
    /\ s \in before.members[r] /\ before.status[r] = "INGAME"
    /\ before.members[r] \subseteq before.accepted[r]
    /\ lobby = [before.lobby EXCEPT ![s] = TRUE]
    /\ gameID = [before.gameID EXCEPT ![s] = 0]
    /\ members = IF At(s, "leave.erase") THEN before.members
                 ELSE [before.members EXCEPT ![r] = @ \ {s}]
    /\ At(s, "leave.clear") => before.members[r] \ {s} = {}
    /\ status = IF cleared THEN [before.status EXCEPT ![r] = "EMPTY"] ELSE before.status
    /\ accepted = IF cleared THEN [before.accepted EXCEPT ![r] = {}] ELSE before.accepted
    /\ readycount = IF cleared THEN [before.readycount EXCEPT ![r] = 0]
                    ELSE before.readycount
    /\ loadcount = IF cleared THEN [before.loadcount EXCEPT ![r] = 0] ELSE before.loadcount
    /\ roomNum = before.roomNum

Part(s) ==
    /\ TypedBefore
    /\ Among(s, MakePlaces) => PartMake(s)
    /\ Among(s, JoinPlaces) => PartJoin(s, task[s].r)
    /\ Among(s, ReadyPlaces) => PartReady(s, task[s].r)
    /\ Among(s, LoadPlaces) => PartLoad(s, task[s].r)
    /\ Among(s, LeavePlaces) => PartLeave(s, task[s].r)

\* The list of u is right about room r.
Shows(u, r) ==
    /\ list[u][r].count = Size(r)
    /\ list[u][r].status = status[r] \/ (status[r] = "INGAME" /\ Size(r) > 0)

\* A running handler will send the list of room r.
WillSend(r) ==
    \E s \in Users :
        \/ Among(s, LeavePlaces)
        \/ Among(s, MakePlaces \cup JoinPlaces) /\ r = WorkRoom(s)

Alone == \A s, t \in Users : task[s] # Idle /\ task[t] # Idle => s = t
ListsRight == \A u \in Users, r \in RoomIds : lobby[u] /\ ~WillSend(r) => Shows(u, r)
SerialInv ==
    ~overlapped =>
        /\ ~collided /\ Alone /\ ListsRight
        /\ \A s \in Users : task[s] # Idle => Part(s)

-----------------------------------------------------------------------------
(* What all steps of a handler that runs alone have in common.             *)

LEMMA AloneIsApart ==
    ASSUME RaceInv, SerialInv, ~overlapped
    PROVE  Apart /\ Alone /\ ListsRight /\ ~collided
           /\ \A s \in Users : task[s] # Idle => Part(s)
<1>1. Alone /\ ~collided /\ ListsRight /\ \A s \in Users : task[s] # Idle => Part(s)
  BY DEF SerialInv
<1>2. ~Collision
  <2>1. \A s \in Users : Making(task[s]) => task[s] # Idle
    BY DEF Making, Idle
  <2> QED
    BY <1>1, <2>1 DEF Collision, Alone, WorksOn
<1> QED
  BY <1>1, <1>2 DEF RaceInv, Apart, Homes

\* The handler goes on: nothing happens between the handlers.
LEMMA GoOn ==
    ASSUME RaceInv, SerialInv, ~overlapped',
           NEW s \in Users, NEW at \in Places \ {"idle"}, NEW r \in RoomIds, NEW n \in Byte,
           Goto(s, at, r, n), UNCHANGED <<connect, hung>>,
           task[s] = Idle => UNCHANGED <<lobby, gameID, status, members, accepted,
                                         readycount, loadcount>>
    PROVE  /\ ~overlapped /\ Apart /\ Alone /\ ListsRight
           /\ task[s] # Idle => Part(s)
           /\ \A d \in Users \ {s} : task[d] = Idle /\ task'[d] = Idle
           /\ task'[s] = [at |-> at, r |-> r, n |-> n]
           /\ before' = IF task[s] = Idle THEN Snapshot ELSE before
           /\ UNCHANGED R!vars
           /\ Part(s)' /\ ListsRight' => SerialInv'
<1>1. ~overlapped /\ Running \ {s} = {}
  BY Zenon DEF Goto
<1>2. Apart /\ Alone /\ ListsRight /\ ~collided /\ (task[s] # Idle => Part(s))
  BY <1>1, AloneIsApart
<1>3. RaceTypeOK
  BY DEF RaceInv
<1>4. /\ task'[s] = [at |-> at, r |-> r, n |-> n]
      /\ \A d \in Users \ {s} : task'[d] = task[d]
  BY <1>3, GotoType
<1>5. \A d \in Users \ {s} : task[d] = Idle /\ task'[d] = Idle
  BY <1>1, <1>4 DEF Running
<1>6. task'[s] # Idle
  BY <1>4 DEF Idle
<1>7. (Quiet <=> task[s] = Idle) /\ ~Quiet'
  <2>1. ~Quiet'
    BY <1>6 DEF Quiet, Running
  <2>2. Quiet <=> task[s] = Idle
    BY <1>1 DEF Quiet, Running
  <2> QED
    BY <2>1, <2>2
<1>8. before' = IF Quiet THEN Snapshot ELSE before
  BY Zenon DEF Goto
<1>9. UNCHANGED R!vars
  <2>1. CASE Quiet
    <3>1. /\ before'.lobby = lobby /\ before'.gameID = gameID /\ before'.roomNum = roomNum
          /\ before'.status = status /\ before'.members = members
          /\ before'.accepted = accepted /\ before'.readycount = readycount
          /\ before'.loadcount = loadcount
      BY <1>8, <2>1 DEF Snapshot
    <3> QED
      BY <1>7, <2>1, <3>1 DEF R!vars, Settled
  <2>2. CASE ~Quiet
    BY <1>7, <1>8, <2>2 DEF R!vars, Settled
  <2> QED
    BY <2>1, <2>2
<1>10. ~collided'
  BY <1>2, Zenon DEF Goto, Apart
<1>11. Alone'
  BY <1>5 DEF Alone
<1>12. ASSUME Part(s)', ListsRight' PROVE SerialInv'
  BY <1>5, <1>10, <1>11, <1>12 DEF SerialInv
<1> QED
  BY <1>1, <1>2, <1>4, <1>5, <1>7, <1>8, <1>9, <1>12

\* At a return, what Rooms sees before it and after it
SeenBefore ==
    /\ Settled(lobby, before.lobby) = before.lobby
    /\ Settled(gameID, before.gameID) = before.gameID
    /\ Settled(roomNum, before.roomNum) = before.roomNum
    /\ Settled(status, before.status) = before.status
    /\ Settled(members, before.members) = before.members
    /\ Settled(accepted, before.accepted) = before.accepted
    /\ Settled(readycount, before.readycount) = before.readycount
    /\ Settled(loadcount, before.loadcount) = before.loadcount
SeenAfter ==
    /\ Settled(lobby, before.lobby) = lobby /\ Settled(gameID, before.gameID) = gameID
    /\ Settled(roomNum, before.roomNum) = roomNum /\ Settled(status, before.status) = status
    /\ Settled(members, before.members) = members
    /\ Settled(accepted, before.accepted) = accepted
    /\ Settled(readycount, before.readycount) = readycount
    /\ Settled(loadcount, before.loadcount) = loadcount

\* The handler returns: between the handlers, "before" becomes what the
\* server is now.
LEMMA ComesBack ==
    ASSUME RaceInv, SerialInv, ~overlapped', NEW s \in Users, task[s] # Idle, Return(s)
    PROVE  /\ ~overlapped /\ Apart /\ Alone /\ ListsRight /\ Part(s)
           /\ \A d \in Users \ {s} : task[d] = Idle
           /\ \A d \in Users : task'[d] = Idle
           /\ SeenBefore /\ SeenAfter' /\ Quiet'
           /\ ListsRight' => SerialInv'
<1>1. ~overlapped /\ overlapped' = overlapped
  BY Zenon DEF Return
<1>2. Apart /\ Alone /\ ListsRight /\ ~collided /\ Part(s)
  BY <1>1, AloneIsApart
<1>3. RaceTypeOK
  BY DEF RaceInv
<1>4. task'[s] = Idle /\ \A d \in Users \ {s} : task'[d] = task[d]
  BY <1>3, ReturnType
<1>5. \A d \in Users \ {s} : task[d] = Idle
  BY <1>2 DEF Alone
<1>6. \A d \in Users : task'[d] = Idle
  BY <1>4, <1>5
<1>7. Quiet'
  BY <1>6 DEF Quiet, Running
<1>8. ~Quiet
  BY DEF Quiet, Running
<1>9. SeenBefore /\ SeenAfter'
  BY <1>7, <1>8 DEF Settled, SeenBefore, SeenAfter
<1>10. ~collided'
  BY <1>2, Zenon DEF Return, Apart
<1>11. Alone'
  BY <1>6 DEF Alone
<1>12. ASSUME ListsRight' PROVE SerialInv'
  BY <1>6, <1>10, <1>11, <1>12 DEF SerialInv
<1> QED
  BY <1>1, <1>2, <1>5, <1>6, <1>7, <1>9, <1>12

\* The lists, while a room is made or joined
LEMMA ListsInRoom ==
    ASSUME ListsRight, NEW s \in Users, NEW q \in RoomIds,
           \A d \in Users \ {s} : task[d] = Idle,
           Among(s, {"idle"}) \/ (Among(s, MakePlaces \cup JoinPlaces) /\ WorkRoom(s) = q),
           Among(s, MakePlaces \cup JoinPlaces)', WorkRoom(s)' = q,
           \A r \in RoomIds \ {q} : status'[r] = status[r] /\ members'[r] = members[r],
           \A u \in Users : lobby'[u] => lobby[u] /\ list'[u] = list[u]
    PROVE  ListsRight'
<1> SUFFICES ASSUME NEW u \in Users, NEW r \in RoomIds, lobby'[u], ~WillSend(r)'
             PROVE  Shows(u, r)'
  BY DEF ListsRight
<1>1. r # q
  BY DEF WillSend
<1>2. ~WillSend(r)
  BY <1>1 DEF WillSend, Among, Idle, MakePlaces, JoinPlaces, LeavePlaces
<1>3. Shows(u, r)
  BY <1>2 DEF ListsRight
<1> QED
  BY <1>1, <1>3 DEF Shows, Size

\* The lists, while a handler only counts or starts a game
LEMMA ListsInGame ==
    ASSUME ListsRight, NEW s \in Users,
           \A d \in Users \ {s} : task[d] = Idle,
           Among(s, {"idle"} \cup ReadyPlaces \cup LoadPlaces),
           UNCHANGED <<lobby, list, members>>,
           \A r \in RoomIds : status'[r] = status[r] \/ (status'[r] = "INGAME" /\ Size(r) > 0)
    PROVE  ListsRight'
<1> SUFFICES ASSUME NEW u \in Users, NEW r \in RoomIds, lobby'[u], ~WillSend(r)'
             PROVE  Shows(u, r)'
  BY DEF ListsRight
<1>1. ~WillSend(r)
  BY DEF WillSend, Among, Idle, MakePlaces, JoinPlaces, LeavePlaces, ReadyPlaces, LoadPlaces
<1>2. Shows(u, r) /\ Size(r)' = Size(r)
  BY <1>1 DEF ListsRight, Size
<1> QED
  BY <1>2 DEF Shows

\* The lists, while a player leaves
LEMMA ListsInLeave ==
    ASSUME NEW s \in Users, Among(s, LeavePlaces)'
    PROVE  ListsRight'
  BY DEF ListsRight, WillSend

\* The lists after SendRoomInfo
LEMMA ListsSent ==
    ASSUME RaceTypeOK, AllConnected, ListsRight, NEW T \in SUBSET RoomIds,
           list' = SendRoomInfo(T), UNCHANGED <<lobby, status, members>>,
           \A r \in RoomIds \ T : ~WillSend(r)
    PROVE  ListsRight'
<1> SUFFICES ASSUME NEW u \in Users, NEW r \in RoomIds, lobby'[u] PROVE Shows(u, r)'
  BY DEF ListsRight
<1>1. list'[u][r] = IF r \in T THEN Listed(r) ELSE list[u][r]
  BY DEF SendRoomInfo, AllConnected
<1>2. Size(r)' = Size(r)
  BY DEF Size
<1>3. CASE r \in T
  BY <1>1, <1>2, <1>3 DEF Shows, Listed
<1>4. CASE r \notin T
  BY <1>1, <1>2, <1>4 DEF Shows, ListsRight
<1> QED
  BY <1>3, <1>4

-----------------------------------------------------------------------------
(* The steps of Rooms, statement by statement.                             *)

\* What a step amounts to
Atomic == SerialInv' /\ (R!Next \/ UNCHANGED R!vars)

LEMMA SnapshotTyped ==
    ASSUME TypeOK, before' = Snapshot
    PROVE  /\ TypedBefore'
           /\ before'.lobby = lobby /\ before'.gameID = gameID /\ before'.roomNum = roomNum
           /\ before'.status = status /\ before'.members = members
           /\ before'.accepted = accepted /\ before'.readycount = readycount
           /\ before'.loadcount = loadcount
<1>1. /\ before'.lobby = lobby /\ before'.gameID = gameID /\ before'.roomNum = roomNum
      /\ before'.status = status /\ before'.members = members
      /\ before'.accepted = accepted /\ before'.readycount = readycount
      /\ before'.loadcount = loadcount
  BY DEF Snapshot
<1> QED
  BY <1>1 DEF TypedBefore, TypeOK

LEMMA ScanMakeSerial ==
    ASSUME RaceInv, SerialInv, ~overlapped', NEW s \in Users, ScanMake(s)
    PROVE  Atomic
<1>1. /\ At(s, "idle") /\ stage[s] = "LOBBY" /\ task[s] = Idle /\ RaceTypeOK /\ TypeOK
      /\ UNCHANGED <<clientVars, roomVars, hung, client>>
      /\ EmptyRooms \in SUBSET RoomIds /\ EmptyRooms # {} /\ roomNum' = FirstRoom(EmptyRooms)
  BY DEF ScanMake, Takes, Idle, At, RaceInv, RaceTypeOK, EmptyRooms, MakeScan
<1>2. /\ Apart /\ ListsRight /\ before' = Snapshot /\ UNCHANGED R!vars
      /\ \A d \in Users \ {s} : task[d] = Idle
      /\ task'[s] = [at |-> "make.leave", r |-> 0, n |-> 0]
      /\ Part(s)' /\ ListsRight' => SerialInv'
  BY <1>1, GoOn, PlacesTyped DEF ScanMake, MakePlaces, clientVars, roomVars
<1>3. TypedBefore' /\ before'.lobby = lobby /\ before'.gameID = gameID
      /\ before'.status = status /\ before'.members = members
      /\ before'.accepted = accepted /\ before'.readycount = readycount
      /\ before'.loadcount = loadcount
  BY <1>1, <1>2, SnapshotTyped
<1>4. lobby[s]
  BY <1>1, <1>2 DEF Apart, Homes, Home, Nowhere
<1>5. NoRoom' = EmptyRooms
  BY <1>3 DEF NoRoom, EmptyRooms
<1>6. PartMake(s)'
  BY <1>1, <1>2, <1>3, <1>4, <1>5 DEF PartMake, At, Among, clientVars, roomVars
<1>7. Part(s)'
  BY <1>2, <1>3, <1>6 DEF Part, Among, MakePlaces, JoinPlaces, ReadyPlaces, LoadPlaces,
                          LeavePlaces
<1>8. ListsRight'
  <2>1. PICK q \in RoomIds : q = roomNum'
    BY <1>1, FirstRoomFound
  <2>2. WorkRoom(s)' = q
    BY <1>2, <2>1 DEF WorkRoom, Making
  <2> QED
    BY <1>1, <1>2, <2>2, ListsInRoom DEF Among, At, MakePlaces, clientVars, roomVars, client
<1> QED
  BY <1>2, <1>7, <1>8 DEF Atomic

LEMMA TaskIs ==
    ASSUME RaceTypeOK, NEW s \in Users, NEW at, NEW r, NEW n, Goto(s, at, r, n)
    PROVE  task'[s] = [at |-> at, r |-> r, n |-> n] /\ task'[s].at = at
<1>1. task' = [task EXCEPT ![s] = [at |-> at, r |-> r, n |-> n]]
  BY DEF Goto
<1> QED
  BY <1>1 DEF RaceTypeOK

LEMMA MidMakeSerial ==
    ASSUME RaceInv, SerialInv, ~overlapped', NEW s \in Users,
           LeaveMake(s) \/ FillMake(s) \/ InsertMake(s) \/ TellMake(s)
    PROVE  Atomic
<1>1. /\ Among(s, MakePlaces) /\ task[s] # Idle /\ RaceTypeOK /\ TypeOK
      /\ roomNum' = roomNum /\ roomNum \in RoomIds /\ UNCHANGED <<connect, hung>>
  BY DEF LeaveMake, FillMake, InsertMake, TellMake, At, Among, MakePlaces, Idle, RaceInv,
         RaceTypeOK, TypeOK, vars, clientVars
<1>2. PICK at \in MakePlaces : Goto(s, at, 0, 0)
  BY DEF LeaveMake, FillMake, InsertMake, TellMake, MakePlaces
<1>3. /\ Apart /\ ListsRight /\ before' = before /\ UNCHANGED R!vars
      /\ \A d \in Users \ {s} : task[d] = Idle
      /\ task'[s] = [at |-> at, r |-> 0, n |-> 0]
      /\ Part(s) /\ (Part(s)' /\ ListsRight' => SerialInv')
  BY <1>1, <1>2, GoOn, PlacesTyped
<1>4. TypedBefore' /\ NoRoom' = NoRoom /\ PartMake(s)
  BY <1>1, <1>3 DEF Part, TypedBefore, NoRoom
<1>5. /\ PartMake(s)' /\ at \in MakePlaces
      /\ \A r \in RoomIds \ {roomNum} : status'[r] = status[r] /\ members'[r] = members[r]
      /\ \A u \in Users : lobby'[u] => lobby[u] /\ list'[u] = list[u]
  <2>1. CASE LeaveMake(s)
    <3>1. Goto(s, "make.fill", 0, 0)
      BY <2>1 DEF LeaveMake
    <3>2. task'[s].at = "make.fill"
      BY <1>1, <3>1, TaskIs
    <3>3. \A u \in Users : lobby'[u] => lobby[u]
      BY <1>1, <2>1 DEF LeaveMake, TypeOK
    <3> QED
      BY <1>1, <1>3, <1>4, <2>1, <3>2, <3>3
         DEF LeaveMake, PartMake, At, Among, roomVars, client
  <2>2. CASE FillMake(s)
    <3>1. Goto(s, "make.insert", 0, 0)
      BY <2>2 DEF FillMake
    <3>2. task'[s].at = "make.insert"
      BY <1>1, <3>1, TaskIs
    <3> QED
      BY <1>1, <1>3, <1>4, <2>2, <3>2
         DEF FillMake, PartMake, At, Among, clientVars, client, TypeOK
  <2>3. CASE InsertMake(s)
    <3>1. Goto(s, "make.tell", 0, 0)
      BY <2>3 DEF InsertMake
    <3>2. task'[s].at = "make.tell"
      BY <1>1, <3>1, TaskIs
    <3>3. members' = [members EXCEPT ![roomNum] = members[roomNum] \cup {s}]
      <4>1. WorksOn(task[s], roomNum)
        BY <1>1, <2>3 DEF InsertMake, WorksOn, At, Making
      <4> QED
        BY <1>1, <1>3, <2>3, <4>1, InsertAlone DEF InsertMake
    <3>4. \A r \in RoomIds \ {roomNum} : members'[r] = members[r]
      BY <1>1, <3>3 DEF TypeOK
    <3> QED
      BY <1>1, <1>3, <1>4, <2>3, <3>2, <3>3, <3>4
         DEF InsertMake, PartMake, At, Among, clientVars, client
  <2>4. CASE TellMake(s)
    <3>1. Goto(s, "make.info", 0, 0)
      BY <2>4 DEF TellMake
    <3>2. task'[s].at = "make.info"
      BY <1>1, <3>1, TaskIs
    <3>3. ~lobby[s]
      BY <1>3, <2>4 DEF TellMake, Apart, Homes, Home, At
    <3>4. \A u \in Users : lobby'[u] => lobby[u] /\ list'[u] = list[u]
      BY <1>1, <2>4, <3>3 DEF TellMake, vars, RaceTypeOK
    <3> QED
      BY <1>1, <1>3, <1>4, <2>4, <3>2, <3>4 DEF TellMake, PartMake, At, Among, vars
  <2> QED
    BY <2>1, <2>2, <2>3, <2>4
<1>6. Part(s)'
  BY <1>3, <1>4, <1>5 DEF Part, Among, MakePlaces, JoinPlaces, ReadyPlaces, LoadPlaces,
                          LeavePlaces
<1>7. ListsRight'
  <2>1. PICK q \in RoomIds : q = roomNum
    BY <1>1
  <2>2. WorkRoom(s) = q /\ WorkRoom(s)' = q
    BY <1>1, <1>3, <1>5, <2>1 DEF WorkRoom, Making, Among, MakePlaces
  <2>3. Among(s, MakePlaces \cup JoinPlaces) /\ Among(s, MakePlaces \cup JoinPlaces)'
    BY <1>1, <1>3, <1>5 DEF Among
  <2> QED
    BY <1>3, <1>5, <2>1, <2>2, <2>3, ListsInRoom
<1> QED
  BY <1>3, <1>6, <1>7 DEF Atomic

\* Rooms counts with the same operator, and serves everybody.
LEMMA SameCardinality == \A S : R!Cardinality(S) = Cardinality(S)
  BY SMT DEF R!Cardinality, Cardinality

LEMMA AllServed ==
    ASSUME RaceInv, NEW s \in Users
    PROVE  R!Served(s) /\ connect[s] /\ hung = {} /\ s \in R!Users
<1>1. Cardinality({}) = 0
  BY FS_EmptySet
<1>2. hung = {} /\ connect[s]
  BY DEF RaceInv, AllConnected
<1>3. R!Cardinality(hung) = 0
  BY <1>1, <1>2, SameCardinality
<1> QED
  BY <1>2, <1>3, RoomsAssumption DEF R!Served, R!Users, Users

LEMMA InfoMakeSerial ==
    ASSUME RaceInv, SerialInv, ~overlapped', NEW s \in Users, InfoMake(s)
    PROVE  Atomic
<1>1. /\ At(s, "make.info") /\ task[s] # Idle /\ RaceTypeOK /\ TypeOK /\ AllConnected
      /\ Return(s) /\ UNCHANGED vars /\ list' = SendRoomInfo({roomNum})
      /\ {roomNum} \in SUBSET RoomIds
  BY DEF InfoMake, At, Idle, RaceInv, RaceTypeOK, TypeOK
<1>2. /\ ListsRight /\ Part(s) /\ SeenBefore /\ SeenAfter' /\ (ListsRight' => SerialInv')
      /\ \A d \in Users \ {s} : task[d] = Idle
  BY <1>1, ComesBack
<1>3. PartMake(s) /\ TypedBefore
  BY <1>1, <1>2 DEF Part, Among, At, MakePlaces
<1>4. SerialInv'
  <2>1. \A r \in RoomIds \ {roomNum} : ~WillSend(r)
    BY <1>1, <1>2 DEF WillSend, Among, At, WorkRoom, Making, Idle, MakePlaces, JoinPlaces,
                      LeavePlaces
  <2>2. UNCHANGED <<lobby, status, members>>
    BY <1>1 DEF vars
  <2> QED
    BY <1>1, <1>2, <2>1, <2>2, ListsSent
<1>5. R!EmptyRooms = NoRoom
  BY <1>2 DEF R!EmptyRooms, NoRoom, R!RoomIds, RoomIds, SeenBefore
<1>6. R!FirstRoom(R!EmptyRooms) = roomNum /\ R!EmptyRooms # {}
  <2>1. R!FirstRoom(NoRoom) = FirstRoom(NoRoom)
    BY DEF R!FirstRoom, FirstRoom
  <2> QED
    BY <1>3, <1>5, <2>1 DEF PartMake
<1>7. R!MakeRoom(s)
  <2>1. /\ lobby = [before.lobby EXCEPT ![s] = FALSE] /\ gameID = [before.gameID EXCEPT ![s] = 0]
        /\ status = [before.status EXCEPT ![roomNum] = "JOINABLE"]
        /\ members = [before.members EXCEPT ![roomNum] = @ \cup {s}]
        /\ accepted = before.accepted /\ readycount = before.readycount
        /\ loadcount = before.loadcount
    BY <1>1, <1>3 DEF PartMake, At, Among
  <2>2. (IF R!EmptyRooms # {} THEN R!FirstRoom(R!EmptyRooms)
         ELSE Settled(roomNum, before.roomNum)) = roomNum
    BY <1>6
  <2> QED
    BY <1>1, <1>2, <2>1, <2>2 DEF R!MakeRoom, vars, SeenBefore, SeenAfter
<1>8. R!Make(s)
  BY <1>2, <1>3, <1>6, <1>7, AllServed DEF R!Make, PartMake, SeenBefore
<1> QED
  BY <1>4, <1>8, AllServed DEF Atomic, R!Next

LEMMA EnterJoinBegins ==
    ASSUME RaceInv, SerialInv, ~overlapped', NEW s \in Users, NEW q \in RoomIds,
           Takes(s), stage[s] = "LOBBY", status[q] = "JOINABLE",
           Goto(s, "join.enter", q, 0), UNCHANGED <<vars, client>>
    PROVE  Atomic
<1>1. /\ At(s, "idle") /\ task[s] = Idle /\ RaceTypeOK /\ TypeOK
      /\ "join.enter" \in Places \ {"idle"} /\ UNCHANGED <<connect, hung>>
      /\ UNCHANGED <<lobby, gameID, status, members, accepted, readycount, loadcount>>
  BY DEF Takes, Idle, At, RaceInv, RaceTypeOK, Places, JoinPlaces, vars
<1>2. /\ Apart /\ ListsRight /\ before' = Snapshot /\ UNCHANGED R!vars
      /\ \A d \in Users \ {s} : task[d] = Idle
      /\ task'[s] = [at |-> "join.enter", r |-> q, n |-> 0]
      /\ Part(s)' /\ ListsRight' => SerialInv'
  BY <1>1, GoOn, PlacesTyped
<1>3. TypedBefore' /\ before'.lobby = lobby /\ before'.gameID = gameID
      /\ before'.roomNum = roomNum
      /\ before'.status = status /\ before'.members = members
      /\ before'.accepted = accepted /\ before'.readycount = readycount
      /\ before'.loadcount = loadcount
  BY <1>1, <1>2, SnapshotTyped
<1>4. lobby[s]
  BY <1>1, <1>2 DEF Apart, Homes, Home, Nowhere
<1>5. PartJoin(s, q)'
  BY <1>1, <1>2, <1>3, <1>4 DEF PartJoin, At, Among, vars
<1>6. Part(s)'
  BY <1>2, <1>3, <1>5 DEF Part, Among, MakePlaces, JoinPlaces, ReadyPlaces, LoadPlaces,
                          LeavePlaces
<1>7. ListsRight'
  <2>1. WorkRoom(s)' = q /\ Among(s, MakePlaces \cup JoinPlaces)' /\ Among(s, {"idle"})
    BY <1>1, <1>2 DEF WorkRoom, Making, Among, At, JoinPlaces
  <2>2. \A r \in RoomIds \ {q} : status'[r] = status[r] /\ members'[r] = members[r]
    BY <1>1
  <2>3. \A u \in Users : lobby'[u] => lobby[u] /\ list'[u] = list[u]
    BY <1>1 DEF client
  <2> QED
    BY <1>2, <2>1, <2>2, <2>3, ListsInRoom
<1> QED
  BY <1>2, <1>6, <1>7 DEF Atomic

LEMMA BeginJoinSerial ==
    ASSUME RaceInv, SerialInv, ~overlapped', NEW s \in Users,
           ScanQuick(s) \/ \E r \in RoomIds : TestJoin(s, r)
    PROVE  Atomic
<1>1. CASE ScanQuick(s)
  <2>1. Joinable \in SUBSET RoomIds /\ Joinable # {}
    BY <1>1 DEF ScanQuick, Joinable
  <2>2. PICK q \in Joinable : q = FirstRoom(Joinable)
    BY <2>1, FirstRoomFound
  <2>3. q \in RoomIds /\ status[q] = "JOINABLE"
    BY <2>2 DEF Joinable
  <2> QED
    BY <1>1, <2>2, <2>3, EnterJoinBegins DEF ScanQuick
<1>2. ASSUME NEW q \in RoomIds, TestJoin(s, q)
      PROVE  Atomic
  <2>1. status[q] \in Status \ Refused
    BY <1>2 DEF TestJoin, RaceInv, RaceTypeOK, TypeOK
  <2>2. status[q] = "JOINABLE"
    BY <2>1 DEF Status, Refused
  <2> QED
    BY <1>2, <2>2, EnterJoinBegins DEF TestJoin
<1> QED
  BY <1>1, <1>2

LEMMA MidJoinSerial ==
    ASSUME RaceInv, SerialInv, ~overlapped', NEW s \in Users,
           EnterJoin(s) \/ InsertJoin(s) \/ NumberJoin(s) \/ FullJoin(s) \/ TellJoin(s)
    PROVE  Atomic
<1>1. /\ Among(s, JoinPlaces) /\ task[s] # Idle /\ RaceTypeOK /\ TypeOK
      /\ roomNum' = roomNum /\ UNCHANGED <<connect, hung>>
  BY DEF EnterJoin, InsertJoin, NumberJoin, FullJoin, TellJoin, At, Among, JoinPlaces, Idle,
         RaceInv, RaceTypeOK, TypeOK, vars, clientVars
<1>q. PICK q \in RoomIds : q = task[s].r
  BY <1>1 DEF RaceTypeOK
<1>2. PICK at \in JoinPlaces : Goto(s, at, q, 0)
  BY <1>q DEF EnterJoin, InsertJoin, NumberJoin, FullJoin, TellJoin, JoinPlaces
<1>3. /\ Apart /\ ListsRight /\ before' = before /\ UNCHANGED R!vars
      /\ \A d \in Users \ {s} : task[d] = Idle
      /\ task'[s] = [at |-> at, r |-> q, n |-> 0]
      /\ Part(s) /\ (Part(s)' /\ ListsRight' => SerialInv')
  BY <1>1, <1>2, GoOn, PlacesTyped
<1>4. TypedBefore /\ TypedBefore' /\ PartJoin(s, q)
  BY <1>1, <1>3, <1>q DEF Part, TypedBefore
<1>5. /\ PartJoin(s, q)'
      /\ \A r \in RoomIds \ {q} : status'[r] = status[r] /\ members'[r] = members[r]
      /\ \A u \in Users : lobby'[u] => lobby[u] /\ list'[u] = list[u]
  <2>1. CASE EnterJoin(s)
    <3>1. task'[s].at = "join.insert"
      <4>1. Goto(s, "join.insert", q, 0)
        BY <1>q, <2>1 DEF EnterJoin
      <4> QED
        BY <1>1, <4>1, TaskIs
    <3>2. \A u \in Users : lobby'[u] => lobby[u]
      BY <1>1, <2>1 DEF EnterJoin, TypeOK
    <3> QED
      BY <1>1, <1>3, <1>4, <1>q, <2>1, <3>1, <3>2
         DEF EnterJoin, PartJoin, At, Among, ResetCount, client
  <2>2. CASE InsertJoin(s)
    <3>1. task'[s].at = "join.number"
      <4>1. Goto(s, "join.number", q, 0)
        BY <1>q, <2>2 DEF InsertJoin
      <4> QED
        BY <1>1, <4>1, TaskIs
    <3>2. members' = [members EXCEPT ![q] = members[q] \cup {s}]
      <4>1. WorksOn(task[s], q)
        BY <1>1, <1>q, <2>2 DEF InsertJoin, WorksOn, At, Making
      <4> QED
        BY <1>3, <1>q, <2>2, <4>1, InsertAlone DEF InsertJoin
    <3>3. \A r \in RoomIds \ {q} : members'[r] = members[r]
      BY <1>1, <3>2 DEF TypeOK
    <3> QED
      BY <1>1, <1>3, <1>4, <2>2, <3>1, <3>2, <3>3
         DEF InsertJoin, PartJoin, At, Among, clientVars, client
  <2>3. CASE NumberJoin(s)
    <3>1. task'[s].at = "join.full"
      <4>1. Goto(s, "join.full", q, 0)
        BY <1>q, <2>3 DEF NumberJoin
      <4> QED
        BY <1>1, <4>1, TaskIs
    <3>2. members[q] = before.members[q] \cup {s}
      BY <1>4, <2>3 DEF NumberJoin, PartJoin, At, Among, TypedBefore
    <3> QED
      <4>1. gameID' = [before.gameID EXCEPT ![s] =
                         NewGameID(Cardinality(before.members[q] \cup {s}))]
        <5>1. gameID' = [gameID EXCEPT ![s] = NewGameID(Size(q))]
          BY <1>q, <2>3 DEF NumberJoin
        <5>2. gameID = before.gameID
          BY <1>4, <2>3 DEF NumberJoin, PartJoin, At, Among
        <5> QED
          BY <3>2, <5>1, <5>2 DEF Size
      <4> QED
        BY <1>1, <1>3, <1>4, <2>3, <3>1, <4>1
           DEF NumberJoin, PartJoin, At, Among, roomVars, client
  <2>4. CASE FullJoin(s)
    <3>1. task'[s].at = "join.tell"
      <4>1. Goto(s, "join.tell", q, 0)
        BY <1>q, <2>4 DEF FullJoin
      <4> QED
        BY <1>1, <4>1, TaskIs
    <3>2. members[q] = before.members[q] \cup {s}
      BY <1>4, <2>4 DEF FullJoin, PartJoin, At, Among, TypedBefore
    <3>3. \A r \in RoomIds \ {q} : status'[r] = status[r]
      BY <1>1, <1>q, <2>4 DEF FullJoin, TypeOK
    <3> QED
      <4>1. status' = [before.status EXCEPT ![q] =
                         EnteredStatus(Cardinality(before.members[q] \cup {s}), @)]
        <5>1. status' = [status EXCEPT ![q] = EnteredStatus(Size(q), @)]
          BY <1>q, <2>4 DEF FullJoin
        <5>2. status = before.status
          BY <1>4, <2>4 DEF FullJoin, PartJoin, At, Among
        <5> QED
          BY <3>2, <5>1, <5>2 DEF Size
      <4> QED
        BY <1>1, <1>3, <1>4, <2>4, <3>1, <3>3, <4>1
           DEF FullJoin, PartJoin, At, Among, clientVars, client
  <2>5. CASE TellJoin(s)
    <3>1. task'[s].at = "join.info"
      <4>1. Goto(s, "join.info", q, 0)
        BY <1>q, <2>5 DEF TellJoin
      <4> QED
        BY <1>1, <4>1, TaskIs
    <3>3. ~lobby[s]
      BY <1>3, <2>5 DEF TellJoin, Apart, Homes, Home, At
    <3>4. \A u \in Users : lobby'[u] => lobby[u] /\ list'[u] = list[u]
      BY <1>1, <2>5, <3>3 DEF TellJoin, vars, RaceTypeOK
    <3> QED
      BY <1>1, <1>3, <1>4, <2>5, <3>1, <3>4 DEF TellJoin, PartJoin, At, Among, vars
  <2> QED
    BY <2>1, <2>2, <2>3, <2>4, <2>5
<1>6. Part(s)'
  BY <1>3, <1>4, <1>5 DEF Part, Among, MakePlaces, JoinPlaces, ReadyPlaces, LoadPlaces,
                          LeavePlaces
<1>7. ListsRight'
  <2>1. WorkRoom(s) = q /\ WorkRoom(s)' = q
    BY <1>1, <1>3, <1>q DEF WorkRoom, Making, Among, JoinPlaces
  <2>2. Among(s, MakePlaces \cup JoinPlaces) /\ Among(s, MakePlaces \cup JoinPlaces)'
    BY <1>1, <1>3 DEF Among
  <2> QED
    BY <1>3, <1>5, <2>1, <2>2, ListsInRoom
<1> QED
  BY <1>3, <1>6, <1>7 DEF Atomic

LEMMA InfoJoinSerial ==
    ASSUME RaceInv, SerialInv, ~overlapped', NEW s \in Users, InfoJoin(s)
    PROVE  Atomic
<1>q. PICK q \in RoomIds : q = task[s].r
  BY DEF RaceInv, RaceTypeOK
<1>1. /\ At(s, "join.info") /\ task[s] # Idle /\ RaceTypeOK /\ TypeOK /\ AllConnected
      /\ Return(s) /\ UNCHANGED vars /\ list' = SendRoomInfo({q})
      /\ {q} \in SUBSET RoomIds
  BY <1>q DEF InfoJoin, At, Idle, RaceInv, RaceTypeOK
<1>2. /\ ListsRight /\ Part(s) /\ SeenBefore /\ SeenAfter' /\ (ListsRight' => SerialInv')
      /\ \A d \in Users \ {s} : task[d] = Idle
  BY <1>1, ComesBack
<1>3. PartJoin(s, q) /\ TypedBefore
  BY <1>1, <1>2, <1>q DEF Part, Among, At, JoinPlaces
<1>4. SerialInv'
  <2>1. \A r \in RoomIds \ {q} : ~WillSend(r)
    BY <1>1, <1>2, <1>q DEF WillSend, Among, At, WorkRoom, Making, Idle, MakePlaces,
                            JoinPlaces, LeavePlaces
  <2>2. UNCHANGED <<lobby, status, members>>
    BY <1>1 DEF vars
  <2> QED
    BY <1>1, <1>2, <2>1, <2>2, ListsSent
<1>5. R!Enter(s, q)
  <2> DEFINE now == Cardinality(before.members[q] \cup {s})
  <2>1. /\ lobby = [before.lobby EXCEPT ![s] = FALSE]
        /\ gameID = [before.gameID EXCEPT ![s] = NewGameID(now)]
        /\ status = [before.status EXCEPT ![q] = EnteredStatus(now, @)]
        /\ members = [before.members EXCEPT ![q] = @ \cup {s}]
        /\ readycount = [before.readycount EXCEPT ![q] = 0]
        /\ roomNum = before.roomNum /\ accepted = before.accepted
        /\ loadcount = before.loadcount
    BY <1>1, <1>3 DEF PartJoin, At, Among
  <2>2. R!Cardinality(before.members[q] \cup {s}) = now
    BY SameCardinality
  <2>3. \A d \in Users : connect[d]
    BY <1>1 DEF AllConnected
  <2>4. \A d \in before.members[q] : connect[d]
    BY <1>3, <2>3 DEF TypedBefore
  <2>5. \A n, old : R!NewGameID(n) = NewGameID(n) /\ R!EnteredStatus(n, old) = EnteredStatus(n, old)
    BY DEF R!NewGameID, NewGameID, R!EnteredStatus, EnteredStatus
  <2>6. UNCHANGED <<connect, hung>>
    BY <1>1 DEF vars
  <2> HIDE DEF now
  <2> QED
    BY <1>1, <1>2, <2>1, <2>2, <2>4, <2>5, <2>6 DEF R!Enter, SeenBefore, SeenAfter, vars
<1>6. R!Join(s, q)
  <2>1. before.status[q] \notin R!Refused /\ before.lobby[s]
    BY <1>3 DEF PartJoin, R!Refused
  <2> QED
    BY <1>2, <1>5, <2>1, AllServed DEF R!Join, R!JoinRoom, SeenBefore
<1> QED
  BY <1>4, <1>6, AllServed DEF Atomic, R!Next, R!RoomIds, RoomIds

\* CS_READY
LEMMA TakeReadySerial ==
    ASSUME RaceInv, SerialInv, ~overlapped', NEW s \in Users, TakeReady(s)
    PROVE  Atomic
<1>q. PICK q \in RoomIds : q = myRoom[s]
  BY DEF RaceInv, RaceTypeOK
<1>1. /\ At(s, "idle") /\ task[s] = Idle /\ RaceTypeOK /\ TypeOK /\ stage[s] = "ROOM"
      /\ "ready.store" \in Places \ {"idle"} /\ UNCHANGED vars /\ UNCHANGED list
      /\ Goto(s, "ready.store", q, readycount[q]) /\ readycount[q] < ReadyBound
  BY <1>q DEF TakeReady, Takes, Idle, At, RaceInv, RaceTypeOK, Places, ReadyPlaces
<1>2. readycount[q] \in Byte /\ UNCHANGED <<connect, hung>>
      /\ UNCHANGED <<lobby, gameID, status, members, accepted, readycount, loadcount>>
  BY <1>1 DEF TypeOK, vars
<1>3. /\ Apart /\ ListsRight /\ before' = Snapshot /\ UNCHANGED R!vars
      /\ \A d \in Users \ {s} : task[d] = Idle
      /\ task'[s] = [at |-> "ready.store", r |-> q, n |-> readycount[q]]
      /\ Part(s)' /\ ListsRight' => SerialInv'
  BY <1>1, <1>2, GoOn
<1>4. TypedBefore' /\ before'.lobby = lobby /\ before'.gameID = gameID
      /\ before'.roomNum = roomNum
      /\ before'.status = status /\ before'.members = members
      /\ before'.accepted = accepted /\ before'.readycount = readycount
      /\ before'.loadcount = loadcount
  BY <1>1, <1>3, SnapshotTyped
<1>5. s \in members[q] \ accepted[q]
  <2>1. s \in members[q]
    BY <1>1, <1>3, <1>q DEF Apart, Homes, Home, Nowhere, In
  <2>2. Untouched(q)
    BY <1>1, <1>3 DEF Untouched, WorksOn
  <2>3. Waits(q)
    BY <1>1, <1>3, <2>1, <2>2, SoundRoom DEF Apart, RoomsSound
  <2> QED
    BY <2>1, <2>3 DEF Waits, Counted, NobodyLoaded
<1>6. PartReady(s, q)'
  BY <1>1, <1>3, <1>4, <1>5 DEF PartReady, At, vars
<1>7. Part(s)'
  BY <1>3, <1>4, <1>6 DEF Part, Among, MakePlaces, JoinPlaces, ReadyPlaces, LoadPlaces,
                          LeavePlaces
<1>8. ListsRight'
  BY <1>1, <1>2, <1>3, ListsInGame DEF Among, At
<1> QED
  BY <1>3, <1>7, <1>8 DEF Atomic

\* The state that PressReady makes of "before"
LEMMA PressReadyIs ==
    ASSUME RaceInv, SeenBefore, SeenAfter', UNCHANGED <<connect, hung>>,
           NEW s \in Users, NEW q \in RoomIds, TypedBefore, NEW start \in BOOLEAN,
           s \in before.members[q] \ before.accepted[q], before.readycount[q] < ReadyBound,
           start <=> Inc(before.readycount[q]) = Cardinality(before.members[q]),
           readycount' = [before.readycount EXCEPT
                             ![q] = IF start THEN 0 ELSE Inc(before.readycount[q])],
           status' = IF start THEN [before.status EXCEPT ![q] = "INGAME"] ELSE before.status,
           lobby' = before.lobby, gameID' = before.gameID, roomNum' = before.roomNum,
           members' = before.members, accepted' = before.accepted,
           loadcount' = before.loadcount
    PROVE  R!Next
<1>1. \A d \in before.members[q] : connect[d]
  BY DEF RaceInv, AllConnected, TypedBefore
<1>2. ~R!Unreachable(q)
  BY <1>1 DEF R!Unreachable, SeenBefore
<1>3. R!AllReady(q) <=> start
  <2>1. R!Size(q) = Cardinality(before.members[q])
    BY SameCardinality DEF R!Size, SeenBefore
  <2>2. R!Inc(before.readycount[q]) = Inc(before.readycount[q])
    BY DEF R!Inc, Inc
  <2> QED
    BY <2>1, <2>2 DEF R!AllReady, SeenBefore
<1>4. R!Inc(before.readycount[q]) = Inc(before.readycount[q])
  BY DEF R!Inc, Inc
<1>5. status' = [before.status EXCEPT ![q] = IF start THEN "INGAME" ELSE before.status[q]]
  BY DEF TypedBefore
<1>6. R!Ready(s, q)
  BY <1>2, <1>3, <1>4, <1>5 DEF R!Ready, R!AfterBroadcast, R!clientVars, SeenBefore, SeenAfter
<1>7. R!PressReady(s, q)
  BY <1>6, AllServed DEF R!PressReady, SeenBefore, R!ReadyBound, ReadyBound
<1> QED
  BY <1>7, AllServed DEF R!Next, R!RoomIds, RoomIds

LEMMA MidReadySerial ==
    ASSUME RaceInv, SerialInv, ~overlapped', NEW s \in Users, StoreReady(s) \/ TestReady(s)
    PROVE  Atomic
<1>q. PICK q \in RoomIds : q = task[s].r
  BY DEF RaceInv, RaceTypeOK
<1>1. /\ RaceTypeOK /\ TypeOK /\ Among(s, ReadyPlaces) /\ task[s] # Idle
      /\ UNCHANGED <<clientVars, roomNum, members, accepted, loadcount, hung, client>>
  BY DEF StoreReady, TestReady, RaceInv, RaceTypeOK, At, Among, ReadyPlaces, Idle
<1>2. CASE StoreReady(s)
  <2>1. /\ Goto(s, "ready.test", q, 0) /\ "ready.test" \in Places \ {"idle"}
        /\ readycount' = [readycount EXCEPT ![q] = Inc(task[s].n)] /\ status' = status
        /\ At(s, "ready.store") /\ UNCHANGED <<connect, hung>>
    BY <1>2, <1>q DEF StoreReady, Places, ReadyPlaces, clientVars
  <2>2. /\ ListsRight /\ before' = before /\ UNCHANGED R!vars
        /\ \A d \in Users \ {s} : task[d] = Idle
        /\ task'[s] = [at |-> "ready.test", r |-> q, n |-> 0]
        /\ Part(s) /\ (Part(s)' /\ ListsRight' => SerialInv')
    BY <1>1, <2>1, GoOn, PlacesTyped
  <2>3. TypedBefore /\ TypedBefore' /\ PartReady(s, q)
    BY <1>1, <1>q, <2>2 DEF Part, TypedBefore
  <2>4. readycount' = [before.readycount EXCEPT ![q] = Inc(@)]
    BY <2>1, <2>3 DEF PartReady
  <2>5. PartReady(s, q)'
    <3>1. /\ s \in before.members[q] \ before.accepted[q]
          /\ before.readycount[q] < ReadyBound
          /\ lobby = before.lobby /\ gameID = before.gameID /\ roomNum = before.roomNum
          /\ members = before.members /\ accepted = before.accepted
          /\ loadcount = before.loadcount /\ status = before.status
      BY <2>1, <2>3 DEF PartReady, At
    <3>2. UNCHANGED <<lobby, gameID, roomNum, status, members, accepted, loadcount>>
      BY <1>1, <2>1 DEF clientVars
    <3>3. task'[s].at = "ready.test"
      BY <2>2
    <3> QED
      BY <2>2, <2>4, <3>1, <3>2, <3>3 DEF PartReady, At
  <2>6. Part(s)'
    BY <2>2, <2>3, <2>5 DEF Part, Among, MakePlaces, JoinPlaces, ReadyPlaces, LoadPlaces,
                            LeavePlaces
  <2>7. ListsRight'
    BY <1>1, <2>1, <2>2, ListsInGame DEF Among, clientVars, client
  <2> QED
    BY <2>2, <2>6, <2>7 DEF Atomic
<1>3. CASE TestReady(s) /\ readycount[q] = Size(q)
  <2>1. /\ Goto(s, "ready.start", q, 0) /\ "ready.start" \in Places \ {"idle"}
        /\ readycount' = [readycount EXCEPT ![q] = 0]
        /\ status' = [status EXCEPT ![q] = "INGAME"]
        /\ At(s, "ready.test") /\ UNCHANGED <<connect, hung>>
    BY <1>3, <1>q DEF TestReady, Places, ReadyPlaces, clientVars
  <2>2. /\ ListsRight /\ before' = before /\ UNCHANGED R!vars
        /\ \A d \in Users \ {s} : task[d] = Idle
        /\ task'[s] = [at |-> "ready.start", r |-> q, n |-> 0]
        /\ Part(s) /\ (Part(s)' /\ ListsRight' => SerialInv')
    BY <1>1, <2>1, GoOn, PlacesTyped
  <2>3. TypedBefore /\ TypedBefore' /\ PartReady(s, q)
    BY <1>1, <1>q, <2>2 DEF Part, TypedBefore
  <2>4. /\ readycount = [before.readycount EXCEPT ![q] = Inc(@)]
        /\ status = before.status /\ members = before.members
    BY <2>1, <2>3 DEF PartReady, At
  <2>5. readycount' = [before.readycount EXCEPT ![q] = 0]
    BY <2>1, <2>3, <2>4 DEF TypedBefore
  <2>6. Inc(before.readycount[q]) = Cardinality(before.members[q])
    BY <1>3, <2>3, <2>4 DEF Size, TypedBefore
  <2>7. PartReady(s, q)'
    BY <1>1, <2>1, <2>2, <2>3, <2>4, <2>5, <2>6 DEF PartReady, At, clientVars
  <2>8. Part(s)'
    BY <2>2, <2>3, <2>7 DEF Part, Among, MakePlaces, JoinPlaces, ReadyPlaces, LoadPlaces,
                            LeavePlaces
  <2>9. ListsRight'
    <3>1. Size(q) > 0
      BY <1>1, <2>3, <2>4, SizeType DEF PartReady
    <3>2. \A r \in RoomIds : status'[r] = status[r] \/ (status'[r] = "INGAME" /\ Size(r) > 0)
      BY <1>1, <2>1, <3>1 DEF TypeOK
    <3> QED
      BY <1>1, <2>2, <3>2, ListsInGame DEF Among, clientVars, client
  <2> QED
    BY <2>2, <2>8, <2>9 DEF Atomic
<1>4. CASE TestReady(s) /\ readycount[q] # Size(q)
  <2>1. /\ Return(s) /\ UNCHANGED <<readycount, status>> /\ At(s, "ready.test")
        /\ UNCHANGED <<connect, hung>>
    BY <1>4, <1>q DEF TestReady, clientVars
  <2>2. /\ ListsRight /\ Part(s) /\ SeenBefore /\ SeenAfter' /\ (ListsRight' => SerialInv')
        /\ \A d \in Users \ {s} : task[d] = Idle
    BY <1>1, <2>1, ComesBack
  <2>3. TypedBefore /\ PartReady(s, q)
    BY <1>1, <1>q, <2>2 DEF Part
  <2>4. /\ readycount = [before.readycount EXCEPT ![q] = Inc(@)]
        /\ status = before.status /\ members = before.members
        /\ lobby = before.lobby /\ gameID = before.gameID /\ roomNum = before.roomNum
        /\ accepted = before.accepted /\ loadcount = before.loadcount
        /\ s \in before.members[q] \ before.accepted[q] /\ before.readycount[q] < ReadyBound
    BY <2>1, <2>3 DEF PartReady, At
  <2>5. Inc(before.readycount[q]) # Cardinality(before.members[q])
    BY <1>4, <2>3, <2>4 DEF Size, TypedBefore
  <2>6. R!Next
    BY <1>1, <2>1, <2>2, <2>3, <2>4, <2>5, PressReadyIs DEF clientVars
  <2>7. ListsRight'
    BY <1>1, <2>1, <2>2, ListsInGame DEF Among, clientVars, client
  <2> QED
    BY <2>2, <2>6, <2>7 DEF Atomic
<1> QED
  BY <1>2, <1>3, <1>4

LEMMA StartReadySerial ==
    ASSUME RaceInv, SerialInv, ~overlapped', NEW s \in Users, StartReady(s)
    PROVE  Atomic
<1>q. PICK q \in RoomIds : q = task[s].r
  BY DEF RaceInv, RaceTypeOK
<1>1. /\ RaceTypeOK /\ TypeOK /\ At(s, "ready.start") /\ task[s] # Idle
      /\ UNCHANGED vars /\ UNCHANGED list /\ Return(s)
  BY DEF StartReady, RaceInv, RaceTypeOK, At, Idle
<1>2. /\ ListsRight /\ Part(s) /\ SeenBefore /\ SeenAfter' /\ (ListsRight' => SerialInv')
      /\ \A d \in Users \ {s} : task[d] = Idle
  BY <1>1, ComesBack
<1>3. TypedBefore /\ PartReady(s, q)
  BY <1>1, <1>2, <1>q DEF Part, Among, At, ReadyPlaces
<1>4. /\ readycount = [before.readycount EXCEPT ![q] = 0]
      /\ Inc(before.readycount[q]) = Cardinality(before.members[q])
      /\ status = [before.status EXCEPT ![q] = "INGAME"] /\ members = before.members
      /\ lobby = before.lobby /\ gameID = before.gameID /\ roomNum = before.roomNum
      /\ accepted = before.accepted /\ loadcount = before.loadcount
      /\ s \in before.members[q] \ before.accepted[q] /\ before.readycount[q] < ReadyBound
  BY <1>1, <1>3 DEF PartReady, At
<1>5. R!Next
  BY <1>1, <1>2, <1>3, <1>4, PressReadyIs DEF vars
<1>6. ListsRight'
  BY <1>1, <1>2, ListsInGame DEF Among, At, ReadyPlaces, vars
<1> QED
  BY <1>2, <1>5, <1>6 DEF Atomic

\* CS_LOADCOMPLETE
LEMMA TakeLoadedSerial ==
    ASSUME RaceInv, SerialInv, ~overlapped', NEW s \in Users, TakeLoaded(s)
    PROVE  Atomic
<1>q. PICK q \in RoomIds : q = myRoom[s]
  BY DEF RaceInv, RaceTypeOK
<1>1. /\ At(s, "idle") /\ task[s] = Idle /\ RaceTypeOK /\ TypeOK /\ stage[s] = "LOADING"
      /\ "load.store" \in Places \ {"idle"} /\ UNCHANGED vars /\ UNCHANGED list
      /\ Goto(s, "load.store", q, loadcount[q])
  BY <1>q DEF TakeLoaded, Takes, Idle, At, RaceInv, RaceTypeOK, Places, LoadPlaces
<1>2. loadcount[q] \in Byte /\ UNCHANGED <<connect, hung>>
      /\ UNCHANGED <<lobby, gameID, status, members, accepted, readycount, loadcount>>
  BY <1>1 DEF TypeOK, vars
<1>3. /\ Apart /\ ListsRight /\ before' = Snapshot /\ UNCHANGED R!vars
      /\ \A d \in Users \ {s} : task[d] = Idle
      /\ task'[s] = [at |-> "load.store", r |-> q, n |-> loadcount[q]]
      /\ Part(s)' /\ ListsRight' => SerialInv'
  BY <1>1, <1>2, GoOn
<1>4. TypedBefore' /\ before'.lobby = lobby /\ before'.gameID = gameID
      /\ before'.roomNum = roomNum
      /\ before'.status = status /\ before'.members = members
      /\ before'.accepted = accepted /\ before'.readycount = readycount
      /\ before'.loadcount = loadcount
  BY <1>1, <1>3, SnapshotTyped
<1>5. s \in members[q] \ accepted[q] /\ status[q] = "INGAME"
  <2>1. s \in members[q]
    BY <1>1, <1>3, <1>q DEF Apart, Homes, Home, Nowhere, In
  <2>2. Untouched(q)
    BY <1>1, <1>3 DEF Untouched, WorksOn
  <2>3. Loads(q) /\ s \notin accepted[q]
    BY <1>1, <1>3, <2>1, <2>2, SoundRoom DEF Apart, RoomsSound
  <2> QED
    BY <2>1, <2>3 DEF Loads, Loading
<1>6. PartLoad(s, q)'
  BY <1>1, <1>3, <1>4, <1>5 DEF PartLoad, At, vars
<1>7. Part(s)'
  BY <1>3, <1>4, <1>6 DEF Part, Among, MakePlaces, JoinPlaces, ReadyPlaces, LoadPlaces,
                          LeavePlaces
<1>8. ListsRight'
  BY <1>1, <1>2, <1>3, ListsInGame DEF Among, At
<1> QED
  BY <1>3, <1>7, <1>8 DEF Atomic

LEMMA MidLoadSerial ==
    ASSUME RaceInv, SerialInv, ~overlapped', NEW s \in Users,
           StoreLoaded(s) \/ InsertLoaded(s)
    PROVE  Atomic
<1>q. PICK q \in RoomIds : q = task[s].r
  BY DEF RaceInv, RaceTypeOK
<1>1. /\ RaceTypeOK /\ TypeOK /\ Among(s, LoadPlaces) /\ task[s] # Idle
      /\ UNCHANGED <<connect, lobby, gameID, roomNum, status, members, readycount, hung>>
      /\ UNCHANGED list
  BY DEF StoreLoaded, InsertLoaded, RaceInv, RaceTypeOK, At, Among, LoadPlaces, Idle,
         clientVars, client
<1>2. CASE StoreLoaded(s)
  <2>1. /\ Goto(s, "load.insert", q, 0) /\ "load.insert" \in Places \ {"idle"}
        /\ loadcount' = [loadcount EXCEPT ![q] = Inc(task[s].n)] /\ accepted' = accepted
        /\ At(s, "load.store")
    BY <1>2, <1>q DEF StoreLoaded, Places, LoadPlaces
  <2>2. /\ ListsRight /\ before' = before /\ UNCHANGED R!vars
        /\ \A d \in Users \ {s} : task[d] = Idle
        /\ task'[s] = [at |-> "load.insert", r |-> q, n |-> 0]
        /\ Part(s) /\ (Part(s)' /\ ListsRight' => SerialInv')
    BY <1>1, <2>1, GoOn, PlacesTyped
  <2>3. TypedBefore /\ TypedBefore' /\ PartLoad(s, q)
    BY <1>1, <1>q, <2>2 DEF Part, TypedBefore
  <2>4. /\ s \in before.members[q] \ before.accepted[q] /\ before.status[q] = "INGAME"
        /\ loadcount = before.loadcount /\ task[s].n = before.loadcount[q]
        /\ lobby = before.lobby /\ gameID = before.gameID /\ roomNum = before.roomNum
        /\ members = before.members /\ accepted = before.accepted
        /\ readycount = before.readycount /\ status = before.status
    BY <2>1, <2>3 DEF PartLoad, At
  <2>5. loadcount' = [before.loadcount EXCEPT ![q] = Inc(@)]
    BY <2>1, <2>4
  <2>6. PartLoad(s, q)'
    BY <1>1, <2>1, <2>2, <2>4, <2>5 DEF PartLoad, At
  <2>7. Part(s)'
    BY <2>2, <2>3, <2>6 DEF Part, Among, MakePlaces, JoinPlaces, ReadyPlaces, LoadPlaces,
                            LeavePlaces
  <2>8. ListsRight'
    BY <1>1, <2>2, ListsInGame DEF Among
  <2> QED
    BY <2>2, <2>7, <2>8 DEF Atomic
<1>3. CASE InsertLoaded(s)
  <2>1. /\ Goto(s, "load.test", q, 0) /\ "load.test" \in Places \ {"idle"}
        /\ loadcount' = loadcount /\ At(s, "load.insert")
    BY <1>3, <1>q DEF InsertLoaded, Places, LoadPlaces
  <2>2. /\ ListsRight /\ before' = before /\ UNCHANGED R!vars
        /\ \A d \in Users \ {s} : task[d] = Idle
        /\ task'[s] = [at |-> "load.test", r |-> q, n |-> 0]
        /\ Part(s) /\ (Part(s)' /\ ListsRight' => SerialInv')
    BY <1>1, <2>1, GoOn, PlacesTyped
  <2>3. TypedBefore /\ TypedBefore' /\ PartLoad(s, q)
    BY <1>1, <1>q, <2>2 DEF Part, TypedBefore
  <2>4. /\ s \in before.members[q] \ before.accepted[q] /\ before.status[q] = "INGAME"
        /\ loadcount = [before.loadcount EXCEPT ![q] = Inc(@)]
        /\ lobby = before.lobby /\ gameID = before.gameID /\ roomNum = before.roomNum
        /\ members = before.members /\ accepted = before.accepted
        /\ readycount = before.readycount /\ status = before.status
    BY <2>1, <2>3 DEF PartLoad, At
  <2>5. accepted' = [before.accepted EXCEPT ![q] = @ \cup {s}]
    <3>1. ~Busy(s, {"load.insert"}, q)
      BY <2>2 DEF Busy, Running
    <3> QED
      BY <1>3, <1>q, <2>4, <3>1 DEF InsertLoaded, AcceptedWith
  <2>6. PartLoad(s, q)'
    BY <1>1, <2>1, <2>2, <2>4, <2>5 DEF PartLoad, At
  <2>7. Part(s)'
    BY <2>2, <2>3, <2>6 DEF Part, Among, MakePlaces, JoinPlaces, ReadyPlaces, LoadPlaces,
                            LeavePlaces
  <2>8. ListsRight'
    BY <1>1, <2>2, ListsInGame DEF Among
  <2> QED
    BY <2>2, <2>7, <2>8 DEF Atomic
<1> QED
  BY <1>2, <1>3

LEMMA TestLoadedSerial ==
    ASSUME RaceInv, SerialInv, ~overlapped', NEW s \in Users, TestLoaded(s)
    PROVE  Atomic
<1>q. PICK q \in RoomIds : q = task[s].r
  BY DEF RaceInv, RaceTypeOK
<1>1. /\ RaceTypeOK /\ TypeOK /\ At(s, "load.test") /\ task[s] # Idle /\ Return(s)
      /\ UNCHANGED <<connect, lobby, gameID, roomNum, status, members, accepted,
                     readycount, hung, list>>
      /\ loadcount' = IF loadcount[q] = Size(q) THEN [loadcount EXCEPT ![q] = 0] ELSE loadcount
  BY <1>q DEF TestLoaded, RaceInv, RaceTypeOK, At, Idle, clientVars
<1>2. /\ ListsRight /\ Part(s) /\ SeenBefore /\ SeenAfter' /\ (ListsRight' => SerialInv')
      /\ \A d \in Users \ {s} : task[d] = Idle
  BY <1>1, ComesBack
<1>3. TypedBefore /\ PartLoad(s, q)
  BY <1>1, <1>2, <1>q DEF Part, Among, At, LoadPlaces
<1>4. /\ s \in before.members[q] \ before.accepted[q] /\ before.status[q] = "INGAME"
      /\ loadcount = [before.loadcount EXCEPT ![q] = Inc(@)]
      /\ accepted = [before.accepted EXCEPT ![q] = @ \cup {s}]
      /\ lobby = before.lobby /\ gameID = before.gameID /\ roomNum = before.roomNum
      /\ members = before.members /\ readycount = before.readycount
      /\ status = before.status
  BY <1>1, <1>3 DEF PartLoad, At
<1>5. R!AllLoaded(q) <=> Inc(before.loadcount[q]) = Cardinality(before.members[q])
  <2>1. R!Size(q) = Cardinality(before.members[q])
    BY <1>2, SameCardinality DEF R!Size, SeenBefore
  <2>2. R!Inc(before.loadcount[q]) = Inc(before.loadcount[q])
    BY DEF R!Inc, Inc
  <2> QED
    BY <1>2, <2>1, <2>2 DEF R!AllLoaded, SeenBefore
<1>6. loadcount' = [before.loadcount EXCEPT
                       ![q] = IF R!AllLoaded(q) THEN 0 ELSE Inc(before.loadcount[q])]
  <2>1. loadcount[q] = Size(q) <=> R!AllLoaded(q)
    BY <1>3, <1>4, <1>5 DEF Size, TypedBefore
  <2> QED
    BY <1>1, <1>3, <1>4, <2>1 DEF TypedBefore
<1>7. R!LoadComplete(s, q)
  <2>1. ~R!Unreachable(q)
    <3>1. \A d \in before.members[q] : connect[d]
      BY <1>3 DEF RaceInv, AllConnected, TypedBefore
    <3> QED
      BY <1>2, <3>1 DEF R!Unreachable, SeenBefore
  <2>2. R!Inc(before.loadcount[q]) = Inc(before.loadcount[q])
    BY DEF R!Inc, Inc
  <2>3. IF R!AllLoaded(q) THEN R!AfterBroadcast(s, q) ELSE UNCHANGED hung
    BY <1>1, <2>1 DEF R!AfterBroadcast
  <2> QED
    BY <1>1, <1>2, <1>4, <1>6, <2>2, <2>3
       DEF R!LoadComplete, R!AcceptedWith, R!clientVars, SeenBefore, SeenAfter
<1>8. R!Loaded(s, q)
  BY <1>2, <1>4, <1>7, AllServed DEF R!Loaded, SeenBefore
<1>9. ListsRight'
  BY <1>1, <1>2, ListsInGame DEF Among, At, LoadPlaces
<1> QED
  BY <1>2, <1>8, <1>9, AllServed DEF Atomic, R!Next, R!RoomIds, RoomIds

\* CS_RESULTCONFIRM
LEMMA TakeConfirmSerial ==
    ASSUME RaceInv, SerialInv, ~overlapped', NEW s \in Users, TakeConfirm(s)
    PROVE  Atomic
<1>q. PICK q \in RoomIds : q = myRoom[s]
  BY DEF RaceInv, RaceTypeOK
<1>1. /\ At(s, "idle") /\ task[s] = Idle /\ RaceTypeOK /\ TypeOK /\ stage[s] = "GAME"
      /\ "leave.erase" \in Places \ {"idle"} /\ Goto(s, "leave.erase", q, 0)
      /\ UNCHANGED <<connect, roomNum, status, members, accepted, readycount, loadcount, hung>>
      /\ lobby' = [lobby EXCEPT ![s] = TRUE] /\ gameID' = [gameID EXCEPT ![s] = 0]
  BY <1>q DEF TakeConfirm, Takes, Idle, At, RaceInv, RaceTypeOK, Places, LeavePlaces, roomVars
<1>2. ~overlapped /\ Quiet /\ Running \ {s} = {} /\ before' = Snapshot
  <2>1. ~overlapped /\ Running \ {s} = {}
    BY <1>1, Zenon DEF Goto
  <2>2. Quiet
    BY <1>1, <2>1 DEF Quiet, Running
  <2> QED
    BY <1>1, <2>1, <2>2, Zenon DEF Goto
<1>3. /\ Apart /\ Alone /\ ~collided
      /\ \A d \in Users \ {s} : task[d] = Idle
      /\ task'[s] = [at |-> "leave.erase", r |-> q, n |-> 0]
      /\ \A d \in Users \ {s} : task'[d] = Idle
  <2>1. Apart /\ Alone /\ ~collided /\ \A d \in Users : task[d] = Idle
    BY <1>2, AloneIsApart DEF Quiet, Running
  <2> QED
    BY <1>1, <2>1, GotoType, PlacesTyped
<1>4. TypedBefore' /\ before'.lobby = lobby /\ before'.gameID = gameID
      /\ before'.roomNum = roomNum
      /\ before'.status = status /\ before'.members = members
      /\ before'.accepted = accepted /\ before'.readycount = readycount
      /\ before'.loadcount = loadcount
  BY <1>1, <1>2, SnapshotTyped
<1>5. s \in members[q] /\ members[q] \subseteq accepted[q] /\ status[q] = "INGAME"
  <2>1. s \in members[q]
    BY <1>1, <1>3, <1>q DEF Apart, Homes, Home, Nowhere, In
  <2>2. Untouched(q)
    BY <1>1, <1>3 DEF Untouched, WorksOn
  <2>3. Plays(q)
    BY <1>1, <1>3, <2>1, <2>2, SoundRoom DEF Apart, RoomsSound
  <2> QED
    BY <2>1, <2>3 DEF Plays, Playing
<1>6. PartLeave(s, q)'
  BY <1>1, <1>3, <1>4, <1>5 DEF PartLeave, At
<1>7. Part(s)'
  BY <1>3, <1>4, <1>6 DEF Part, Among, MakePlaces, JoinPlaces, ReadyPlaces, LoadPlaces,
                          LeavePlaces
<1>8. ListsRight'
  BY <1>3, ListsInLeave DEF Among, LeavePlaces
<1>9. SerialInv'
  <2>1. ~collided' /\ Alone'
    BY <1>1, <1>3, Zenon DEF Goto, Apart, Alone
  <2> QED
    BY <1>3, <1>7, <1>8, <2>1 DEF SerialInv
<1>10. UNCHANGED R!vars
  <2>1. ~Quiet'
    BY <1>3 DEF Quiet, Running, Idle
  <2> QED
    BY <1>1, <1>2, <1>4, <2>1 DEF R!vars, Settled
<1> QED
  BY <1>9, <1>10 DEF Atomic

LEMMA MidLeaveSerial ==
    ASSUME RaceInv, SerialInv, ~overlapped', NEW s \in Users,
           EraseConfirm(s) \/ TestConfirm(s) \/ ClearConfirm(s)
    PROVE  Atomic
<1>q. PICK q \in RoomIds : q = task[s].r
  BY DEF RaceInv, RaceTypeOK
<1>1. /\ RaceTypeOK /\ TypeOK /\ Among(s, LeavePlaces) /\ task[s] # Idle
      /\ UNCHANGED <<connect, lobby, gameID, roomNum, hung>>
  BY DEF EraseConfirm, TestConfirm, ClearConfirm, RaceInv, RaceTypeOK, At, Among,
         LeavePlaces, Idle, clientVars, vars
<1>2. PICK at \in LeavePlaces : Goto(s, at, q, 0)
  BY <1>q DEF EraseConfirm, TestConfirm, ClearConfirm, LeavePlaces
<1>3. /\ before' = before /\ UNCHANGED R!vars
      /\ task'[s] = [at |-> at, r |-> q, n |-> 0]
      /\ Part(s) /\ (Part(s)' /\ ListsRight' => SerialInv')
  BY <1>1, <1>2, GoOn, PlacesTyped
<1>4. TypedBefore /\ TypedBefore' /\ PartLeave(s, q)
  BY <1>1, <1>3, <1>q DEF Part, TypedBefore
<1>5. /\ s \in before.members[q] /\ before.status[q] = "INGAME"
      /\ before.members[q] \subseteq before.accepted[q]
      /\ lobby = [before.lobby EXCEPT ![s] = TRUE]
      /\ gameID = [before.gameID EXCEPT ![s] = 0] /\ roomNum = before.roomNum
  BY <1>4 DEF PartLeave
<1>6. PartLeave(s, q)'
  <2>1. CASE EraseConfirm(s)
    <3>1. /\ Goto(s, "leave.test", q, 0) /\ At(s, "leave.erase")
          /\ members' = [members EXCEPT ![q] = members[q] \ {s}]
          /\ UNCHANGED <<status, accepted, readycount, loadcount>>
      BY <1>q, <2>1 DEF EraseConfirm, MembersWithout
    <3>2. task'[s].at = "leave.test"
      BY <1>1, <3>1, TaskIs
    <3>3. /\ members = before.members /\ status = before.status
          /\ accepted = before.accepted /\ readycount = before.readycount
          /\ loadcount = before.loadcount
      BY <1>4, <3>1 DEF PartLeave, At
    <3>4. members' = [before.members EXCEPT ![q] = @ \ {s}]
      BY <3>1, <3>3
    <3> QED
      BY <1>1, <1>3, <1>5, <3>1, <3>2, <3>3, <3>4 DEF PartLeave, At
  <2>2. CASE TestConfirm(s)
    <3>1. /\ Goto(s, IF members[q] = {} THEN "leave.clear" ELSE "leave.info", q, 0)
          /\ At(s, "leave.test") /\ UNCHANGED vars
      BY <1>q, <2>2 DEF TestConfirm
    <3>2. task'[s].at = IF members[q] = {} THEN "leave.clear" ELSE "leave.info"
      BY <1>1, <3>1, TaskIs
    <3>3. /\ members = [before.members EXCEPT ![q] = @ \ {s}] /\ status = before.status
          /\ accepted = before.accepted /\ readycount = before.readycount
          /\ loadcount = before.loadcount
      BY <1>4, <3>1 DEF PartLeave, At
    <3>4. members[q] = before.members[q] \ {s}
      BY <1>4, <3>3 DEF TypedBefore
    <3> QED
      BY <1>1, <1>3, <1>5, <3>1, <3>2, <3>3, <3>4 DEF PartLeave, At, vars
  <2>3. CASE ClearConfirm(s)
    <3>1. /\ Goto(s, "leave.info", q, 0) /\ At(s, "leave.clear")
          /\ status' = [status EXCEPT ![q] = "EMPTY"]
          /\ members' = [members EXCEPT ![q] = {}] /\ accepted' = [accepted EXCEPT ![q] = {}]
          /\ readycount' = [readycount EXCEPT ![q] = 0]
          /\ loadcount' = [loadcount EXCEPT ![q] = 0]
      BY <1>q, <2>3 DEF ClearConfirm
    <3>2. task'[s].at = "leave.info"
      BY <1>1, <3>1, TaskIs
    <3>3. /\ members = [before.members EXCEPT ![q] = @ \ {s}] /\ status = before.status
          /\ accepted = before.accepted /\ readycount = before.readycount
          /\ loadcount = before.loadcount /\ before.members[q] \ {s} = {}
      BY <1>4, <3>1 DEF PartLeave, At
    <3>4. members' = [before.members EXCEPT ![q] = @ \ {s}]
      BY <1>4, <3>1, <3>3 DEF TypedBefore
    <3>5. /\ status' = [before.status EXCEPT ![q] = "EMPTY"]
          /\ accepted' = [before.accepted EXCEPT ![q] = {}]
          /\ readycount' = [before.readycount EXCEPT ![q] = 0]
          /\ loadcount' = [before.loadcount EXCEPT ![q] = 0]
      BY <3>1, <3>3
    <3> QED
      BY <1>1, <1>3, <1>5, <3>2, <3>3, <3>4, <3>5 DEF PartLeave, At
  <2> QED
    BY <2>1, <2>2, <2>3
<1>7. Part(s)'
  BY <1>3, <1>4, <1>6 DEF Part, Among, MakePlaces, JoinPlaces, ReadyPlaces, LoadPlaces,
                          LeavePlaces
<1>8. ListsRight'
  BY <1>3, ListsInLeave DEF Among
<1> QED
  BY <1>3, <1>7, <1>8 DEF Atomic

LEMMA InfoConfirmSerial ==
    ASSUME RaceInv, SerialInv, ~overlapped', NEW s \in Users, InfoConfirm(s)
    PROVE  Atomic
<1>q. PICK q \in RoomIds : q = task[s].r
  BY DEF RaceInv, RaceTypeOK
<1>1. /\ At(s, "leave.info") /\ task[s] # Idle /\ RaceTypeOK /\ TypeOK /\ AllConnected
      /\ Return(s) /\ UNCHANGED vars /\ list' = SendRoomInfo(RoomIds)
  BY DEF InfoConfirm, At, Idle, RaceInv, RaceTypeOK
<1>2. /\ ListsRight /\ Part(s) /\ SeenBefore /\ SeenAfter' /\ (ListsRight' => SerialInv')
  BY <1>1, ComesBack
<1>3. PartLeave(s, q) /\ TypedBefore
  BY <1>1, <1>2, <1>q DEF Part, Among, At, LeavePlaces
<1>4. SerialInv'
  <2>1. UNCHANGED <<lobby, status, members>>
    BY <1>1 DEF vars
  <2>2. \A r \in RoomIds \ RoomIds : ~WillSend(r)
    OBVIOUS
  <2> QED
    BY <1>1, <1>2, <2>1, <2>2, ListsSent
<1>5. /\ s \in before.members[q] /\ before.status[q] = "INGAME"
      /\ before.members[q] \subseteq before.accepted[q]
      /\ lobby = [before.lobby EXCEPT ![s] = TRUE]
      /\ gameID = [before.gameID EXCEPT ![s] = 0] /\ roomNum = before.roomNum
      /\ members = [before.members EXCEPT ![q] = @ \ {s}]
  BY <1>1, <1>3 DEF PartLeave, At
<1>6. IF before.members[q] \ {s} = {}
      THEN /\ status = [before.status EXCEPT ![q] = "EMPTY"]
           /\ accepted = [before.accepted EXCEPT ![q] = {}]
           /\ readycount = [before.readycount EXCEPT ![q] = 0]
           /\ loadcount = [before.loadcount EXCEPT ![q] = 0]
      ELSE /\ status = before.status /\ accepted = before.accepted
           /\ readycount = before.readycount /\ loadcount = before.loadcount
  BY <1>1, <1>3 DEF PartLeave, At
<1>7. R!ResultConfirm(s, q)
  <2>1. R!MembersWithout(s, q) = before.members[q] \ {s}
    BY <1>2 DEF R!MembersWithout, SeenBefore
  <2>2. UNCHANGED <<connect, hung, lobby, gameID, roomNum, status, members, accepted,
                    readycount, loadcount>>
    BY <1>1 DEF vars
  <2>3. CASE before.members[q] \ {s} = {}
    BY <1>2, <1>5, <1>6, <2>1, <2>2, <2>3 DEF R!ResultConfirm, SeenBefore, SeenAfter
  <2>4. CASE before.members[q] \ {s} # {}
    BY <1>2, <1>5, <1>6, <2>1, <2>2, <2>4 DEF R!ResultConfirm, SeenBefore, SeenAfter
  <2> QED
    BY <2>3, <2>4
<1>8. R!Confirm(s, q)
  BY <1>2, <1>5, <1>7, AllServed DEF R!Confirm, SeenBefore
<1> QED
  BY <1>4, <1>8, AllServed DEF Atomic, R!Next, R!RoomIds, RoomIds

-----------------------------------------------------------------------------
(* Handlers run one after the other are the steps of Rooms.                *)

LEMMA SerialStep ==
    ASSUME RaceInv, SerialInv, [RaceNext]_raceVars
    PROVE  SerialInv' /\ (~overlapped' => R!Next \/ UNCHANGED R!vars)
<1>1. ASSUME RaceNext, ~overlapped' PROVE Atomic
  <2>1. PICK s \in Users :
          \/ ScanMake(s) \/ LeaveMake(s) \/ FillMake(s) \/ InsertMake(s)
          \/ TellMake(s) \/ InfoMake(s)
          \/ ScanQuick(s) \/ \E r \in RoomIds : TestJoin(s, r)
          \/ EnterJoin(s) \/ InsertJoin(s) \/ NumberJoin(s) \/ FullJoin(s)
          \/ TellJoin(s) \/ InfoJoin(s)
          \/ TakeReady(s) \/ StoreReady(s) \/ TestReady(s) \/ StartReady(s)
          \/ TakeLoaded(s) \/ StoreLoaded(s) \/ InsertLoaded(s) \/ TestLoaded(s)
          \/ TakeConfirm(s) \/ EraseConfirm(s) \/ TestConfirm(s)
          \/ ClearConfirm(s) \/ InfoConfirm(s)
    BY <1>1, Zenon DEF RaceNext
  <2>2. CASE ScanMake(s) \/ LeaveMake(s) \/ FillMake(s) \/ InsertMake(s)
             \/ TellMake(s) \/ InfoMake(s)
    BY <1>1, <2>2, ScanMakeSerial, MidMakeSerial, InfoMakeSerial
  <2>3. CASE ScanQuick(s) \/ \E r \in RoomIds : TestJoin(s, r)
    BY <1>1, <2>3, BeginJoinSerial
  <2>4. CASE EnterJoin(s) \/ InsertJoin(s) \/ NumberJoin(s) \/ FullJoin(s)
             \/ TellJoin(s) \/ InfoJoin(s)
    BY <1>1, <2>4, MidJoinSerial, InfoJoinSerial
  <2>5. CASE TakeReady(s) \/ StoreReady(s) \/ TestReady(s) \/ StartReady(s)
    BY <1>1, <2>5, TakeReadySerial, MidReadySerial, StartReadySerial
  <2>6. CASE TakeLoaded(s) \/ StoreLoaded(s) \/ InsertLoaded(s) \/ TestLoaded(s)
    BY <1>1, <2>6, TakeLoadedSerial, MidLoadSerial, TestLoadedSerial
  <2>7. CASE TakeConfirm(s) \/ EraseConfirm(s) \/ TestConfirm(s)
             \/ ClearConfirm(s) \/ InfoConfirm(s)
    BY <1>1, <2>7, TakeConfirmSerial, MidLeaveSerial, InfoConfirmSerial
  <2> QED
    BY <2>1, <2>2, <2>3, <2>4, <2>5, <2>6, <2>7
<1>2. CASE RaceNext
  <2>1. overlapped' \in BOOLEAN
    BY RaceTypeStep DEF RaceInv, RaceTypeOK
  <2>2. CASE ~overlapped'
    BY <1>1, <1>2, <2>2 DEF Atomic
  <2>3. CASE overlapped'
    BY <2>3 DEF SerialInv
  <2> QED
    BY <2>2, <2>3
<1>3. CASE UNCHANGED raceVars
  <2>1. UNCHANGED R!vars
    BY <1>3 DEF raceVars, vars, R!vars, Settled, Quiet, Running
  <2>2. UNCHANGED <<overlapped, collided, task, before, vars, list>>
    BY <1>3 DEF raceVars, client
  <2>3. /\ Alone' <=> Alone
        /\ \A u \in Users, r \in RoomIds : Shows(u, r)' <=> Shows(u, r)
        /\ \A r \in RoomIds : WillSend(r)' <=> WillSend(r)
    BY <2>2 DEF Alone, Shows, WillSend, Among, WorkRoom, Making, Size, vars
  <2>4. ListsRight => ListsRight'
    BY <2>2, <2>3 DEF ListsRight, vars
  <2>5. ASSUME NEW s \in Users, Part(s) PROVE Part(s)'
    <3>1. TypedBefore'
      BY <2>2, <2>5 DEF Part, TypedBefore
    <3>2. /\ PartMake(s)' <=> PartMake(s)
          /\ \A r : PartJoin(s, r)' <=> PartJoin(s, r)
      BY <2>2 DEF PartMake, PartJoin, At, Among, NoRoom, vars
    <3>3. /\ \A r : PartReady(s, r)' <=> PartReady(s, r)
          /\ \A r : PartLoad(s, r)' <=> PartLoad(s, r)
      BY <2>2 DEF PartReady, PartLoad, At, vars
    <3>4. \A r : PartLeave(s, r)' <=> PartLeave(s, r)
      BY <2>2 DEF PartLeave, At, vars
    <3> QED
      BY <2>2, <2>5, <3>1, <3>2, <3>3, <3>4 DEF Part, Among
  <2>6. SerialInv'
    BY <2>2, <2>3, <2>4, <2>5 DEF SerialInv
  <2> QED
    BY <2>1, <2>6
<1> QED
  BY <1>2, <1>3

LEMMA SerialStart == RaceInit => SerialInv
<1> SUFFICES ASSUME RaceInit PROVE SerialInv
  OBVIOUS
<1>1. ListsRight
  <2>1. \A r \in RoomIds : Size(r) = 0
    BY FS_EmptySet DEF RaceInit, Size
  <2> QED
    BY <2>1 DEF RaceInit, ListsRight, Shows, NoList
<1> QED
  BY <1>1 DEF RaceInit, SerialInv, Alone

LEMMA SerialAlways == RaceSpec => [](RaceInv /\ SerialInv)
<1>1. RaceInit => RaceInv /\ SerialInv
  BY RaceStart, SerialStart
<1>2. RaceInv /\ SerialInv /\ [RaceNext]_raceVars => (RaceInv /\ SerialInv)'
  BY RaceStep, SerialStep
<1> QED
  BY <1>1, <1>2, PTL DEF RaceSpec

\* Rooms.tla takes a handler for one step.  As long as no two handlers have
\* overlapped, the statements of ProcessPacket (PacketFunc.cpp:480-706,
\* 386-433) amount to a step of Rooms, taken at the return.
THEOREM SerialHandlersAreSteps == RaceSpec => SerialIsAtomic
<1>1. RaceInv /\ SerialInv /\ [RaceNext]_raceVars
         => [~overlapped' => R!Next \/ UNCHANGED R!vars]_raceVars
  BY SerialStep
<1> QED
  BY <1>1, SerialAlways, PTL DEF RaceSpec, SerialIsAtomic

\* SendRoomInfo (PacketFunc.cpp:62) is called by the handlers that change
\* what the lobby shows, with the rooms they changed: as long as no two
\* handlers have overlapped, every list in the lobby is right between them.
THEOREM ListsStayRight == RaceSpec => []ListUpToDate
<1>1. SerialInv => ListUpToDate
  <2> SUFFICES ASSUME SerialInv, ~overlapped, Quiet,
                      NEW u \in Users, NEW r \in RoomIds, lobby[u]
               PROVE  Shows(u, r)
    BY DEF ListUpToDate, Shows
  <2>1. \A s \in Users : task[s] = Idle
    BY DEF Quiet, Running
  <2>2. ~WillSend(r)
    BY <2>1 DEF WillSend, Among, Idle, MakePlaces, JoinPlaces, LeavePlaces
  <2> QED
    BY <2>2 DEF SerialInv, ListsRight
<1> QED
  BY <1>1, SerialAlways, PTL
=============================================================================
