--------------------------- MODULE SessionProofs ---------------------------
(***************************************************************************)
(* Session for every number of clients and rooms: what a client and the    *)
(* server know of each other at every moment, that the clients send the    *)
(* server only what Rooms lets them send, and what follows for the loading *)
(* barrier and the copies a client keeps; that no press of the ready       *)
(* button is lost; and, for players who click only while the network is    *)
(* quiet, that every client learns the server ids it needs.                *)
(***************************************************************************)
EXTENDS Session, RoomsProofs, SequenceTheorems

-----------------------------------------------------------------------------
(* Types.                                                                  *)

Scenes == {"MAINMENU", "LOBBY", "ROOM", "LOADING", "GAME", "ENDING"}

ToServer == [t : {"MAKE", "QUICK"}]
            \cup [t : {"JOIN", "READY", "LOADED", "CONFIRM"}, r : RoomIds]

ToClient == [t : {"ID", "FAIL", "ENTER", "ALLREADY", "RESULT"}]
            \cup [t : {"JOINED"}, r : RoomIds, g : Byte]
            \cup [t : {"READY"}, g : Byte, sid : Users]
            \cup [t : {"PUT"}, g : Byte]

SessionTypeOK ==
    /\ c2s \in [Users -> Seq(ToServer)]
    /\ s2c \in [Users -> Seq(ToClient)]
    /\ scene \in [Users -> Scenes]
    /\ building \in [Users -> BOOLEAN]
    /\ result \in [Users -> BOOLEAN]
    /\ myRoom \in [Users -> RoomIds \cup {-1}]
    /\ myGame \in [Users -> Byte \cup {-1}]
    /\ shown \in [Users -> SUBSET Byte]
    /\ serverID \in [Users -> [Ids -> Users]]
    /\ teams \in [Users -> SUBSET Byte]
    /\ over \in SUBSET RoomIds

-----------------------------------------------------------------------------
(* What client and server know of each other.  The disjuncts of Knows are  *)
(* the stations of a player; each one says what the client shows, what is  *)
(* still on the way to it and what it may have sent.                       *)

\* Only packets of the kinds K are on their way to s.
Tidings(s, K) == \A i \in DOMAIN s2c[s] : s2c[s][i].t \in K
Hears(s, t) == \E i \in DOMAIN s2c[s] : s2c[s][i].t = t

ReadyPress(r) == [t |-> "READY", r |-> r]
LoadedReport(r) == [t |-> "LOADED", r |-> r]
ConfirmClick(r) == [t |-> "CONFIRM", r |-> r]

\* Connected, with the lobby's list on the screen or about to be
InLobby(s) ==
    /\ ~building[s] /\ ~result[s]
    /\ \/ scene[s] = "MAINMENU" /\ s2c[s] = <<IDPacket>> /\ c2s[s] = <<>>
       \/ scene[s] = "ROOM" /\ s2c[s] = <<>> /\ c2s[s] = <<[t |-> "MAKE"]>>
       \/ scene[s] = "LOBBY" /\ s2c[s] = <<>> /\ c2s[s] \in LobbyRequest \cup {<<>>}
       \/ scene[s] = "LOBBY" /\ s2c[s] = <<FailPacket>> /\ c2s[s] = <<>>

\* The answer that takes s to room r is the next packet it reads.
Joining(s, r) ==
    /\ scene[s] \in {"LOBBY", "ROOM"} /\ c2s[s] = <<>>
    /\ s2c[s] # <<>>
    /\ s2c[s][1] = [t |-> "JOINED", r |-> r, g |-> gameID[s]]
    /\ \A i \in DOMAIN s2c[s] : i > 1 => s2c[s][i].t # "JOINED"

\* s has read it: its copies are right.
Copied(s, r) == myRoom[s] = r /\ myGame[s] = gameID[s]
InRoom(s, r) ==
    /\ scene[s] = "ROOM" /\ Copied(s, r)
    /\ ~Hears(s, "JOINED")
    /\ c2s[s] \in {<<>>, <<ReadyPress(r)>>}

Enters(s, r) == ~building[s] /\ ~result[s] /\ (Joining(s, r) \/ InRoom(s, r))

\* In a room before the game
Waiting(s, r) ==
    /\ status[r] \in {"JOINABLE", "FULL"}
    /\ Enters(s, r)
    /\ Tidings(s, {"JOINED", "ENTER", "READY"})

\* SC_ALLREADY is on its way.  Only a late press is told after it.
Starting(s, r) ==
    /\ status[r] = "INGAME" /\ s \notin accepted[r]
    /\ Enters(s, r)
    /\ Tidings(s, {"JOINED", "ENTER", "READY", "ALLREADY"})
    /\ Hears(s, "ALLREADY")
    /\ \A i, j \in DOMAIN s2c[s] :
          i < j /\ s2c[s][i].t = "ALLREADY" => s2c[s][j].t = "READY"

\* On the loading screen, with the scene to build or the report on its way
Loading(s, r) ==
    /\ status[r] = "INGAME" /\ s \notin accepted[r]
    /\ scene[s] = "LOADING" /\ Copied(s, r) /\ ~result[s]
    /\ Tidings(s, {"READY"})
    /\ \/ building[s] /\ c2s[s] \in {<<>>, <<ReadyPress(r)>>}
       \/ ~building[s] /\ c2s[s] \in {<<LoadedReport(r)>>,
                                      <<ReadyPress(r), LoadedReport(r)>>}

\* Loaded, and some other member has not
Loads(s, r) ==
    /\ status[r] = "INGAME" /\ s \in accepted[r] /\ ~(members[r] \subseteq accepted[r])
    /\ scene[s] = "LOADING" /\ Copied(s, r) /\ ~result[s] /\ ~building[s]
    /\ Tidings(s, {"READY"}) /\ c2s[s] = <<>>

\* From the heroes being put on the map to the confirmation
Plays(s, r) ==
    /\ scene[s] \in {"LOADING", "GAME"} /\ c2s[s] = <<>>
    /\ result[s] => s2c[s] = <<>>
AtTable(s, r) ==
    /\ r \in over /\ ~result[s] /\ s2c[s] = <<>>
    /\ \/ scene[s] = "ENDING" /\ c2s[s] = <<>>
       \/ /\ scene[s] = "LOBBY"
          /\ c2s[s] \in {<<ConfirmClick(r)>> \o ps : ps \in LobbyRequest \cup {<<>>}}
InMatch(s, r) ==
    /\ status[r] = "INGAME" /\ members[r] \subseteq accepted[r]
    /\ Copied(s, r) /\ ~building[s]
    /\ Tidings(s, {"READY", "PUT", "RESULT"})
    /\ \A i \in DOMAIN s2c[s] : s2c[s][i].t = "RESULT" => i = Len(s2c[s]) /\ ~result[s]
    /\ result[s] \/ Hears(s, "RESULT") => r \in over
    /\ Plays(s, r) \/ AtTable(s, r)

Stations(s, r) == \/ Waiting(s, r) \/ Starting(s, r) \/ Loading(s, r)
                  \/ Loads(s, r) \/ InMatch(s, r)

Knows(s) ==
    \/ /\ ~connect[s] /\ scene[s] = "MAINMENU" /\ ~building[s] /\ ~result[s]
       /\ s2c[s] = <<>> /\ c2s[s] = <<>>
    \/ connect[s] /\ lobby[s] /\ InLobby(s)
    \/ connect[s] /\ ~lobby[s] /\ \E r \in RoomIds : s \in members[r] /\ Stations(s, r)

\* Late presses are fewer than the places the count of ready has left, so
\* they do not start the game a second time.
PressOnWay(s) == \E i \in DOMAIN c2s[s] : c2s[s][i].t = "READY"
Pressing(r) == {s \in members[r] : PressOnWay(s)}
NoSecondStart ==
    \A r \in RoomIds :
        status[r] = "INGAME" /\ ~(members[r] \subseteq accepted[r])
            => readycount[r] + Cardinality(Pressing(r)) < Size(r)

SessionInv ==
    /\ SessionTypeOK /\ Base /\ Orderly
    /\ \A s \in Users : Knows(s)
    /\ NoSecondStart

-----------------------------------------------------------------------------
(* Sequences: what a packet read or a packet sent does to a stream.        *)

LEMMA OneRead ==
    ASSUME NEW S, NEW q \in Seq(S), q # <<>>
    PROVE  /\ Head(q) = q[1] /\ Head(q) \in S /\ 1 \in DOMAIN q
           /\ Tail(q) \in Seq(S) /\ Len(Tail(q)) = Len(q) - 1
           /\ \A i \in DOMAIN Tail(q) : i + 1 \in DOMAIN q /\ Tail(q)[i] = q[i + 1]
           /\ \A i \in DOMAIN q : i \in Nat /\ 1 <= i /\ i <= Len(q)
<1>1. /\ Tail(q) \in Seq(S) /\ Len(Tail(q)) = Len(q) - 1
      /\ Len(q) \in Nat /\ Len(q) > 0
      /\ \A i \in 1 .. Len(Tail(q)) : Tail(q)[i] = q[i + 1]
  BY HeadTailProperties, EmptySeq, LenProperties
<1>2. DOMAIN q = 1 .. Len(q) /\ DOMAIN Tail(q) = 1 .. Len(Tail(q))
  BY <1>1, LenProperties
<1>3. Head(q) = q[1] /\ Head(q) \in S
  BY HeadTailProperties
<1> QED
  BY <1>1, <1>2, <1>3

LEMMA MoreSent ==
    ASSUME NEW S, NEW q \in Seq(S), NEW m \in Seq(S)
    PROVE  /\ q \o m \in Seq(S)
           /\ Len(q \o m) = Len(q) + Len(m)
           /\ \A i \in DOMAIN q : i \in DOMAIN (q \o m) /\ (q \o m)[i] = q[i]
           /\ \A i \in DOMAIN m : Len(q) + i \in DOMAIN (q \o m)
                                  /\ (q \o m)[Len(q) + i] = m[i]
           /\ \A k \in DOMAIN (q \o m) :
                 k \in DOMAIN q \/ \E i \in DOMAIN m : k = Len(q) + i
           /\ \A i \in DOMAIN q : i \in Nat /\ 1 <= i /\ i <= Len(q)
           /\ \A i \in DOMAIN m : i \in Nat /\ 1 <= i /\ i <= Len(m)
           /\ Len(q) \in Nat /\ Len(m) \in Nat
<1>1. /\ q \o m \in Seq(S)
      /\ Len(q \o m) = Len(q) + Len(m)
      /\ \A i \in 1 .. Len(q) + Len(m) :
            (q \o m)[i] = IF i <= Len(q) THEN q[i] ELSE m[i - Len(q)]
  BY ConcatProperties
<1>2. /\ Len(q) \in Nat /\ Len(m) \in Nat
      /\ DOMAIN q = 1 .. Len(q) /\ DOMAIN m = 1 .. Len(m)
      /\ DOMAIN (q \o m) = 1 .. Len(q \o m)
  BY <1>1, LenProperties
<1> DEFINE c == q \o m
           n == Len(q)
           k == Len(m)
<1>3. /\ n \in Nat /\ k \in Nat /\ DOMAIN q = 1 .. n /\ DOMAIN m = 1 .. k
      /\ DOMAIN c = 1 .. n + k /\ Len(c) = n + k /\ c \in Seq(S)
      /\ \A i \in 1 .. n + k : c[i] = IF i <= n THEN q[i] ELSE m[i - n]
  BY <1>1, <1>2
<1> HIDE DEF c, n, k
<1>4. \A i \in DOMAIN q : i \in DOMAIN c /\ c[i] = q[i]
  BY <1>3
<1>5. \A i \in DOMAIN m : n + i \in DOMAIN c /\ c[n + i] = m[i]
  <2> TAKE i \in DOMAIN m
  <2>1. i \in 1 .. k /\ n + i \in 1 .. n + k /\ ~(n + i <= n) /\ (n + i) - n = i
    BY <1>3
  <2> QED
    BY <1>3, <2>1
<1>6. \A j \in DOMAIN c : j \in DOMAIN q \/ \E i \in DOMAIN m : j = n + i
  <2> SUFFICES ASSUME NEW j \in DOMAIN c, j \notin DOMAIN q
               PROVE  \E i \in DOMAIN m : j = n + i
    OBVIOUS
  <2>1. j - n \in DOMAIN m /\ j = n + (j - n)
    BY <1>3
  <2> QED
    BY <2>1
<1> QED
  BY <1>3, <1>4, <1>5, <1>6 DEF c, n, k

\* One packet, and two
LEMMA OnePacket ==
    ASSUME NEW S, NEW p \in S
    PROVE  <<p>> \in Seq(S) /\ Len(<<p>>) = 1 /\ DOMAIN <<p>> = {1} /\ <<p>>[1] = p
  OBVIOUS

LEMMA TwoPackets ==
    ASSUME NEW S, NEW p \in S, NEW o \in S
    PROVE  /\ <<p, o>> \in Seq(S) /\ Len(<<p, o>>) = 2 /\ DOMAIN <<p, o>> = {1, 2}
           /\ <<p, o>>[1] = p /\ <<p, o>>[2] = o
  OBVIOUS

-----------------------------------------------------------------------------
(* A step of somebody else.                                                *)

SameClient(d) ==
    /\ s2c'[d] = s2c[d] /\ c2s'[d] = c2s[d] /\ scene'[d] = scene[d]
    /\ building'[d] = building[d] /\ result'[d] = result[d]
    /\ myRoom'[d] = myRoom[d] /\ myGame'[d] = myGame[d]

SameRoom(d, r) ==
    /\ d \in members'[r] /\ status'[r] = status[r]
    /\ d \in accepted'[r] <=> d \in accepted[r]
    /\ members'[r] \subseteq accepted'[r] <=> members[r] \subseteq accepted[r]
    /\ r \in over => r \in over'

SameSlot(d) ==
    /\ connect'[d] = connect[d] /\ lobby'[d] = lobby[d] /\ gameID'[d] = gameID[d]

\* What is known of d does not depend on anything else.
LEMMA StationsSame ==
    ASSUME NEW d \in Users, NEW r \in RoomIds, Stations(d, r),
           SameClient(d), gameID'[d] = gameID[d], SameRoom(d, r)
    PROVE  Stations(d, r)'
<1> USE DEF SameClient, SameRoom, Tidings, Hears
<1>1. Enters(d, r) => Enters(d, r)'
  BY DEF Enters, Joining, InRoom, Copied, ReadyPress
<1>2. Waiting(d, r) => Waiting(d, r)'
  BY <1>1 DEF Waiting
<1>3. Starting(d, r) => Starting(d, r)'
  BY <1>1 DEF Starting
<1>4. Loading(d, r) => Loading(d, r)'
  BY DEF Loading, Copied, ReadyPress, LoadedReport
<1>5. Loads(d, r) => Loads(d, r)'
  BY DEF Loads, Copied
<1>6. InMatch(d, r) => InMatch(d, r)'
  <2>1. Plays(d, r) => Plays(d, r)'
    BY DEF Plays
  <2>2. AtTable(d, r) => AtTable(d, r)'
    BY DEF AtTable, ConfirmClick, LobbyRequest
  <2> QED
    BY <2>1, <2>2 DEF InMatch, Copied
<1> QED
  BY <1>2, <1>3, <1>4, <1>5, <1>6 DEF Stations

LEMMA KnowsSame ==
    ASSUME NEW d \in Users, Knows(d), SameClient(d), SameSlot(d),
           \A r \in RoomIds : d \in members[r] => SameRoom(d, r)
    PROVE  Knows(d)'
<1>1. CASE ~connect[d]
  BY <1>1 DEF Knows, SameClient, SameSlot
<1>2. CASE connect[d] /\ lobby[d] /\ InLobby(d)
  <2>1. InLobby(d)'
    BY <1>2 DEF InLobby, SameClient, LobbyRequest, IDPacket, FailPacket
  <2> QED
    BY <1>2, <2>1 DEF Knows, SameSlot
<1>3. CASE connect[d] /\ ~lobby[d] /\ \E r \in RoomIds : d \in members[r] /\ Stations(d, r)
  <2>1. PICK r \in RoomIds : d \in members[r] /\ Stations(d, r)
    BY <1>3
  <2>2. SameRoom(d, r)
    BY <2>1
  <2>3. Stations(d, r)' /\ d \in members'[r]
    BY <2>1, <2>2, StationsSame DEF SameSlot, SameRoom
  <2> QED
    BY <1>3, <2>3 DEF Knows, SameSlot
<1> QED
  BY <1>1, <1>2, <1>3 DEF Knows

-----------------------------------------------------------------------------
(* A member d of room r is told something.                                 *)

\* Nothing but its two streams changes, and of what it has sent at most the
\* press of the ready button at the head is handled.
Told(d, m) ==
    /\ s2c[d] \in Seq(ToClient) /\ m \in Seq(ToClient)
    /\ s2c'[d] = s2c[d] \o m
    /\ scene'[d] = scene[d] /\ building'[d] = building[d] /\ result'[d] = result[d]
    /\ myRoom'[d] = myRoom[d] /\ myGame'[d] = myGame[d] /\ gameID'[d] = gameID[d]
    /\ \/ c2s'[d] = c2s[d]
       \/ c2s[d] # <<>> /\ Head(c2s[d]).t = "READY" /\ c2s'[d] = Tail(c2s[d])

\* The stream to d afterwards
LEMMA ToldStream ==
    ASSUME NEW d \in Users, NEW m, Told(d, m)
    PROVE  /\ s2c'[d] \in Seq(ToClient)
           /\ Len(s2c'[d]) = Len(s2c[d]) + Len(m)
           /\ Len(s2c[d]) \in Nat /\ Len(m) \in Nat
           /\ \A i \in DOMAIN s2c[d] : i \in DOMAIN s2c'[d] /\ s2c'[d][i] = s2c[d][i]
           /\ \A i \in DOMAIN m : Len(s2c[d]) + i \in DOMAIN s2c'[d]
                                  /\ s2c'[d][Len(s2c[d]) + i] = m[i]
           /\ \A k \in DOMAIN s2c'[d] :
                 k \in DOMAIN s2c[d]
                 \/ \E i \in DOMAIN m : k = Len(s2c[d]) + i /\ s2c'[d][k] = m[i]
           /\ \A i \in DOMAIN s2c[d] : i \in Nat /\ 1 <= i /\ i <= Len(s2c[d])
           /\ \A i \in DOMAIN m : i \in Nat /\ 1 <= i /\ i <= Len(m)
<1> DEFINE q == s2c[d]
           c == q \o m
<1>1. q \in Seq(ToClient) /\ m \in Seq(ToClient) /\ s2c'[d] = c
  BY DEF Told
<1> HIDE DEF q
<1>2. /\ c \in Seq(ToClient) /\ Len(c) = Len(q) + Len(m)
      /\ \A i \in DOMAIN q : i \in DOMAIN c /\ c[i] = q[i]
      /\ \A i \in DOMAIN m : Len(q) + i \in DOMAIN c /\ c[Len(q) + i] = m[i]
      /\ \A k \in DOMAIN c : k \in DOMAIN q \/ \E i \in DOMAIN m : k = Len(q) + i
      /\ \A i \in DOMAIN q : i \in Nat /\ 1 <= i /\ i <= Len(q)
      /\ \A i \in DOMAIN m : i \in Nat /\ 1 <= i /\ i <= Len(m)
      /\ Len(q) \in Nat /\ Len(m) \in Nat
  BY <1>1, MoreSent
<1> HIDE DEF c
<1>3. \A k \in DOMAIN c : k \in DOMAIN q \/ \E i \in DOMAIN m : k = Len(q) + i /\ c[k] = m[i]
  BY <1>2
<1> QED
  BY <1>1, <1>2, <1>3 DEF q

\* After the answer, by kinds of packets.
LEMMA ToldKinds ==
    ASSUME NEW d \in Users, NEW m, Told(d, m), NEW K, NEW L,
           \A i \in DOMAIN m : m[i].t \in L
    PROVE  /\ Tidings(d, K) => Tidings(d, K \cup L)'
           /\ \A t : Hears(d, t)' <=> Hears(d, t) \/ \E i \in DOMAIN m : m[i].t = t
<1>2. Tidings(d, K) => Tidings(d, K \cup L)'
  BY ToldStream DEF Tidings
<1>3. \A t : Hears(d, t)' => Hears(d, t) \/ \E i \in DOMAIN m : m[i].t = t
  <2> SUFFICES ASSUME NEW t, Hears(d, t)'
               PROVE  Hears(d, t) \/ \E i \in DOMAIN m : m[i].t = t
    OBVIOUS
  <2>1. PICK k \in DOMAIN s2c'[d] : s2c'[d][k].t = t
    BY DEF Hears
  <2>2. CASE k \in DOMAIN s2c[d]
    BY <2>1, <2>2, ToldStream DEF Hears
  <2>3. CASE \E i \in DOMAIN m : s2c'[d][k] = m[i]
    BY <2>1, <2>3
  <2> QED
    BY <2>2, <2>3, ToldStream
<1>4. \A t : Hears(d, t) \/ (\E i \in DOMAIN m : m[i].t = t) => Hears(d, t)'
  BY ToldStream DEF Hears
<1> QED
  BY <1>2, <1>3, <1>4

LEMMA ToldEnters ==
    ASSUME NEW d \in Users, NEW r \in RoomIds, NEW m, Told(d, m), Enters(d, r),
           \A i \in DOMAIN m : m[i].t # "JOINED"
    PROVE  Enters(d, r)'
<1>1. /\ \A i \in DOMAIN s2c[d] : i \in DOMAIN s2c'[d] /\ s2c'[d][i] = s2c[d][i]
      /\ \A k \in DOMAIN s2c'[d] :
            k \in DOMAIN s2c[d]
            \/ \E i \in DOMAIN m : k = Len(s2c[d]) + i /\ s2c'[d][k] = m[i]
      /\ Len(s2c'[d]) = Len(s2c[d]) + Len(m) /\ s2c'[d] \in Seq(ToClient)
      /\ Len(s2c[d]) \in Nat /\ Len(m) \in Nat
  BY ToldStream DEF Told
<1>2. ~building'[d] /\ ~result'[d]
  BY DEF Enters, Told
<1>3. CASE Joining(d, r)
  <2>1. scene'[d] \in {"LOBBY", "ROOM"} /\ c2s'[d] = <<>> /\ gameID'[d] = gameID[d]
    BY <1>3 DEF Joining, Told
  <2>2. 1 \in DOMAIN s2c[d] /\ Len(s2c[d]) # 0
    BY <1>3, OneRead, EmptySeq DEF Joining, Told
  <2>3. s2c'[d] # <<>> /\ s2c'[d][1] = s2c[d][1]
    BY <1>1, <2>2
  <2>4. \A i \in DOMAIN s2c'[d] : i > 1 => s2c'[d][i].t # "JOINED"
    BY <1>1, <1>3 DEF Joining
  <2> QED
    BY <1>2, <1>3, <2>1, <2>3, <2>4 DEF Enters, Joining
<1>4. CASE InRoom(d, r)
  <2>1. ~Hears(d, "JOINED")'
    BY <1>1, <1>4 DEF InRoom, Hears
  <2>2. scene'[d] = "ROOM" /\ Copied(d, r)'
    BY <1>4 DEF InRoom, Copied, Told
  <2>3. c2s'[d] \in {<<>>, <<ReadyPress(r)>>}
    <3>1. Tail(<<ReadyPress(r)>>) = <<>>
      OBVIOUS
    <3> QED
      BY <1>4, <3>1 DEF InRoom, Told
  <2> QED
    BY <1>2, <2>1, <2>2, <2>3 DEF Enters, InRoom, ReadyPress
<1> QED
  BY <1>3, <1>4 DEF Enters

\* Somebody comes in, or presses ready, before the game.
LEMMA ToldWaiting ==
    ASSUME NEW d \in Users, NEW r \in RoomIds, NEW m, Told(d, m), Waiting(d, r),
           \A i \in DOMAIN m : m[i].t \in {"ENTER", "READY"},
           status'[r] \in {"JOINABLE", "FULL"}
    PROVE  Waiting(d, r)'
<1>1. Enters(d, r)'
  BY ToldEnters DEF Waiting
<1>2. Tidings(d, {"JOINED", "ENTER", "READY"} \cup {"ENTER", "READY"})'
  BY ToldKinds DEF Waiting
<1>3. Tidings(d, {"JOINED", "ENTER", "READY"})'
  BY <1>2 DEF Tidings
<1> QED
  BY <1>1, <1>3 DEF Waiting

\* The press that starts the game.
LEMMA ToldStart ==
    ASSUME NEW d \in Users, NEW r \in RoomIds, NEW p \in ToClient, p.t = "READY",
           Told(d, <<p, AllReadyPacket>>), Waiting(d, r),
           status'[r] = "INGAME", d \notin accepted'[r]
    PROVE  Starting(d, r)'
<1> DEFINE m == <<p, AllReadyPacket>>
<1>1. AllReadyPacket \in ToClient /\ AllReadyPacket.t = "ALLREADY"
  BY DEF AllReadyPacket, ToClient
<1>2. /\ m \in Seq(ToClient) /\ Len(m) = 2 /\ DOMAIN m = {1, 2}
      /\ m[1] = p /\ m[2] = AllReadyPacket
  BY <1>1, TwoPackets
<1>3. Told(d, m)
  OBVIOUS
<1> HIDE DEF m
<1>4. \A i \in DOMAIN m : m[i].t \in {"READY", "ALLREADY"}
  BY <1>1, <1>2
<1>5. Enters(d, r)'
  BY <1>3, <1>4, ToldEnters DEF Waiting
<1>6. Tidings(d, {"JOINED", "ENTER", "READY"} \cup {"READY", "ALLREADY"})'
  BY <1>3, <1>4, ToldKinds DEF Waiting
<1>7. Tidings(d, {"JOINED", "ENTER", "READY", "ALLREADY"})'
  BY <1>6 DEF Tidings
<1>8. Hears(d, "ALLREADY")'
  BY <1>1, <1>2, <1>3, <1>4, ToldKinds
<1>9. ASSUME NEW i \in DOMAIN s2c'[d], NEW j \in DOMAIN s2c'[d], i < j
      PROVE  s2c'[d][i].t # "ALLREADY"
  <2>1. /\ \A k \in DOMAIN s2c[d] : s2c'[d][k] = s2c[d][k]
        /\ \A k \in DOMAIN s2c'[d] :
              k \in DOMAIN s2c[d]
              \/ \E h \in DOMAIN m : k = Len(s2c[d]) + h /\ s2c'[d][k] = m[h]
        /\ \A k \in DOMAIN s2c[d] : k \in Nat /\ k <= Len(s2c[d])
        /\ Len(s2c[d]) \in Nat
    BY <1>3, ToldStream
  <2>2. CASE i \in DOMAIN s2c[d]
    <3>1. s2c'[d][i] = s2c[d][i] /\ s2c[d][i].t \in {"JOINED", "ENTER", "READY"}
      BY <2>1, <2>2 DEF Waiting, Tidings
    <3> QED
      BY <3>1
  <2>3. CASE \E h \in DOMAIN m : i = Len(s2c[d]) + h /\ s2c'[d][i] = m[h]
    <3>1. PICK h \in DOMAIN m : i = Len(s2c[d]) + h /\ s2c'[d][i] = m[h]
      BY <2>3
    <3>2. h = 1
      BY <1>2, <1>9, <2>1, <3>1
    <3> QED
      BY <1>2, <3>1, <3>2
  <2> QED
    BY <2>1, <2>2, <2>3
<1> QED
  BY <1>5, <1>7, <1>8, <1>9 DEF Starting

\* A late press: the game has started, and somebody has not loaded.
LEMMA ToldLate ==
    ASSUME NEW d \in Users, NEW r \in RoomIds, NEW p \in ToClient, p.t = "READY",
           Told(d, <<p>>), Stations(d, r), status[r] = "INGAME",
           ~(members[r] \subseteq accepted[r]),
           status'[r] = "INGAME", accepted'[r] = accepted[r], members'[r] = members[r]
    PROVE  Stations(d, r)'
<1> DEFINE m == <<p>>
<1>1. m \in Seq(ToClient) /\ Len(m) = 1 /\ DOMAIN m = {1} /\ m[1] = p
  BY OnePacket
<1>2. Told(d, m)
  OBVIOUS
<1> HIDE DEF m
<1>3. \A i \in DOMAIN m : m[i].t \in {"READY"}
  BY <1>1
<1>4. \A K : Tidings(d, K) => Tidings(d, K \cup {"READY"})'
  BY <1>2, <1>3, ToldKinds
<1>5. /\ scene'[d] = scene[d] /\ result'[d] = result[d] /\ building'[d] = building[d]
      /\ Copied(d, r)' <=> Copied(d, r)
  BY DEF Told, Copied
<1>6. CASE Starting(d, r)
  <2>1. Enters(d, r)'
    BY <1>2, <1>3, <1>6, ToldEnters DEF Starting
  <2>2. Tidings(d, {"JOINED", "ENTER", "READY", "ALLREADY"})'
    BY <1>4, <1>6 DEF Starting, Tidings
  <2>3. Hears(d, "ALLREADY")'
    BY <1>2, <1>3, <1>6, ToldKinds DEF Starting
  <2>4. ASSUME NEW i \in DOMAIN s2c'[d], NEW j \in DOMAIN s2c'[d], i < j,
               s2c'[d][i].t = "ALLREADY"
        PROVE  s2c'[d][j].t = "READY"
    <3>1. CASE j \in DOMAIN s2c[d]
      <4>1. i \in DOMAIN s2c[d]
        BY <1>2, <2>4, <3>1, ToldStream
      <4>2. s2c'[d][i] = s2c[d][i] /\ s2c'[d][j] = s2c[d][j]
        BY <1>2, <3>1, <4>1, ToldStream
      <4> QED
        BY <1>6, <2>4, <3>1, <4>1, <4>2 DEF Starting
    <3>2. CASE \E h \in DOMAIN m : s2c'[d][j] = m[h]
      BY <1>3, <3>2
    <3> QED
      BY <1>2, <3>1, <3>2, ToldStream
  <2> QED
    BY <1>6, <2>1, <2>2, <2>3, <2>4 DEF Starting, Stations
<1>7. CASE Loading(d, r)
  <2>1. Tidings(d, {"READY"})'
    BY <1>4, <1>7 DEF Loading, Tidings
  <2>2. Tail(<<ReadyPress(r)>>) = <<>>
    OBVIOUS
  <2>3. /\ Tail(<<ReadyPress(r), LoadedReport(r)>>) = <<LoadedReport(r)>>
        /\ Head(<<LoadedReport(r)>>).t = "LOADED"
    BY DEF LoadedReport
  <2>4. \/ building'[d] /\ c2s'[d] \in {<<>>, <<ReadyPress(r)>>}
        \/ ~building'[d] /\ c2s'[d] \in {<<LoadedReport(r)>>,
                                         <<ReadyPress(r), LoadedReport(r)>>}
    BY <1>5, <1>7, <2>2, <2>3 DEF Loading, Told
  <2> QED
    BY <1>5, <1>7, <2>1, <2>4 DEF Loading, Stations, LoadedReport, ReadyPress
<1>8. CASE Loads(d, r)
  <2>1. Tidings(d, {"READY"})'
    BY <1>4, <1>8 DEF Loads, Tidings
  <2>2. c2s'[d] = <<>>
    BY <1>8 DEF Loads, Told
  <2> QED
    BY <1>5, <1>8, <2>1, <2>2 DEF Loads, Stations
<1> QED
  BY <1>6, <1>7, <1>8 DEF Stations, Waiting, InMatch

\* The last member has loaded: the heroes are put on the map.
LEMMA ToldPut ==
    ASSUME NEW d \in Users, NEW r \in RoomIds, NEW m, Told(d, m), Loads(d, r),
           \A i \in DOMAIN m : m[i].t = "PUT",
           status'[r] = "INGAME", members'[r] \subseteq accepted'[r]
    PROVE  InMatch(d, r)'
<1>1. \A K : Tidings(d, K) => Tidings(d, K \cup {"PUT"})'
  BY ToldKinds
<1>2. Tidings(d, {"READY", "PUT", "RESULT"})' /\ ~Hears(d, "RESULT")'
  <2>1. Tidings(d, {"READY", "PUT"})'
    BY <1>1 DEF Loads, Tidings
  <2> QED
    BY <2>1 DEF Tidings, Hears
<1>3. \A i \in DOMAIN s2c'[d] : s2c'[d][i].t # "RESULT"
  BY <1>2 DEF Hears
<1>4. /\ scene'[d] = "LOADING" /\ ~result'[d] /\ ~building'[d] /\ c2s'[d] = <<>>
      /\ Copied(d, r)'
  BY DEF Told, Copied, Loads
<1> QED
  BY <1>2, <1>3, <1>4 DEF InMatch, Plays

\* The match is decided.
LEMMA ToldResult ==
    ASSUME NEW d \in Users, NEW r \in RoomIds, Told(d, <<ResultPacket>>),
           InMatch(d, r), r \notin over, r \in over', c2s'[d] = c2s[d],
           status'[r] = status[r], members'[r] = members[r], accepted'[r] = accepted[r]
    PROVE  InMatch(d, r)'
<1> DEFINE m == <<ResultPacket>>
<1>1. ResultPacket \in ToClient /\ ResultPacket.t = "RESULT"
  BY DEF ResultPacket, ToClient
<1>2. m \in Seq(ToClient) /\ Len(m) = 1 /\ DOMAIN m = {1} /\ m[1] = ResultPacket
  BY <1>1, OnePacket
<1>3. Told(d, m)
  OBVIOUS
<1> HIDE DEF m
<1>4. \A i \in DOMAIN m : m[i].t \in {"RESULT"}
  BY <1>1, <1>2
<1>5. Tidings(d, {"READY", "PUT", "RESULT"} \cup {"RESULT"})'
  BY <1>3, <1>4, ToldKinds DEF InMatch
<1>6. ~result[d] /\ ~Hears(d, "RESULT") /\ ~AtTable(d, r) /\ Plays(d, r)
  BY DEF InMatch, AtTable
<1>7. \A i \in DOMAIN s2c'[d] : s2c'[d][i].t = "RESULT" => i = Len(s2c'[d])
  <2> SUFFICES ASSUME NEW i \in DOMAIN s2c'[d], s2c'[d][i].t = "RESULT"
               PROVE  i = Len(s2c'[d])
    OBVIOUS
  <2>1. i \notin DOMAIN s2c[d]
    BY <1>3, <1>6, ToldStream DEF Hears
  <2>2. PICK h \in DOMAIN m : i = Len(s2c[d]) + h
    BY <1>3, <2>1, ToldStream
  <2>3. h = 1 /\ Len(s2c'[d]) = Len(s2c[d]) + 1
    BY <1>2, <1>3, ToldStream
  <2> QED
    BY <2>2, <2>3
<1>8. /\ scene'[d] = scene[d] /\ result'[d] = result[d] /\ building'[d] = building[d]
      /\ Copied(d, r)' <=> Copied(d, r)
  BY DEF Told, Copied
<1> QED
  BY <1>5, <1>6, <1>7, <1>8 DEF InMatch, Plays, Tidings

-----------------------------------------------------------------------------
(* A client reads its next packet.                                         *)

\* What one packet p does to what the client shows and remembers
Reads(s, p) ==
    /\ s2c[s] # <<>> /\ p = Head(s2c[s])
    /\ s2c' = [s2c EXCEPT ![s] = Tail(@)]
    /\ scene' = [scene EXCEPT ![s] =
                    CASE p.t = "ID" -> "LOBBY"
                      [] p.t = "JOINED" -> "ROOM"
                      [] p.t = "ALLREADY" -> "LOADING"
                      [] p.t = "PUT" /\ p.g = myGame[s] -> "GAME"
                      [] OTHER -> @]
    /\ building' = [building EXCEPT ![s] = (p.t = "ALLREADY") \/ @]
    /\ result' = [result EXCEPT ![s] = @ \/ (p.t = "RESULT" /\ myGame[s] \in teams[s])]
    /\ myRoom' = [myRoom EXCEPT ![s] = IF p.t = "JOINED" THEN p.r ELSE @]
    /\ myGame' = [myGame EXCEPT ![s] = IF p.t = "JOINED" THEN p.g ELSE @]
    /\ UNCHANGED <<vars, c2s, over>>

LEMMA ReceiveReads ==
    ASSUME SessionTypeOK, NEW s \in Users, Receive(s)
    PROVE  Reads(s, Head(s2c[s]))
<1> DEFINE p == Head(s2c[s])
<1> USE DEF SessionTypeOK, Receives, clientState
<1>1. /\ scene = [scene EXCEPT ![s] = @] /\ building = [building EXCEPT ![s] = @]
      /\ result = [result EXCEPT ![s] = @] /\ myRoom = [myRoom EXCEPT ![s] = @]
      /\ myGame = [myGame EXCEPT ![s] = @]
  OBVIOUS
<1> HIDE DEF p
<1> SUFFICES Reads(s, p)
  BY DEF p
<1>2. ASSUME GotID(s) PROVE Reads(s, p)
  BY <1>1, <1>2 DEF GotID, Reads, p
<1>3. ASSUME GotJoined(s) PROVE Reads(s, p)
  BY <1>1, <1>3 DEF GotJoined, Reads, p
<1>4. ASSUME GotFail(s) PROVE Reads(s, p)
  BY <1>1, <1>4 DEF GotFail, Reads, p
<1>5. ASSUME GotEnter(s) PROVE Reads(s, p)
  BY <1>1, <1>5 DEF GotEnter, Reads, p
<1>6. ASSUME GotReady(s) PROVE Reads(s, p)
  BY <1>1, <1>6 DEF GotReady, Reads, p
<1>7. ASSUME GotAllReady(s) PROVE Reads(s, p)
  BY <1>1, <1>7 DEF GotAllReady, Reads, p
<1>8. ASSUME GotPut(s) PROVE Reads(s, p)
  BY <1>1, <1>8 DEF GotPut, Reads, p
<1>9. ASSUME GotResult(s) PROVE Reads(s, p)
  BY <1>1, <1>9 DEF GotResult, Reads, p
<1> QED
  BY <1>2, <1>3, <1>4, <1>5, <1>6, <1>7, <1>8, <1>9 DEF Receive

LEMMA ReadStream ==
    ASSUME SessionTypeOK, NEW s \in Users, NEW p, Reads(s, p)
    PROVE  /\ p \in ToClient /\ s2c[s] \in Seq(ToClient)
           /\ 1 \in DOMAIN s2c[s] /\ p = s2c[s][1]
           /\ s2c'[s] \in Seq(ToClient) /\ Len(s2c'[s]) = Len(s2c[s]) - 1
           /\ \A i \in DOMAIN s2c'[s] : /\ i \in Nat /\ i >= 1
                                        /\ i + 1 \in DOMAIN s2c[s]
                                        /\ s2c'[s][i] = s2c[s][i + 1]
           /\ \A K : Tidings(s, K) => p.t \in K /\ Tidings(s, K)'
           /\ \A t : Hears(s, t)' => Hears(s, t)
           /\ \A t : Hears(s, t) /\ p.t # t => Hears(s, t)'
<1> DEFINE q == s2c[s]
           x == s2c'[s]
<1>1. q \in Seq(ToClient) /\ q # <<>> /\ p = Head(q) /\ x = Tail(q)
  BY DEF SessionTypeOK, Reads
<1> HIDE DEF q, x
<1>2. /\ p = q[1] /\ p \in ToClient /\ 1 \in DOMAIN q
      /\ x \in Seq(ToClient) /\ Len(x) = Len(q) - 1
      /\ \A i \in DOMAIN x : i + 1 \in DOMAIN q /\ x[i] = q[i + 1]
      /\ \A i \in DOMAIN q : i \in Nat /\ 1 <= i /\ i <= Len(q)
  BY <1>1, OneRead
<1>3. \A i \in DOMAIN x : i \in Nat /\ i >= 1
  BY <1>2, OneRead, LenProperties
<1>4. \A K : Tidings(s, K) => p.t \in K /\ Tidings(s, K)'
  BY <1>2 DEF Tidings, q, x
<1>5. \A t : Hears(s, t)' => Hears(s, t)
  BY <1>2 DEF Hears, q, x
<1>6. \A i \in DOMAIN q : i # 1 => i - 1 \in DOMAIN x /\ (i - 1) + 1 = i
  <2>1. DOMAIN q = 1 .. Len(q) /\ DOMAIN x = 1 .. Len(x) /\ Len(q) \in Nat
    BY <1>1, <1>2, LenProperties
  <2> QED
    BY <1>2, <2>1
<1>7. ASSUME NEW t, Hears(s, t), p.t # t PROVE Hears(s, t)'
  <2>1. PICK i \in DOMAIN q : q[i].t = t
    BY <1>7 DEF Hears, q
  <2>2. i # 1
    BY <1>2, <1>7, <2>1
  <2>3. i - 1 \in DOMAIN x /\ x[i - 1] = q[i]
    BY <1>2, <1>6, <2>2
  <2> QED
    BY <2>1, <2>3 DEF Hears, x
<1> QED
  BY <1>1, <1>2, <1>3, <1>4, <1>5, <1>7 DEF q, x

\* What the step leaves as it is
LEMMA ReadRest ==
    ASSUME SessionTypeOK, NEW s \in Users, NEW p, Reads(s, p)
    PROVE  /\ SameSlot(s) /\ UNCHANGED <<vars, c2s, over>>
           /\ UNCHANGED <<connect, lobby, gameID, status, members, accepted, readycount>>
           /\ scene'[s] = CASE p.t = "ID" -> "LOBBY"
                            [] p.t = "JOINED" -> "ROOM"
                            [] p.t = "ALLREADY" -> "LOADING"
                            [] p.t = "PUT" /\ p.g = myGame[s] -> "GAME"
                            [] OTHER -> scene[s]
           /\ building'[s] = ((p.t = "ALLREADY") \/ building[s])
           /\ (result'[s] => result[s] \/ p.t = "RESULT")
           /\ p.t # "JOINED" => (myRoom'[s] = myRoom[s] /\ myGame'[s] = myGame[s])
           /\ p.t = "JOINED" => (myRoom'[s] = p.r /\ myGame'[s] = p.g)
           /\ \A d \in Users : d # s => SameClient(d)
  BY DEF Reads, SameSlot, SameClient, SessionTypeOK, vars, roomVars

LEMMA ReadEnters ==
    ASSUME SessionTypeOK, NEW s \in Users, NEW p, Reads(s, p), NEW r \in RoomIds,
           Enters(s, r), p.t \in {"JOINED", "ENTER", "READY"}
    PROVE  Enters(s, r)'
<1>1. ~building'[s] /\ ~result'[s]
  BY ReadRest DEF Enters
<1>2. CASE Joining(s, r)
  <2>1. p = [t |-> "JOINED", r |-> r, g |-> gameID[s]]
    BY <1>2, ReadStream DEF Joining
  <2>2. scene'[s] = "ROOM" /\ Copied(s, r)'
    BY <2>1, ReadRest DEF Copied
  <2>3. ~Hears(s, "JOINED")'
    <3>1. \A i \in DOMAIN s2c'[s] : i + 1 > 1 /\ s2c'[s][i] = s2c[s][i + 1]
                                    /\ i + 1 \in DOMAIN s2c[s]
      BY ReadStream
    <3> QED
      BY <1>2, <3>1 DEF Joining, Hears
  <2>4. c2s'[s] = <<>>
    BY <1>2, ReadRest DEF Joining
  <2> QED
    BY <1>1, <2>2, <2>3, <2>4 DEF Enters, InRoom
<1>3. CASE InRoom(s, r)
  <2>1. p.t # "JOINED"
    BY <1>3, ReadStream DEF InRoom, Hears
  <2>2. scene'[s] = "ROOM" /\ Copied(s, r)'
    BY <1>3, <2>1, ReadRest DEF InRoom, Copied
  <2>3. ~Hears(s, "JOINED")'
    BY <1>3, ReadStream DEF InRoom
  <2>4. c2s'[s] \in {<<>>, <<ReadyPress(r)>>}
    BY <1>3, ReadRest DEF InRoom
  <2> QED
    BY <1>1, <2>2, <2>3, <2>4 DEF Enters, InRoom, ReadyPress
<1> QED
  BY <1>2, <1>3 DEF Enters

LEMMA ReadStations ==
    ASSUME SessionTypeOK, NEW s \in Users, NEW p, Reads(s, p), NEW r \in RoomIds,
           Stations(s, r)
    PROVE  Stations(s, r)'
<1> USE ReadRest
<1>1. \A K : Tidings(s, K) => p.t \in K /\ Tidings(s, K)'
  BY ReadStream
<1>2. CASE Waiting(s, r)
  <2>1. p.t \in {"JOINED", "ENTER", "READY"} /\ Tidings(s, {"JOINED", "ENTER", "READY"})'
    BY <1>1, <1>2 DEF Waiting
  <2>2. Enters(s, r)'
    BY <1>2, <2>1, ReadEnters DEF Waiting
  <2> QED
    BY <1>2, <2>1, <2>2 DEF Waiting, Stations
<1>3. CASE Starting(s, r)
  <2>1. /\ p.t \in {"JOINED", "ENTER", "READY", "ALLREADY"}
        /\ Tidings(s, {"JOINED", "ENTER", "READY", "ALLREADY"})'
    BY <1>1, <1>3 DEF Starting
  <2>2. \A i, j \in DOMAIN s2c'[s] :
           i < j /\ s2c'[s][i].t = "ALLREADY" => s2c'[s][j].t = "READY"
    <3> SUFFICES ASSUME NEW i \in DOMAIN s2c'[s], NEW j \in DOMAIN s2c'[s], i < j,
                        s2c'[s][i].t = "ALLREADY"
                 PROVE  s2c'[s][j].t = "READY"
      OBVIOUS
    <3>1. /\ i + 1 < j + 1 /\ i + 1 \in DOMAIN s2c[s] /\ j + 1 \in DOMAIN s2c[s]
          /\ s2c'[s][i] = s2c[s][i + 1] /\ s2c'[s][j] = s2c[s][j + 1]
      BY ReadStream
    <3> QED
      BY <1>3, <3>1 DEF Starting
  <2>3. CASE p.t # "ALLREADY"
    <3>1. Enters(s, r)'
      BY <1>3, <2>1, <2>3, ReadEnters DEF Starting
    <3>2. Hears(s, "ALLREADY")'
      BY <1>3, <2>3, ReadStream DEF Starting
    <3> QED
      BY <1>3, <2>1, <2>2, <3>1, <3>2 DEF Starting, Stations
  <2>4. CASE p.t = "ALLREADY"
    <3>1. InRoom(s, r) /\ ~result[s]
      BY <1>3, <2>4, ReadStream DEF Starting, Enters, Joining
    <3>2. scene'[s] = "LOADING" /\ building'[s] /\ ~result'[s] /\ Copied(s, r)'
      BY <2>4, <3>1 DEF InRoom, Copied
    <3>3. Tidings(s, {"READY"})'
      <4>1. \A i \in DOMAIN s2c'[s] : /\ 1 < i + 1 /\ i + 1 \in DOMAIN s2c[s]
                                      /\ s2c'[s][i] = s2c[s][i + 1]
        BY ReadStream
      <4>2. 1 \in DOMAIN s2c[s] /\ s2c[s][1].t = "ALLREADY"
        BY <2>4, ReadStream
      <4> QED
        BY <1>3, <4>1, <4>2 DEF Starting, Tidings
    <3>4. c2s'[s] \in {<<>>, <<ReadyPress(r)>>}
      BY <3>1 DEF InRoom
    <3> QED
      BY <1>3, <3>2, <3>3, <3>4 DEF Starting, Loading, Stations, ReadyPress
  <2> QED
    BY <2>3, <2>4
<1>4. CASE Loading(s, r)
  <2>1. p.t = "READY" /\ Tidings(s, {"READY"})'
    BY <1>1, <1>4 DEF Loading
  <2> QED
    BY <1>4, <2>1 DEF Loading, Stations, Copied, ReadyPress, LoadedReport
<1>5. CASE Loads(s, r)
  <2>1. p.t = "READY" /\ Tidings(s, {"READY"})'
    BY <1>1, <1>5 DEF Loads
  <2> QED
    BY <1>5, <2>1 DEF Loads, Stations, Copied
<1>6. CASE InMatch(s, r)
  <2>1. /\ p.t \in {"READY", "PUT", "RESULT"}
        /\ Tidings(s, {"READY", "PUT", "RESULT"})'
    BY <1>1, <1>6 DEF InMatch
  <2>2. Plays(s, r) /\ ~result[s]
    BY <1>6 DEF InMatch, AtTable, Plays, Reads
  <2>3. scene'[s] \in {"LOADING", "GAME"} /\ c2s'[s] = <<>> /\ ~building'[s]
        /\ Copied(s, r)'
    BY <1>6, <2>1, <2>2 DEF InMatch, Plays, Copied
  <2>4. result'[s] => s2c'[s] = <<>>
    <3> SUFFICES ASSUME p.t = "RESULT" PROVE s2c'[s] = <<>>
      BY <2>2
    <3>0. 1 \in DOMAIN s2c[s] /\ s2c[s][1].t = "RESULT"
      BY ReadStream
    <3>1. 1 = Len(s2c[s])
      BY <1>6, <3>0 DEF InMatch
    <3>2. Len(s2c'[s]) = 0 /\ s2c'[s] \in Seq(ToClient)
      BY <3>1, ReadStream
    <3> QED
      BY <3>2, EmptySeq
  <2>5. \A i \in DOMAIN s2c'[s] :
           s2c'[s][i].t = "RESULT" => i = Len(s2c'[s]) /\ ~result'[s]
    <3> SUFFICES ASSUME NEW i \in DOMAIN s2c'[s], s2c'[s][i].t = "RESULT"
                 PROVE  i = Len(s2c'[s]) /\ ~result'[s]
      OBVIOUS
    <3>1. i + 1 \in DOMAIN s2c[s] /\ s2c[s][i + 1].t = "RESULT" /\ i \in Nat
      BY ReadStream
    <3>2. i + 1 = Len(s2c[s])
      BY <1>6, <3>1 DEF InMatch
    <3>3. s2c'[s] # <<>>
      BY EmptySeq
    <3> QED
      BY <2>4, <3>1, <3>2, <3>3, ReadStream
  <2>6. result'[s] \/ Hears(s, "RESULT")' => r \in over'
    <3>1. result'[s] => Hears(s, "RESULT")
      BY <2>2, ReadStream DEF Hears
    <3> QED
      BY <1>6, <3>1, ReadStream DEF InMatch
  <2>7. status'[r] = "INGAME" /\ members'[r] \subseteq accepted'[r]
    BY <1>6 DEF InMatch
  <2> QED
    BY <2>1, <2>3, <2>4, <2>5, <2>6, <2>7 DEF InMatch, Plays, Stations
<1> QED
  BY <1>2, <1>3, <1>4, <1>5, <1>6 DEF Stations

LEMMA ReceiveKnows ==
    ASSUME SessionTypeOK, NEW s \in Users, Receive(s), \A d \in Users : Knows(d),
           NEW d \in Users
    PROVE  Knows(d)'
<1> DEFINE p == Head(s2c[s])
<1>1. Reads(s, p)
  BY ReceiveReads
<1> HIDE DEF p
<1>2. \A r \in RoomIds : d \in members[r] => SameRoom(d, r)
  BY <1>1, ReadRest DEF SameRoom
<1>3. SameSlot(d)
  BY <1>1, ReadRest DEF SameSlot
<1>4. CASE d # s
  BY <1>1, <1>2, <1>3, <1>4, ReadRest, KnowsSame
<1>5. CASE d = s
  <2>1. CASE ~connect[s]
    BY <1>1, <1>5, <2>1 DEF Knows, Reads
  <2>2. CASE connect[s] /\ lobby[s] /\ InLobby(s)
    <3>1. 1 \in DOMAIN s2c[s] /\ s2c[s] # <<>> /\ p = s2c[s][1] /\ s2c'[s] = Tail(s2c[s])
      BY <1>1, ReadStream DEF Reads, SessionTypeOK
    <3>2. /\ s2c[s] = <<IDPacket>> => p.t = "ID" /\ s2c'[s] = <<>>
          /\ s2c[s] = <<FailPacket>> => p.t = "FAIL" /\ s2c'[s] = <<>>
      <4>1. \A x : Tail(<<x>>) = <<>> /\ <<x>>[1] = x
        OBVIOUS
      <4>2. IDPacket.t = "ID" /\ FailPacket.t = "FAIL"
        BY DEF IDPacket, FailPacket
      <4> QED
        BY <3>1, <4>1, <4>2
    <3>3. InLobby(s)'
      BY <1>1, <2>2, <3>1, <3>2, ReadRest DEF InLobby
    <3> QED
      BY <1>5, <1>3, <2>2, <3>3 DEF Knows, SameSlot
  <2>3. CASE connect[s] /\ ~lobby[s] /\ \E r \in RoomIds : s \in members[r] /\ Stations(s, r)
    <3>1. PICK r \in RoomIds : s \in members[r] /\ Stations(s, r)
      BY <2>3
    <3>2. Stations(s, r)' /\ s \in members'[r]
      BY <1>1, <3>1, ReadStations, ReadRest
    <3> QED
      BY <1>3, <1>5, <2>3, <3>2 DEF Knows, SameSlot
  <2> QED
    BY <1>5, <2>1, <2>2, <2>3 DEF Knows
<1> QED
  BY <1>4, <1>5

LEMMA ReceiveTyped ==
    ASSUME SessionTypeOK, NEW s \in Users, Receive(s)
    PROVE  SessionTypeOK' /\ UNCHANGED <<vars, c2s>>
<1> DEFINE p == Head(s2c[s])
<1>1. Reads(s, p)
  BY ReceiveReads
<1>2. p \in ToClient /\ Tail(s2c[s]) \in Seq(ToClient)
  BY <1>1, OneRead DEF SessionTypeOK, Reads
<1>3. /\ p.t = "JOINED" => p.r \in RoomIds /\ p.g \in Byte
      /\ p.t = "READY" => p.g \in Byte /\ p.sid \in Users
  BY <1>2 DEF ToClient
<1>4. /\ c2s' \in [Users -> Seq(ToServer)] /\ over' \in SUBSET RoomIds
      /\ s2c' \in [Users -> Seq(ToClient)] /\ UNCHANGED <<vars, c2s>>
  BY <1>1, <1>2 DEF SessionTypeOK, Reads
<1>5. scene' \in [Users -> Scenes]
  BY <1>1 DEF SessionTypeOK, Reads, Scenes
<1>6. building' \in [Users -> BOOLEAN] /\ result' \in [Users -> BOOLEAN]
  <2>1. ((p.t = "ALLREADY") \/ building[s]) \in BOOLEAN
    OBVIOUS
  <2>2. (result[s] \/ (p.t = "RESULT" /\ myGame[s] \in teams[s])) \in BOOLEAN
    OBVIOUS
  <2> HIDE DEF p
  <2> QED
    BY <1>1, <2>1, <2>2, Zenon DEF SessionTypeOK, Reads
<1>7. myRoom' \in [Users -> RoomIds \cup {-1}] /\ myGame' \in [Users -> Byte \cup {-1}]
  BY <1>1, <1>3 DEF SessionTypeOK, Reads
<1>8. /\ shown' \in [Users -> SUBSET Byte] /\ teams' \in [Users -> SUBSET Byte]
      /\ serverID' \in [Users -> [Ids -> Users]]
  <2> USE DEF SessionTypeOK
  <2> HIDE DEF p
  <2>1. CASE GotReady(s)
    <3>1. p.t = "READY"
      BY <2>1 DEF GotReady, Receives, p
    <3>2. [serverID EXCEPT ![s][p.g] = p.sid] \in [Users -> [Ids -> Users]]
      BY <1>3, <3>1
    <3>3. /\ teams' = [teams EXCEPT ![s] = @ \cup {p.g}]
          /\ shown' = shown \/ shown' = [shown EXCEPT ![s] = @ \cup {p.g}]
          /\ serverID' = serverID \/ serverID' = [serverID EXCEPT ![s][p.g] = p.sid]
      BY <2>1 DEF GotReady, p
    <3>4. serverID' \in [Users -> [Ids -> Users]]
      BY <3>2, <3>3
    <3>5. teams' \in [Users -> SUBSET Byte]
      BY <1>3, <3>1, <3>3
    <3>6. shown' \in [Users -> SUBSET Byte]
      <4>1. [shown EXCEPT ![s] = @ \cup {p.g}] \in [Users -> SUBSET Byte]
        BY <1>3, <3>1
      <4> QED
        BY <3>3, <4>1
    <3> QED
      BY <3>4, <3>5, <3>6
  <2>2. CASE ~GotReady(s)
    <3>1. UNCHANGED <<serverID, teams>> /\ (shown' = shown \/ shown' = [shown EXCEPT ![s] = {}])
      BY <2>2 DEF Receive, GotID, GotJoined, GotFail, GotEnter, GotAllReady, GotPut,
                  GotResult, clientState, ShownAfterEnter
    <3> QED
      BY <3>1
  <2> QED
    BY <2>1, <2>2
<1> QED
  BY <1>4, <1>5, <1>6, <1>7, <1>8 DEF SessionTypeOK

-----------------------------------------------------------------------------
(* A client clicks or draws a frame.                                       *)

LEMMA NothingYet ==
    ASSUME NEW S, NEW q \in Seq(S)
    PROVE  <<>> \o q = q
  BY ConcatEmptySeq

LEMMA TwoSent ==
    ASSUME NEW S, NEW x \in S, NEW y \in S
    PROVE  <<x>> \o <<y>> = <<x, y>>
<1> DEFINE o == <<x>>
           q == <<y>>
           c == o \o q
           z == <<x, y>>
<1>1. /\ o \in Seq(S) /\ Len(o) = 1 /\ DOMAIN o = {1} /\ o[1] = x
      /\ q \in Seq(S) /\ Len(q) = 1 /\ DOMAIN q = {1} /\ q[1] = y
      /\ z \in Seq(S) /\ Len(z) = 2 /\ z[1] = x /\ z[2] = y
  BY OnePacket, TwoPackets
<1> HIDE DEF o, q, z
<1>2. /\ c \in Seq(S) /\ Len(c) = 2 /\ c[1] = x /\ c[2] = y
  BY <1>1, MoreSent
<1> HIDE DEF c
<1>3. \A i \in 1 .. Len(c) : c[i] = z[i]
  BY <1>1, <1>2
<1>4. c = z
  BY <1>1, <1>2, <1>3, SeqEqual
<1> QED
  BY <1>4 DEF c, o, q, z

LEMMA LobbyRequestTyped ==
    \A ps \in LobbyRequest : ps \in Seq(ToServer) /\ ps # <<>>
<1> SUFFICES ASSUME NEW ps \in LobbyRequest PROVE ps \in Seq(ToServer) /\ ps # <<>>
  OBVIOUS
<1>1. PICK p : p \in ToServer /\ ps = <<p>>
  <2>1. [t |-> "QUICK"] \in ToServer
    BY DEF ToServer
  <2>2. \A r \in RoomIds : [t |-> "JOIN", r |-> r] \in ToServer
    BY DEF ToServer
  <2> QED
    BY <2>1, <2>2 DEF LobbyRequest
<1> QED
  BY <1>1

\* A packet before others
LEMMA FirstOf ==
    ASSUME NEW S, NEW x \in S, NEW q \in Seq(S)
    PROVE  /\ <<x>> \o q \in Seq(S) /\ <<x>> \o q # <<>>
           /\ Head(<<x>> \o q) = x /\ Tail(<<x>> \o q) = q
<1> DEFINE o == <<x>>
           c == o \o q
<1>1. o \in Seq(S) /\ Len(o) = 1 /\ o[1] = x /\ DOMAIN o = {1}
  OBVIOUS
<1> HIDE DEF o
<1>2. /\ c \in Seq(S) /\ Len(c) = 1 + Len(q) /\ Len(q) \in Nat
      /\ c[1] = x /\ \A i \in DOMAIN q : c[1 + i] = q[i]
  BY <1>1, MoreSent
<1> HIDE DEF c
<1>3. c # <<>>
  BY <1>2, EmptySeq
<1>4. /\ Head(c) = x /\ Tail(c) \in Seq(S) /\ Len(Tail(c)) = Len(q)
      /\ \A i \in DOMAIN Tail(c) : Tail(c)[i] = c[i + 1]
  BY <1>2, <1>3, OneRead
<1>5. DOMAIN Tail(c) = 1 .. Len(q) /\ DOMAIN q = 1 .. Len(q)
  BY <1>4, LenProperties
<1>6. \A i \in 1 .. Len(q) : Tail(c)[i] = q[i]
  <2> TAKE i \in 1 .. Len(q)
  <2>1. i + 1 = 1 + i
    BY <1>2
  <2> QED
    BY <1>2, <1>4, <1>5, <2>1
<1>7. Tail(c) = q
  BY <1>4, <1>6, SeqEqual
<1> QED
  BY <1>2, <1>3, <1>4, <1>7 DEF c, o

LEMMA ConfirmFirst ==
    ASSUME NEW r \in RoomIds, NEW ps \in LobbyRequest \cup {<<>>}
    PROVE  /\ ps \in Seq(ToServer)
           /\ <<ConfirmClick(r)>> \o ps \in Seq(ToServer)
           /\ <<ConfirmClick(r)>> \o ps # <<>>
           /\ Head(<<ConfirmClick(r)>> \o ps) = ConfirmClick(r)
           /\ Tail(<<ConfirmClick(r)>> \o ps) = ps
<1>1. ConfirmClick(r) \in ToServer
  BY DEF ConfirmClick, ToServer
<1>2. ps \in Seq(ToServer)
  BY LobbyRequestTyped, EmptySeq
<1> QED
  BY <1>1, <1>2, FirstOf

\* What s itself sends, and what it changes with that
Acts(s, ps) ==
    /\ ps \in Seq(ToServer)
    /\ c2s' = [c2s EXCEPT ![s] = @ \o ps]
    /\ UNCHANGED <<vars, s2c, over>>
    /\ \A d \in Users : d # s => SameClient(d)

\* Enough to look at s.
LEMMA ActsKnows ==
    ASSUME SessionTypeOK, NEW s \in Users, NEW ps, Acts(s, ps),
           \A d \in Users : Knows(d), Knows(s)'
    PROVE  \A d \in Users : Knows(d)'
<1> SUFFICES ASSUME NEW d \in Users, d # s PROVE Knows(d)'
  OBVIOUS
<1>1. SameClient(d) /\ SameSlot(d) /\ \A r \in RoomIds : SameRoom(d, r) \/ d \notin members[r]
  BY DEF Acts, SameSlot, SameRoom, vars, roomVars
<1> QED
  BY <1>1, KnowsSame

\* Where a player is, by what it shows and what is on the way.
LEMMA SettledStation ==
    ASSUME NEW s \in Users, Knows(s), Settled(s)
    PROVE  /\ scene[s] = "LOBBY" => connect[s] /\ lobby[s]
           /\ scene[s] = "ROOM" =>
                connect[s] /\ ~lobby[s]
                /\ \E r \in RoomIds : s \in members[r] /\ Waiting(s, r) /\ InRoom(s, r)
           /\ scene[s] = "ENDING" =>
                connect[s] /\ ~lobby[s]
                /\ \E r \in RoomIds : s \in members[r] /\ InMatch(s, r)
<1>1. s2c[s] = <<>> /\ c2s[s] = <<>>
  BY DEF Settled
<1>2. \A t : ~Hears(s, t)
  BY <1>1 DEF Hears
<1>3. \A r : ~Joining(s, r) /\ ~Starting(s, r)
  BY <1>1, <1>2 DEF Joining, Starting
<1>4. CASE ~connect[s]
  BY <1>4 DEF Knows
<1>5. CASE connect[s] /\ lobby[s] /\ InLobby(s)
  BY <1>1, <1>5 DEF InLobby
<1>6. CASE connect[s] /\ ~lobby[s] /\ \E r \in RoomIds : s \in members[r] /\ Stations(s, r)
  <2>1. PICK r \in RoomIds : s \in members[r] /\ Stations(s, r)
    BY <1>6
  <2>2. CASE Waiting(s, r)
    BY <1>3, <1>6, <2>1, <2>2 DEF Waiting, Enters, InRoom
  <2>3. CASE Loading(s, r) \/ Loads(s, r)
    BY <2>3 DEF Loading, Loads
  <2>4. CASE InMatch(s, r)
    <3>1. \A ps \in LobbyRequest \cup {<<>>} : <<ConfirmClick(r)>> \o ps # <<>>
      BY ConfirmFirst
    <3>2. scene[s] # "LOBBY" /\ scene[s] # "ROOM"
      BY <1>1, <2>4, <3>1 DEF InMatch, Plays, AtTable
    <3> QED
      BY <1>6, <2>1, <2>4, <3>2
  <2> QED
    BY <1>3, <2>1, <2>2, <2>3, <2>4 DEF Stations
<1> QED
  BY <1>4, <1>5, <1>6 DEF Knows

\* A press of the ready button cannot come from a room whose game has begun,
\* and nothing else matters to the presses on their way.
LEMMA ActsStart ==
    ASSUME SessionTypeOK, NoSecondStart, TypeOK, NEW s \in Users, NEW ps, Acts(s, ps),
           \/ \A i \in DOMAIN ps : ps[i].t # "READY"
           \/ \A r \in RoomIds : s \in members[r] => status[r] # "INGAME"
    PROVE  NoSecondStart'
<1>1. UNCHANGED <<members, status, accepted, readycount>>
  BY DEF Acts, vars, roomVars
<1> SUFFICES ASSUME NEW r \in RoomIds, status[r] = "INGAME",
                    ~(members[r] \subseteq accepted[r])
             PROVE  readycount'[r] + Cardinality(Pressing(r)') < Size(r)'
  BY <1>1 DEF NoSecondStart
<1>2. \A d \in members[r] : d \in Users
  BY DEF TypeOK
<1>3. \A d \in members[r] : d # s => (PressOnWay(d)' <=> PressOnWay(d))
  BY <1>2 DEF Acts, SameClient, PressOnWay
<1>4. s \in members[r] => (PressOnWay(s)' <=> PressOnWay(s))
  <2> SUFFICES ASSUME \A i \in DOMAIN ps : ps[i].t # "READY"
               PROVE  PressOnWay(s)' <=> PressOnWay(s)
    OBVIOUS
  <2> DEFINE q == c2s[s]
             c == q \o ps
  <2>1. q \in Seq(ToServer) /\ ps \in Seq(ToServer) /\ c2s'[s] = c
    BY DEF Acts, SessionTypeOK
  <2> HIDE DEF q
  <2>2. /\ \A i \in DOMAIN q : i \in DOMAIN c /\ c[i] = q[i]
        /\ \A i \in DOMAIN ps : c[Len(q) + i] = ps[i]
        /\ \A k \in DOMAIN c : k \in DOMAIN q \/ \E i \in DOMAIN ps : k = Len(q) + i
    BY <2>1, MoreSent
  <2> HIDE DEF c
  <2> QED
    BY <2>1, <2>2 DEF PressOnWay, q
<1>5. Pressing(r)' = Pressing(r)
  BY <1>1, <1>3, <1>4 DEF Pressing
<1> QED
  BY <1>1, <1>5 DEF NoSecondStart, Size

LEMMA ClickMakeStep ==
    ASSUME SessionInv, NEW s \in Users, ClickMake(s)
    PROVE  SessionTypeOK' /\ (\A d \in Users : Knows(d)') /\ NoSecondStart' /\ UNCHANGED vars
<1> DEFINE p == [t |-> "MAKE"]
<1>1. p \in ToServer /\ <<p>> \in Seq(ToServer) /\ DOMAIN <<p>> = {1} /\ <<p>>[1] = p
  BY DEF ToServer
<1>2. Acts(s, <<p>>)
  BY <1>1 DEF SessionInv, SessionTypeOK, Acts, ClickMake, Sends, SameClient
<1>3. Settled(s) /\ Knows(s) /\ SessionTypeOK
  BY DEF SessionInv, ClickMake, MayClick
<1>4. connect[s] /\ lobby[s] /\ c2s[s] = <<>> /\ s2c[s] = <<>> /\ InLobby(s)
  BY <1>3, SettledStation DEF ClickMake, Settled, Knows
<1>5. c2s'[s] = <<p>>
  BY <1>1, <1>2, <1>3, <1>4, NothingYet DEF Acts, SessionTypeOK
<1>6. scene'[s] = "ROOM" /\ building'[s] = building[s] /\ result'[s] = result[s]
      /\ s2c'[s] = <<>> /\ connect'[s] /\ lobby'[s]
  BY <1>2, <1>3, <1>4 DEF Acts, ClickMake, SessionTypeOK, vars
<1>7. Knows(s)'
  BY <1>4, <1>5, <1>6 DEF Knows, InLobby
<1>8. \A d \in Users : Knows(d)'
  BY <1>2, <1>7, ActsKnows DEF SessionInv
<1>9. SessionTypeOK'
  <2>1. c2s' \in [Users -> Seq(ToServer)]
    BY <1>1, <1>2, <1>3, <1>5 DEF Acts, SessionTypeOK
  <2> QED
    BY <1>2, <1>3, <2>1 DEF Acts, ClickMake, SessionTypeOK, Scenes
<1>10. NoSecondStart'
  <2>1. <<p>>[1].t # "READY"
    BY <1>1
  <2> QED
    BY <1>1, <1>2, <2>1, ActsStart DEF SessionInv, Base
<1> QED
  BY <1>2, <1>8, <1>9, <1>10 DEF Acts

LEMMA ClickJoinStep ==
    ASSUME SessionInv, NEW s \in Users, ClickJoin(s)
    PROVE  SessionTypeOK' /\ (\A d \in Users : Knows(d)') /\ NoSecondStart' /\ UNCHANGED vars
<1>1. PICK ps \in LobbyRequest : Sends(s, ps)
  BY DEF ClickJoin
<1>2. ps \in Seq(ToServer)
  BY LobbyRequestTyped
<1>3. Acts(s, ps)
  BY <1>1, <1>2 DEF SessionInv, SessionTypeOK, Acts, ClickJoin, Sends, SameClient, clientState
<1>4. Settled(s) /\ Knows(s) /\ SessionTypeOK
  BY DEF SessionInv, ClickJoin, MayClick
<1>5. connect[s] /\ lobby[s] /\ c2s[s] = <<>> /\ s2c[s] = <<>> /\ InLobby(s)
  BY <1>4, SettledStation DEF ClickJoin, Settled, Knows
<1>6. c2s'[s] = ps
  BY <1>2, <1>3, <1>4, <1>5, NothingYet DEF Acts, SessionTypeOK
<1>7. scene'[s] = "LOBBY" /\ building'[s] = building[s] /\ result'[s] = result[s]
      /\ s2c'[s] = <<>> /\ connect'[s] /\ lobby'[s]
  BY <1>3, <1>4, <1>5 DEF Acts, ClickJoin, SessionTypeOK, vars, clientState
<1>8. Knows(s)'
  BY <1>5, <1>6, <1>7 DEF Knows, InLobby, LobbyRequest
<1>9. \A d \in Users : Knows(d)'
  BY <1>3, <1>8, ActsKnows DEF SessionInv
<1>10. SessionTypeOK'
  BY <1>2, <1>3, <1>4, <1>6 DEF Acts, ClickJoin, SessionTypeOK, clientState
<1>11. NoSecondStart'
  <2>1. \A i \in DOMAIN ps : ps[i].t # "READY"
    BY DEF LobbyRequest
  <2> QED
    BY <1>3, <2>1, ActsStart DEF SessionInv, Base
<1> QED
  BY <1>3, <1>9, <1>10, <1>11 DEF Acts

LEMMA ClickReadyStep ==
    ASSUME SessionInv, NEW s \in Users, ClickReady(s)
    PROVE  SessionTypeOK' /\ (\A d \in Users : Knows(d)') /\ NoSecondStart' /\ UNCHANGED vars
<1> DEFINE p == ReadyPress(myRoom[s])
<1>1. Settled(s) /\ Knows(s) /\ SessionTypeOK
  BY DEF SessionInv, ClickReady, MayClick
<1>2. PICK r \in RoomIds : s \in members[r] /\ Waiting(s, r) /\ InRoom(s, r)
  BY <1>1, SettledStation DEF ClickReady
<1>3. connect[s] /\ ~lobby[s] /\ myRoom[s] = r /\ c2s[s] = <<>> /\ s2c[s] = <<>>
  BY <1>1, <1>2, SettledStation DEF ClickReady, InRoom, Copied, Settled
<1>4. p = ReadyPress(r) /\ p \in ToServer
  BY <1>3 DEF ReadyPress, ToServer
<1>5. <<p>> \in Seq(ToServer)
  BY <1>4
<1>6. Acts(s, <<p>>)
  BY <1>1, <1>5 DEF SessionTypeOK, Acts, ClickReady, Sends, SameClient, ReadyPress
<1>7. c2s'[s] = <<ReadyPress(r)>>
  BY <1>1, <1>3, <1>4, <1>5, <1>6, NothingYet DEF Acts, SessionTypeOK
<1>8. /\ scene'[s] = scene[s] /\ building'[s] = building[s] /\ result'[s] = result[s]
      /\ myRoom'[s] = myRoom[s] /\ myGame'[s] = myGame[s]
      /\ UNCHANGED <<connect, lobby, gameID, status, members, s2c>>
  BY <1>6 DEF Acts, ClickReady, vars, roomVars
<1>9. Knows(s)'
  <2>1. InRoom(s, r)' /\ Tidings(s, {"JOINED", "ENTER", "READY"})'
    BY <1>2, <1>7, <1>8 DEF InRoom, Waiting, Tidings, Hears, Copied, ReadyPress
  <2>2. Waiting(s, r)'
    BY <1>2, <1>8, <2>1 DEF Waiting, Enters
  <2> QED
    BY <1>2, <1>3, <1>8, <2>2 DEF Knows, Stations
<1>10. \A d \in Users : Knows(d)'
  BY <1>6, <1>9, ActsKnows DEF SessionInv
<1>11. SessionTypeOK'
  <2>1. c2s' \in [Users -> Seq(ToServer)]
    BY <1>1, <1>4, <1>5, <1>6, <1>7 DEF Acts, SessionTypeOK
  <2>2. myGame[s] \in Byte
    BY RoomsAssumption DEF ClickReady, Ids, Byte
  <2> QED
    BY <1>1, <1>6, <2>1, <2>2 DEF Acts, ClickReady, SessionTypeOK
<1>12. NoSecondStart'
  <2>1. \A q \in RoomIds : s \in members[q] => status[q] # "INGAME"
    BY <1>2 DEF SessionInv, Orderly, OneRoom, Waiting
  <2> QED
    BY <1>6, <2>1, ActsStart DEF SessionInv, Base
<1> QED
  BY <1>6, <1>10, <1>11, <1>12 DEF Acts

LEMMA BuildStep ==
    ASSUME SessionInv, NEW s \in Users, Build(s)
    PROVE  SessionTypeOK' /\ (\A d \in Users : Knows(d)') /\ NoSecondStart' /\ UNCHANGED vars
<1> DEFINE p == LoadedReport(myRoom[s])
<1>1. Knows(s) /\ SessionTypeOK
  BY DEF SessionInv
<1>2. PICK r \in RoomIds : connect[s] /\ ~lobby[s] /\ s \in members[r] /\ Loading(s, r)
  BY <1>1 DEF Build, Knows, InLobby, Stations, Waiting, Starting, Enters, Loads, InMatch
<1>3. myRoom[s] = r /\ c2s[s] \in {<<>>, <<ReadyPress(r)>>}
  BY <1>2 DEF Build, Loading, Copied
<1>4. p = LoadedReport(r) /\ p \in ToServer /\ p.t = "LOADED" /\ ReadyPress(r) \in ToServer
  BY <1>3 DEF LoadedReport, ReadyPress, ToServer
<1>5. <<p>> \in Seq(ToServer) /\ DOMAIN <<p>> = {1} /\ <<p>>[1] = p
  BY <1>4
<1>6. Acts(s, <<p>>)
  BY <1>1, <1>5 DEF SessionTypeOK, Acts, Build, Sends, SameClient, LoadedReport
<1>7. c2s'[s] \in {<<LoadedReport(r)>>, <<ReadyPress(r), LoadedReport(r)>>}
  <2>1. c2s'[s] = c2s[s] \o <<p>>
    BY <1>1, <1>6 DEF Acts, SessionTypeOK
  <2>2. <<>> \o <<p>> = <<p>>
    BY <1>5, NothingYet
  <2>3. <<ReadyPress(r)>> \o <<p>> = <<ReadyPress(r), p>>
    BY <1>4, TwoSent
  <2> QED
    BY <1>3, <1>4, <2>1, <2>2, <2>3
<1>8. /\ scene'[s] = scene[s] /\ ~building'[s] /\ result'[s] = result[s]
      /\ myRoom'[s] = myRoom[s] /\ myGame'[s] = myGame[s]
      /\ UNCHANGED <<connect, lobby, gameID, status, members, accepted, s2c>>
  BY <1>1, <1>6 DEF Acts, Build, vars, roomVars, SessionTypeOK, AfterBuild
<1>9. Knows(s)'
  <2>1. Loading(s, r)'
    BY <1>2, <1>7, <1>8 DEF Loading, Tidings, Copied, LoadedReport, ReadyPress
  <2> QED
    BY <1>2, <1>8, <2>1 DEF Knows, Stations
<1>10. \A d \in Users : Knows(d)'
  BY <1>6, <1>9, ActsKnows DEF SessionInv
<1>11. SessionTypeOK'
  <2>1. c2s' \in [Users -> Seq(ToServer)]
    <3>1. c2s[s] \o <<p>> \in Seq(ToServer)
      BY <1>1, <1>5, ConcatProperties DEF SessionTypeOK
    <3> QED
      BY <1>1, <1>6, <3>1 DEF Acts, SessionTypeOK
  <2>2. building' \in [Users -> BOOLEAN]
    BY <1>1 DEF Build, SessionTypeOK, AfterBuild
  <2> QED
    BY <1>1, <1>6, <2>1, <2>2 DEF Acts, Build, SessionTypeOK
<1>12. NoSecondStart'
  BY <1>4, <1>5, <1>6, ActsStart DEF SessionInv, Base
<1> QED
  BY <1>6, <1>10, <1>11, <1>12 DEF Acts

LEMMA ShowEndingStep ==
    ASSUME SessionInv, NEW s \in Users, ShowEnding(s)
    PROVE  SessionTypeOK' /\ (\A d \in Users : Knows(d)') /\ NoSecondStart' /\ UNCHANGED vars
<1>1. Knows(s) /\ SessionTypeOK
  BY DEF SessionInv
<1>2. PICK r \in RoomIds : connect[s] /\ ~lobby[s] /\ s \in members[r] /\ InMatch(s, r)
  BY <1>1 DEF ShowEnding, Knows, InLobby, Stations, Waiting, Starting, Enters, Loading, Loads
<1>3. Plays(s, r) /\ s2c[s] = <<>> /\ c2s[s] = <<>> /\ r \in over
  BY <1>2 DEF ShowEnding, InMatch, Plays, AtTable
<1>5. Acts(s, <<>>)
  <2>1. c2s' = [c2s EXCEPT ![s] = @ \o <<>>]
    <3>1. c2s[s] \o <<>> = c2s[s]
      BY <1>1, ConcatEmptySeq DEF SessionTypeOK
    <3> QED
      BY <1>1, <3>1 DEF ShowEnding, SessionTypeOK
  <2>2. <<>> \in Seq(ToServer)
    BY EmptySeq
  <2> QED
    BY <1>1, <2>1, <2>2 DEF Acts, ShowEnding, SameClient, SessionTypeOK
<1>6. /\ scene'[s] = "ENDING" /\ building'[s] = building[s] /\ ~result'[s]
      /\ myRoom'[s] = myRoom[s] /\ myGame'[s] = myGame[s]
      /\ UNCHANGED <<connect, lobby, gameID, status, members, accepted, s2c, c2s, over>>
  BY <1>1, <1>5 DEF Acts, ShowEnding, vars, roomVars, SessionTypeOK
<1>7. Knows(s)'
  <2>1. AtTable(s, r)'
    BY <1>3, <1>6 DEF AtTable
  <2>2. InMatch(s, r)'
    BY <1>2, <1>6, <2>1 DEF InMatch, Tidings, Hears, Copied
  <2> QED
    BY <1>2, <1>6, <2>2 DEF Knows, Stations
<1>8. \A d \in Users : Knows(d)'
  BY <1>5, <1>7, ActsKnows DEF SessionInv
<1>9. SessionTypeOK'
  BY <1>1 DEF ShowEnding, SessionTypeOK, Scenes
<1>10. NoSecondStart'
  <2>1. DOMAIN <<>> = {}
    OBVIOUS
  <2> QED
    BY <1>5, <2>1, ActsStart DEF SessionInv, Base
<1> QED
  BY <1>5, <1>8, <1>9, <1>10 DEF Acts

LEMMA ClickConfirmStep ==
    ASSUME SessionInv, NEW s \in Users, ClickConfirm(s)
    PROVE  SessionTypeOK' /\ (\A d \in Users : Knows(d)') /\ NoSecondStart' /\ UNCHANGED vars
<1>1. Settled(s) /\ Knows(s) /\ SessionTypeOK
  BY DEF SessionInv, ClickConfirm, MayClick
<1>2. PICK r \in RoomIds : s \in members[r] /\ InMatch(s, r)
  BY <1>1, SettledStation DEF ClickConfirm
<1>3. /\ connect[s] /\ ~lobby[s] /\ AtTable(s, r) /\ myRoom[s] = r /\ c2s[s] = <<>>
  BY <1>1, <1>2, SettledStation DEF ClickConfirm, InMatch, Plays, Copied, Settled
<1>4. PICK ps \in LobbyRequest \cup {<<>>} : Sends(s, <<ConfirmClick(r)>> \o ps)
  BY <1>3 DEF ClickConfirm, ConfirmClick
<1> DEFINE q == <<ConfirmClick(r)>> \o ps
<1>5. q \in Seq(ToServer) /\ Sends(s, q)
  BY <1>4, ConfirmFirst
<1>6. q \in {<<ConfirmClick(r)>> \o x : x \in LobbyRequest \cup {<<>>}}
  OBVIOUS
<1>7. \A i \in DOMAIN q : q[i].t # "READY"
  <2>1. /\ <<ConfirmClick(r)>> \in Seq(ToServer) /\ DOMAIN <<ConfirmClick(r)>> = {1}
        /\ Len(<<ConfirmClick(r)>>) = 1
        /\ <<ConfirmClick(r)>>[1].t = "CONFIRM"
    BY DEF ConfirmClick, ToServer
  <2>2. \A i \in DOMAIN ps : ps[i].t # "READY"
    BY DEF LobbyRequest
  <2>3. ps \in Seq(ToServer)
    BY ConfirmFirst
  <2> DEFINE o == <<ConfirmClick(r)>>
  <2> HIDE DEF o
  <2>4. \A k \in DOMAIN (o \o ps) :
           \/ k \in DOMAIN o /\ (o \o ps)[k] = o[k]
           \/ \E i \in DOMAIN ps : (o \o ps)[k] = ps[i]
    <3>1. o \in Seq(ToServer)
      BY <2>1 DEF o
    <3> QED
      BY <2>3, <3>1, MoreSent
  <2>5. DOMAIN o = {1} /\ o[1].t = "CONFIRM"
    BY <2>1 DEF o
  <2>6. \A k \in DOMAIN (o \o ps) : (o \o ps)[k].t # "READY"
    BY <2>2, <2>4, <2>5
  <2> QED
    BY <2>6 DEF o
<1> HIDE DEF q
<1>8. Acts(s, q)
  BY <1>1, <1>5 DEF SessionTypeOK, Acts, ClickConfirm, Sends, SameClient
<1>9. c2s'[s] = q
  BY <1>1, <1>3, <1>5, <1>8, NothingYet DEF Acts, SessionTypeOK
<1>10. /\ scene'[s] = "LOBBY" /\ building'[s] = building[s] /\ result'[s] = result[s]
       /\ myRoom'[s] = myRoom[s] /\ myGame'[s] = myGame[s]
       /\ UNCHANGED <<connect, lobby, gameID, status, members, accepted, s2c, over>>
  BY <1>1, <1>8 DEF Acts, ClickConfirm, vars, roomVars, SessionTypeOK
<1>11. Knows(s)'
  <2>1. AtTable(s, r)'
    BY <1>3, <1>6, <1>9, <1>10 DEF AtTable, ConfirmClick, LobbyRequest
  <2>2. InMatch(s, r)'
    BY <1>2, <1>10, <2>1 DEF InMatch, Tidings, Hears, Copied
  <2> QED
    BY <1>2, <1>3, <1>10, <2>2 DEF Knows, Stations
<1>12. \A d \in Users : Knows(d)'
  BY <1>8, <1>11, ActsKnows DEF SessionInv
<1>13. SessionTypeOK'
  <2>1. c2s' \in [Users -> Seq(ToServer)]
    BY <1>1, <1>5, <1>8, <1>9 DEF Acts, SessionTypeOK
  <2>2. [i \in Ids |-> 0] \in [Ids -> Users]
    BY RoomsAssumption DEF Users
  <2>3. serverID' \in [Users -> [Ids -> Users]]
    BY <1>1, <2>2 DEF ClickConfirm, SessionTypeOK
  <2>4. scene' \in [Users -> Scenes] /\ teams' \in [Users -> SUBSET Byte]
    BY <1>1 DEF ClickConfirm, SessionTypeOK, Scenes
  <2>5. /\ s2c' \in [Users -> Seq(ToClient)] /\ over' \in SUBSET RoomIds
        /\ building' \in [Users -> BOOLEAN] /\ result' \in [Users -> BOOLEAN]
        /\ myRoom' \in [Users -> RoomIds \cup {-1}]
        /\ myGame' \in [Users -> Byte \cup {-1}]
        /\ shown' \in [Users -> SUBSET Byte]
    BY <1>1, <1>8 DEF Acts, ClickConfirm, SessionTypeOK
  <2> QED
    BY <2>1, <2>3, <2>4, <2>5 DEF SessionTypeOK
<1>14. NoSecondStart'
  BY <1>7, <1>8, ActsStart DEF SessionInv, Base
<1> QED
  BY <1>8, <1>12, <1>13, <1>14 DEF Acts

-----------------------------------------------------------------------------
(* The server.                                                             *)

\* A member of a room is at one of the stations there.
LEMMA MemberStation ==
    ASSUME SessionInv, NEW r \in RoomIds, NEW d \in members[r]
    PROVE  d \in Users /\ connect[d] /\ ~lobby[d] /\ Stations(d, r)
<1>1. d \in Users /\ connect[d] /\ ~lobby[d] /\ \A q \in RoomIds : d \in members[q] => q = r
  BY DEF SessionInv, Base, TypeOK, Orderly, NobodyGone, OneRoom
<1> QED
  BY <1>1 DEF SessionInv, Knows

LEMMA EndMatchStep ==
    ASSUME SessionInv, NEW r \in RoomIds, EndMatch(r)
    PROVE  SessionTypeOK' /\ (\A d \in Users : Knows(d)') /\ NoSecondStart' /\ UNCHANGED vars
<1>1. SessionTypeOK /\ ResultPacket \in ToClient /\ <<ResultPacket>> \in Seq(ToClient)
  BY DEF SessionInv, ResultPacket, ToClient
<1>2. /\ over' = over \cup {r} /\ r \notin over /\ UNCHANGED <<vars, c2s, clientState>>
      /\ UNCHANGED <<connect, lobby, gameID, status, members, accepted, readycount>>
  BY DEF EndMatch, vars, roomVars
<1>3. s2c' = [d \in Users |-> IF d \in members[r] THEN s2c[d] \o <<ResultPacket>> ELSE s2c[d]]
  BY DEF EndMatch, SendTo
<1>4. members[r] \subseteq accepted[r]
  <2>1. PICK s \in members[r] : scene[s] = "GAME"
    BY DEF EndMatch
  <2> QED
    BY <2>1, MemberStation DEF Stations, Waiting, Starting, Enters, Joining, InRoom,
                               Loading, Loads, InMatch
<1>5. ASSUME NEW d \in members[r] PROVE Knows(d)'
  <2>1. d \in Users /\ connect[d] /\ ~lobby[d] /\ Stations(d, r) /\ status[r] = "INGAME"
    BY MemberStation DEF EndMatch
  <2>2. InMatch(d, r)
    <3>1. d \in accepted[r]
      BY <1>4
    <3> QED
      BY <1>4, <2>1, <3>1 DEF Stations, Waiting, Starting, Loading, Loads
  <2>3. Told(d, <<ResultPacket>>) /\ c2s'[d] = c2s[d]
    BY <1>1, <1>2, <1>3, <2>1 DEF Told, SessionTypeOK, clientState
  <2>4. InMatch(d, r)'
    BY <1>2, <2>1, <2>2, <2>3, ToldResult
  <2> QED
    BY <1>2, <2>1, <2>4 DEF Knows, Stations
<1>6. ASSUME NEW d \in Users, d \notin members[r] PROVE Knows(d)'
  <2>1. SameClient(d) /\ SameSlot(d)
    BY <1>2, <1>3, <1>6 DEF SameClient, SameSlot, clientState
  <2>2. \A q \in RoomIds : d \in members[q] => SameRoom(d, q)
    BY <1>2 DEF SameRoom
  <2> QED
    BY <2>1, <2>2, KnowsSame DEF SessionInv
<1>7. SessionTypeOK'
  <2>1. s2c' \in [Users -> Seq(ToClient)]
    BY <1>1, <1>3, ConcatProperties DEF SessionTypeOK
  <2> QED
    BY <1>1, <1>2, <2>1 DEF SessionTypeOK, clientState
<1>8. NoSecondStart'
  BY <1>2 DEF SessionInv, NoSecondStart, Pressing, PressOnWay, Size
<1> QED
  BY <1>2, <1>5, <1>6, <1>7, <1>8

LEMMA ConnectStep ==
    ASSUME SessionInv, NEW s \in Users, Connect(s)
    PROVE  SessionTypeOK' /\ (\A d \in Users : Knows(d)') /\ NoSecondStart' /\ Accept(s)
<1>1. SessionTypeOK /\ TypeOK /\ IDPacket \in ToClient /\ <<IDPacket>> \in Seq(ToClient)
  BY DEF SessionInv, Base, IDPacket, ToClient
<1>2. /\ UNCHANGED <<gameID, status, members, accepted, readycount, c2s, over, clientState>>
      /\ ~connect[s] /\ connect'[s] /\ lobby'[s]
      /\ \A d \in Users : d # s => connect'[d] = connect[d] /\ lobby'[d] = lobby[d]
  BY <1>1 DEF Connect, Accept, roomVars, TypeOK
<1>3. s2c' = [d \in Users |-> IF d = s THEN s2c[d] \o <<IDPacket>> ELSE s2c[d]]
  BY DEF Connect, SendTo, Answer
<1>4. Knows(s)'
  <2>1. /\ scene[s] = "MAINMENU" /\ ~building[s] /\ ~result[s]
        /\ s2c[s] = <<>> /\ c2s[s] = <<>>
    BY <1>2 DEF SessionInv, Knows
  <2>2. s2c'[s] = <<IDPacket>>
    BY <1>1, <1>3, <2>1, NothingYet
  <2>3. InLobby(s)'
    BY <1>2, <2>1, <2>2 DEF InLobby, clientState, IDPacket
  <2> QED
    BY <1>2, <2>3 DEF Knows
<1>5. ASSUME NEW d \in Users, d # s PROVE Knows(d)'
  <2>1. SameClient(d) /\ SameSlot(d)
    BY <1>2, <1>3, <1>5 DEF SameClient, SameSlot, clientState
  <2>2. \A q \in RoomIds : d \in members[q] => SameRoom(d, q)
    BY <1>2 DEF SameRoom
  <2> QED
    BY <2>1, <2>2, KnowsSame DEF SessionInv
<1>6. SessionTypeOK'
  <2>1. s2c' \in [Users -> Seq(ToClient)]
    BY <1>1, <1>3, ConcatProperties DEF SessionTypeOK
  <2> QED
    BY <1>1, <1>2, <2>1 DEF SessionTypeOK, clientState
<1>7. NoSecondStart'
  BY <1>2 DEF SessionInv, NoSecondStart, Pressing, PressOnWay, Size
<1> QED
  BY <1>4, <1>5, <1>6, <1>7 DEF Connect

\* There is always a room for one who asks for it: a room with somebody in it
\* takes one of the other slots, and there are no more slots than rooms.
LEMMA RoomLeft ==
    ASSUME TypeOK, OneRoom, NEW s \in Users, lobby[s]
    PROVE  EmptyRooms # {}
<1> SUFFICES ASSUME \A r \in RoomIds : members[r] # {} PROVE FALSE
  BY DEF EmptyRooms
<1> DEFINE T == Users \ {s}
           f == [r \in RoomIds |-> CHOOSE d \in members[r] : TRUE]
<1>1. \A r \in RoomIds : f[r] \in members[r] /\ f[r] \in T
  BY DEF TypeOK, OneRoom
<1>2. \A r, q \in RoomIds : f[r] = f[q] => r = q
  <2> HIDE DEF f
  <2> QED
    BY <1>1 DEF OneRoom, TypeOK
<1>3. f \in Injection(RoomIds, T)
  <2>1. f \in [RoomIds -> T]
    BY <1>1
  <2> HIDE DEF f, T
  <2> QED
    BY <1>2, <2>1, SMT DEF Injection, IsInjective
<1>4. IsFiniteSet(Users) /\ Cardinality(Users) = MaxUser
  BY RoomsAssumption, FS_Interval DEF Users
<1>5. IsFiniteSet(RoomIds) /\ Cardinality(RoomIds) = MaxRoom
  BY RoomsAssumption, FS_Interval DEF RoomIds
<1>6. IsFiniteSet(T) /\ Cardinality(T) = MaxUser - 1
  BY <1>4, FS_RemoveElement
<1>7. Cardinality(RoomIds) <= Cardinality(T)
  BY <1>3, <1>6, FS_Injection
<1> QED
  BY <1>5, <1>6, <1>7, RoomsAssumption, SessionAssumption

\* What the next packet of a client says about its sender
LEMMA NextFromLobby ==
    ASSUME SessionInv, NEW s \in Users, c2s[s] # <<>>,
           Head(c2s[s]).t \in {"MAKE", "JOIN", "QUICK"}
    PROVE  /\ connect[s] /\ lobby[s] /\ ~building[s] /\ ~result[s]
           /\ s2c[s] = <<>> /\ Tail(c2s[s]) = <<>>
           /\ scene[s] = IF Head(c2s[s]).t = "MAKE" THEN "ROOM" ELSE "LOBBY"
<1>1. \A x : Head(<<x>>) = x /\ Tail(<<x>>) = <<>>
  OBVIOUS
<1>2. \A x, y : Head(<<x, y>>) = x
  OBVIOUS
<1>3. \A r \in RoomIds : /\ ReadyPress(r).t = "READY" /\ LoadedReport(r).t = "LOADED"
                         /\ ConfirmClick(r).t = "CONFIRM"
  BY DEF ReadyPress, LoadedReport, ConfirmClick
<1>4. ASSUME NEW r \in RoomIds, Stations(s, r) PROVE FALSE
  <2>1. ~Waiting(s, r) /\ ~Starting(s, r)
    BY <1>1, <1>3 DEF Waiting, Starting, Enters, Joining, InRoom
  <2>2. ~Loading(s, r) /\ ~Loads(s, r)
    BY <1>1, <1>2, <1>3 DEF Loading, Loads
  <2>3. ~InMatch(s, r)
    <3>1. \A ps \in LobbyRequest \cup {<<>>} :
             Head(<<ConfirmClick(r)>> \o ps).t = "CONFIRM"
      BY <1>3, ConfirmFirst
    <3> QED
      BY <3>1 DEF InMatch, Plays, AtTable
  <2> QED
    BY <1>4, <2>1, <2>2, <2>3 DEF Stations
<1>5. connect[s] /\ lobby[s] /\ InLobby(s)
  BY <1>4 DEF SessionInv, Knows
<1>6. \A ps \in LobbyRequest : Tail(ps) = <<>> /\ Head(ps).t \in {"JOIN", "QUICK"}
  <2> TAKE ps \in LobbyRequest
  <2>1. PICK p : ps = <<p>> /\ p.t \in {"JOIN", "QUICK"}
    BY DEF LobbyRequest
  <2> QED
    BY <1>1, <2>1
<1>7. Head(<<[t |-> "MAKE"]>>).t = "MAKE" /\ Tail(<<[t |-> "MAKE"]>>) = <<>>
  BY <1>1
<1> QED
  BY <1>5, <1>6, <1>7 DEF InLobby

LEMMA NextFromRoom ==
    ASSUME SessionInv, NEW s \in Users, c2s[s] # <<>>,
           Head(c2s[s]).t \in {"READY", "LOADED", "CONFIRM"}
    PROVE  \E r \in RoomIds :
              /\ s \in members[r] /\ connect[s] /\ ~lobby[s] /\ Head(c2s[s]).r = r
              /\ Head(c2s[s]).t = "READY" =>
                    /\ (Waiting(s, r) /\ InRoom(s, r)) \/ Starting(s, r) \/ Loading(s, r)
                    /\ Tail(c2s[s]) \in {<<>>, <<LoadedReport(r)>>}
              /\ Head(c2s[s]).t = "LOADED" =>
                    Loading(s, r) /\ ~building[s] /\ Tail(c2s[s]) = <<>>
              /\ Head(c2s[s]).t = "CONFIRM" =>
                    /\ InMatch(s, r) /\ AtTable(s, r) /\ scene[s] = "LOBBY"
                    /\ Tail(c2s[s]) \in LobbyRequest \cup {<<>>}
<1>1. \A x : Head(<<x>>) = x /\ Tail(<<x>>) = <<>>
  OBVIOUS
<1>2. \A x, y : Head(<<x, y>>) = x /\ Tail(<<x, y>>) = <<y>>
  OBVIOUS
<1>3. \A r \in RoomIds : /\ ReadyPress(r).t = "READY" /\ LoadedReport(r).t = "LOADED"
                         /\ ConfirmClick(r).t = "CONFIRM"
                         /\ ReadyPress(r).r = r /\ LoadedReport(r).r = r
                         /\ ConfirmClick(r).r = r
  BY DEF ReadyPress, LoadedReport, ConfirmClick
<1>4. ~InLobby(s)
  <2>1. \A ps \in LobbyRequest : Head(ps).t \in {"JOIN", "QUICK"}
    BY <1>1 DEF LobbyRequest
  <2>2. Head(<<[t |-> "MAKE"]>>).t = "MAKE"
    BY <1>1
  <2> QED
    BY <2>1, <2>2 DEF InLobby
<1>5. PICK r \in RoomIds : connect[s] /\ ~lobby[s] /\ s \in members[r] /\ Stations(s, r)
  BY <1>4 DEF SessionInv, Knows
<1> DEFINE h == Head(c2s[s])
           u == Tail(c2s[s])
<1>6. CASE Waiting(s, r) \/ Starting(s, r)
  <2>1. c2s[s] = <<ReadyPress(r)>>
    BY <1>6 DEF Waiting, Starting, Enters, Joining, InRoom
  <2>2. h = ReadyPress(r) /\ u = <<>>
    BY <1>1, <2>1
  <2>3. Waiting(s, r) => InRoom(s, r)
    BY <2>1 DEF Waiting, Enters, Joining
  <2> QED
    BY <1>3, <1>5, <1>6, <2>2, <2>3
<1>7. CASE Loading(s, r)
  <2>1. c2s[s] \in {<<ReadyPress(r)>>, <<LoadedReport(r)>>,
                    <<ReadyPress(r), LoadedReport(r)>>}
    BY <1>7 DEF Loading
  <2>2. CASE c2s[s] = <<LoadedReport(r)>>
    <3>1. h = LoadedReport(r) /\ u = <<>>
      BY <1>1, <2>2
    <3>2. <<LoadedReport(r)>> # <<ReadyPress(r)>>
      BY <1>3
    <3>3. ~building[s]
      BY <1>7, <2>2, <3>2 DEF Loading
    <3> QED
      BY <1>3, <1>5, <1>7, <3>1, <3>3
  <2>3. CASE c2s[s] = <<ReadyPress(r)>>
    <3>1. h = ReadyPress(r) /\ u = <<>>
      BY <1>1, <2>3
    <3> QED
      BY <1>3, <1>5, <1>7, <3>1
  <2>4. CASE c2s[s] = <<ReadyPress(r), LoadedReport(r)>>
    <3>1. h = ReadyPress(r) /\ u = <<LoadedReport(r)>>
      BY <1>2, <2>4
    <3> QED
      BY <1>3, <1>5, <1>7, <3>1
  <2> QED
    BY <2>1, <2>2, <2>3, <2>4
<1>8. CASE InMatch(s, r)
  <2>1. AtTable(s, r) /\ scene[s] = "LOBBY"
    BY <1>8 DEF InMatch, Plays, AtTable
  <2>2. PICK ps \in LobbyRequest \cup {<<>>} : c2s[s] = <<ConfirmClick(r)>> \o ps
    BY <2>1 DEF AtTable
  <2>3. h = ConfirmClick(r) /\ u = ps
    BY <2>2, ConfirmFirst
  <2> QED
    BY <1>3, <1>5, <1>8, <2>1, <2>3
<1> QED
  BY <1>5, <1>6, <1>7, <1>8 DEF Stations, Loads

\* Serve, without the choice of the handler
Handles(s) ==
    /\ Served(s) /\ c2s[s] # <<>>
    /\ c2s' = [c2s EXCEPT ![s] = Tail(@)]
    /\ UNCHANGED clientState

\* What the client shows does not change while the server handles a packet.
LEMMA HandlesRest ==
    ASSUME SessionTypeOK, NEW s \in Users, Handles(s)
    PROVE  /\ c2s' \in [Users -> Seq(ToServer)] /\ c2s'[s] = Tail(c2s[s])
           /\ \A d \in Users : d # s => c2s'[d] = c2s[d]
           /\ UNCHANGED <<scene, building, result, myRoom, myGame, shown, serverID, teams>>
<1>1. Tail(c2s[s]) \in Seq(ToServer)
  BY OneRead DEF SessionTypeOK, Handles
<1> QED
  BY <1>1 DEF SessionTypeOK, Handles, clientState

LEMMA TypedIfTold ==
    ASSUME SessionTypeOK, c2s' \in [Users -> Seq(ToServer)],
           UNCHANGED <<scene, building, result, myRoom, myGame, shown, serverID, teams>>,
           s2c' \in [Users -> Seq(ToClient)], over' \in SUBSET RoomIds
    PROVE  SessionTypeOK'
  BY DEF SessionTypeOK

LEMMA SendTyped ==
    ASSUME SessionTypeOK, NEW msgs, SendTo(msgs),
           \A d \in DOMAIN msgs : msgs[d] \in Seq(ToClient)
    PROVE  /\ s2c' \in [Users -> Seq(ToClient)]
           /\ \A d \in Users : s2c'[d] = IF d \in DOMAIN msgs
                                         THEN s2c[d] \o msgs[d] ELSE s2c[d]
<1>1. \A d \in Users : d \in DOMAIN msgs => s2c[d] \o msgs[d] \in Seq(ToClient)
  BY ConcatProperties DEF SessionTypeOK
<1> QED
  BY <1>1 DEF SendTo, SessionTypeOK

\* Somebody who is in no room: rooms with a running game see nothing of what
\* it does, unless it enters them.
LEMMA StartUntouched ==
    ASSUME SessionInv, NEW s \in Users, NEW X \in SUBSET RoomIds,
           \A r \in RoomIds : s \notin members[r],
           \A d \in Users : d # s => c2s'[d] = c2s[d],
           \A r \in RoomIds \ X : /\ members'[r] = members[r] /\ status'[r] = status[r]
                                  /\ accepted'[r] = accepted[r]
                                  /\ readycount'[r] = readycount[r],
           \A r \in X : status'[r] # "INGAME"
    PROVE  NoSecondStart'
<1> SUFFICES ASSUME NEW r \in RoomIds, status'[r] = "INGAME",
                    ~(members'[r] \subseteq accepted'[r])
             PROVE  readycount'[r] + Cardinality(Pressing(r)') < Size(r)'
  BY DEF NoSecondStart
<1>1. r \notin X
  OBVIOUS
<1>2. \A d \in members[r] : d \in Users /\ d # s
  BY DEF SessionInv, Base, TypeOK
<1>3. Pressing(r)' = Pressing(r)
  BY <1>1, <1>2 DEF Pressing, PressOnWay
<1> QED
  BY <1>1, <1>3 DEF SessionInv, NoSecondStart, Size

LEMMA MakeStep ==
    ASSUME SessionInv, NEW s \in Users, Handles(s), Head(c2s[s]).t = "MAKE",
           HandleMake(s), UNCHANGED over
    PROVE  SessionTypeOK' /\ (\A d \in Users : Knows(d)') /\ NoSecondStart' /\ Make(s)
<1>1. /\ connect[s] /\ lobby[s] /\ ~building[s] /\ ~result[s] /\ s2c[s] = <<>>
      /\ Tail(c2s[s]) = <<>> /\ scene[s] = "ROOM"
  BY NextFromLobby DEF Handles
<1>2. SessionTypeOK /\ TypeOK /\ OneRoom
  BY DEF SessionInv, Base, Orderly
<1>3. EmptyRooms # {} /\ EmptyRooms \in SUBSET RoomIds
  BY <1>1, <1>2, RoomLeft DEF EmptyRooms
<1>4. Make(s)
  BY <1>1, <1>3 DEF Make, Handles, HandleMake
<1>5. PICK r \in RoomIds : r = FirstRoom(EmptyRooms) /\ members[r] = {}
  <2>1. FirstRoom(EmptyRooms) \in EmptyRooms
    BY <1>3, FirstRoomFound
  <2> QED
    BY <2>1 DEF EmptyRooms
<1>6. /\ roomNum' = r /\ gameID' = [gameID EXCEPT ![s] = 0]
      /\ lobby' = [lobby EXCEPT ![s] = FALSE]
      /\ status' = [status EXCEPT ![r] = "JOINABLE"]
      /\ members' = [members EXCEPT ![r] = @ \cup {s}]
      /\ UNCHANGED <<connect, accepted, readycount>>
  BY <1>3, <1>5 DEF HandleMake, MakeRoom
<1> DEFINE j == [t |-> "JOINED", r |-> r, g |-> 0]
<1>7. JoinedPacket(s, roomNum') = j /\ j \in ToClient
  BY <1>2, <1>5, <1>6 DEF JoinedPacket, RoomTold, TypeOK, ToClient, Byte
<1>8. /\ SendTo(Answer(s, j)) /\ DOMAIN Answer(s, j) = {s} /\ Answer(s, j)[s] = <<j>>
      /\ <<j>> \in Seq(ToClient)
  BY <1>7 DEF HandleMake, Answer
<1> HIDE DEF j
<1>9. /\ s2c' \in [Users -> Seq(ToClient)] /\ s2c'[s] = s2c[s] \o <<j>>
      /\ \A d \in Users : d # s => s2c'[d] = s2c[d]
  BY <1>2, <1>8, SendTyped
<1>10. s2c'[s] = <<j>>
  BY <1>1, <1>8, <1>9, NothingYet
<1>11. /\ c2s'[s] = <<>> /\ scene'[s] = "ROOM" /\ ~building'[s] /\ ~result'[s]
       /\ \A d \in Users : d # s => SameClient(d)
       /\ c2s' \in [Users -> Seq(ToServer)]
  BY <1>1, <1>2, <1>9, HandlesRest DEF SameClient
<1>12. Knows(s)'
  <2>1. /\ s \in members'[r] /\ gameID'[s] = 0 /\ status'[r] = "JOINABLE"
        /\ connect'[s] /\ ~lobby'[s]
    BY <1>1, <1>2, <1>5, <1>6 DEF TypeOK
  <2>2. /\ s2c'[s] # <<>> /\ s2c'[s][1] = j /\ DOMAIN s2c'[s] = {1}
    BY <1>10
  <2>3. Joining(s, r)'
    BY <1>11, <2>1, <2>2 DEF Joining, j
  <2>4. Tidings(s, {"JOINED", "ENTER", "READY"})'
    BY <2>2 DEF Tidings, j
  <2>5. Waiting(s, r)'
    BY <1>11, <2>1, <2>3, <2>4 DEF Waiting, Enters
  <2> QED
    BY <1>5, <2>1, <2>5 DEF Knows, Stations
<1>13. ASSUME NEW d \in Users, d # s PROVE Knows(d)'
  <2>1. SameSlot(d)
    BY <1>2, <1>6, <1>13 DEF SameSlot, TypeOK
  <2>2. \A q \in RoomIds : d \in members[q] => SameRoom(d, q)
    BY <1>2, <1>5, <1>6 DEF SameRoom, TypeOK
  <2> QED
    BY <1>11, <1>13, <2>1, <2>2, KnowsSame DEF SessionInv
<1>14. NoSecondStart'
  <2>1. \A q \in RoomIds : s \notin members[q]
    BY <1>1, <1>2 DEF OneRoom
  <2>2. \A q \in RoomIds \ {r} : /\ members'[q] = members[q] /\ status'[q] = status[q]
                                 /\ accepted'[q] = accepted[q] /\ readycount'[q] = readycount[q]
    BY <1>2, <1>6 DEF TypeOK
  <2>3. status'[r] # "INGAME"
    BY <1>2, <1>5, <1>6 DEF TypeOK
  <2>4. \A d \in Users : d # s => c2s'[d] = c2s[d]
    BY <1>2, HandlesRest
  <2>5. {r} \in SUBSET RoomIds /\ \A q \in {r} : status'[q] # "INGAME"
    BY <1>5, <2>3
  <2> QED
    BY <2>1, <2>2, <2>4, <2>5, StartUntouched
<1>15. SessionTypeOK'
  <2>1. UNCHANGED <<scene, building, result, myRoom, myGame, shown, serverID, teams>>
    BY <1>2, HandlesRest
  <2>2. over' \in SUBSET RoomIds
    BY <1>2 DEF SessionTypeOK
  <2> QED
    BY <1>2, <1>9, <1>11, <2>1, <2>2, TypedIfTold
<1> QED
  BY <1>4, <1>12, <1>13, <1>14, <1>15

\* Turned away
LEMMA FailStep ==
    ASSUME SessionInv, NEW s \in Users, Handles(s),
           Head(c2s[s]).t \in {"JOIN", "QUICK"},
           UNCHANGED vars, SendTo(Answer(s, FailPacket)), UNCHANGED over
    PROVE  SessionTypeOK' /\ (\A d \in Users : Knows(d)') /\ NoSecondStart'
<1>1. /\ connect[s] /\ lobby[s] /\ ~building[s] /\ ~result[s] /\ s2c[s] = <<>>
      /\ Tail(c2s[s]) = <<>> /\ scene[s] = "LOBBY"
  BY NextFromLobby DEF Handles
<1>2. SessionTypeOK /\ OneRoom
  BY DEF SessionInv, Orderly
<1>3. /\ DOMAIN Answer(s, FailPacket) = {s} /\ Answer(s, FailPacket)[s] = <<FailPacket>>
      /\ <<FailPacket>> \in Seq(ToClient)
  BY DEF Answer, FailPacket, ToClient
<1>4. /\ s2c' \in [Users -> Seq(ToClient)] /\ s2c'[s] = s2c[s] \o <<FailPacket>>
      /\ \A d \in Users : d # s => s2c'[d] = s2c[d]
  BY <1>2, <1>3, SendTyped
<1>5. s2c'[s] = <<FailPacket>>
  BY <1>1, <1>3, <1>4, NothingYet
<1>6. /\ c2s'[s] = <<>> /\ scene'[s] = "LOBBY" /\ ~building'[s] /\ ~result'[s]
      /\ \A d \in Users : d # s => SameClient(d)
      /\ c2s' \in [Users -> Seq(ToServer)]
      /\ UNCHANGED <<connect, lobby, gameID, status, members, accepted, readycount>>
  BY <1>1, <1>2, <1>4, HandlesRest DEF SameClient, vars, roomVars
<1>7. Knows(s)'
  <2>1. InLobby(s)'
    BY <1>5, <1>6 DEF InLobby, FailPacket
  <2> QED
    BY <1>1, <1>6, <2>1 DEF Knows
<1>8. ASSUME NEW d \in Users, d # s PROVE Knows(d)'
  <2>1. SameSlot(d) /\ \A q \in RoomIds : d \in members[q] => SameRoom(d, q)
    BY <1>6 DEF SameSlot, SameRoom
  <2> QED
    BY <1>6, <1>8, <2>1, KnowsSame DEF SessionInv
<1>9. NoSecondStart'
  <2>1. \A q \in RoomIds : s \notin members[q]
    BY <1>1, <1>2 DEF OneRoom
  <2>2. \A d \in Users : d # s => c2s'[d] = c2s[d]
    BY <1>2, HandlesRest
  <2>3. {} \in SUBSET RoomIds /\ \A q \in {} : status'[q] # "INGAME"
    OBVIOUS
  <2> QED
    BY <1>6, <2>1, <2>2, <2>3, StartUntouched
<1>10. SessionTypeOK'
  <2>1. over' \in SUBSET RoomIds
    BY <1>2 DEF SessionTypeOK
  <2> QED
    BY <1>2, <1>4, <1>6, <2>1, HandlesRest, TypedIfTold
<1> QED
  BY <1>7, <1>8, <1>9, <1>10

\* Let in
LEMMA EnterStep ==
    ASSUME SessionInv, NEW s \in Users, Handles(s),
           Head(c2s[s]).t \in {"JOIN", "QUICK"}, NEW r \in RoomIds,
           status[r] = "JOINABLE", Enter(s, r), Joined(s, r), UNCHANGED over
    PROVE  SessionTypeOK' /\ (\A d \in Users : Knows(d)') /\ NoSecondStart'
<1>1. /\ connect[s] /\ lobby[s] /\ ~building[s] /\ ~result[s] /\ s2c[s] = <<>>
      /\ Tail(c2s[s]) = <<>> /\ scene[s] = "LOBBY"
  BY NextFromLobby DEF Handles
<1>2. SessionTypeOK /\ TypeOK /\ OneRoom /\ \A q \in RoomIds : s \notin members[q]
  BY <1>1 DEF SessionInv, Base, Orderly, OneRoom
<1>3. /\ members' = [members EXCEPT ![r] = @ \cup {s}]
      /\ lobby' = [lobby EXCEPT ![s] = FALSE]
      /\ gameID'[s] \in Byte /\ \A d \in Users : d # s => gameID'[d] = gameID[d]
      /\ status'[r] \in {"JOINABLE", "FULL"}
      /\ \A q \in RoomIds : q # r => status'[q] = status[q] /\ readycount'[q] = readycount[q]
      /\ UNCHANGED <<connect, accepted>>
  <2>1. NewGameID(Cardinality(members[r] \cup {s})) \in Byte
    <3>1. Cardinality(members[r] \cup {s}) \in Nat
      BY <1>2, SubsetOfUsers DEF TypeOK
    <3> QED
      BY <3>1 DEF NewGameID, Byte
  <2> QED
    BY <1>2, <2>1 DEF Enter, EnteredStatus, TypeOK
<1> DEFINE j == [t |-> "JOINED", r |-> r, g |-> gameID'[s]]
           n == Cardinality(members'[r] \ {s})
           enters == [i \in 1 .. n |-> EnterPacket]
           first == <<j>> \o enters
<1>4. JoinedPacket(s, r) = j /\ j \in ToClient /\ <<j>> \in Seq(ToClient)
      /\ DOMAIN <<j>> = {1} /\ <<j>>[1] = j /\ Len(<<j>>) = 1 /\ j.t = "JOINED"
  BY <1>3 DEF JoinedPacket, RoomTold, ToClient
<1>5. /\ EnterPacket \in ToClient /\ EnterPacket.t = "ENTER"
      /\ <<EnterPacket>> \in Seq(ToClient) /\ DOMAIN <<EnterPacket>> = {1}
      /\ <<EnterPacket>>[1] = EnterPacket
  BY DEF EnterPacket, ToClient
<1>6. enters \in Seq(ToClient) /\ \A i \in DOMAIN enters : enters[i].t = "ENTER"
  <2>1. n \in Nat
    <3>1. members'[r] \ {s} \in SUBSET Users
      BY <1>2, <1>3 DEF TypeOK
    <3> QED
      BY <3>1, SubsetOfUsers
  <2> HIDE DEF n
  <2>2. enters \in [1 .. n -> ToClient]
    BY <1>5
  <2>3. enters \in Seq(ToClient)
    BY <2>1, <2>2, IsASeq
  <2>4. \A i \in DOMAIN enters : enters[i] = EnterPacket
    OBVIOUS
  <2> QED
    BY <1>5, <2>3, <2>4
<1>7. /\ first \in Seq(ToClient) /\ 1 \in DOMAIN first /\ first[1] = j /\ first # <<>>
      /\ \A k \in DOMAIN first : k > 1 => first[k].t = "ENTER"
      /\ \A k \in DOMAIN first : first[k].t \in {"JOINED", "ENTER"}
  <2> DEFINE o == <<j>>
  <2>1. o \in Seq(ToClient) /\ DOMAIN o = {1} /\ o[1] = j /\ Len(o) = 1 /\ j.t = "JOINED"
    BY <1>4
  <2> HIDE DEF o, j, enters
  <2>2. /\ o \o enters \in Seq(ToClient) /\ 1 \in DOMAIN (o \o enters)
        /\ (o \o enters)[1] = j
        /\ \A k \in DOMAIN (o \o enters) :
              k = 1 \/ \E i \in DOMAIN enters : (o \o enters)[k] = enters[i]
    BY <1>6, <2>1, MoreSent
  <2>3. o \o enters # <<>>
    BY <2>2, EmptySeq
  <2> QED
    BY <1>6, <2>1, <2>2, <2>3 DEF o
<1> HIDE DEF first, enters, j, n
<1> DEFINE msgs == [d \in members'[r] |-> IF d = s THEN first ELSE <<EnterPacket>>]
<1>8. SendTo(msgs)
  BY <1>4 DEF Joined, first, enters, n, j
<1>9. \A d \in DOMAIN msgs : msgs[d] \in Seq(ToClient)
  BY <1>5, <1>7
<1>10. s \in members'[r] /\ \A d \in Users : d # s => (d \in members'[r] <=> d \in members[r])
  BY <1>2, <1>3 DEF TypeOK
<1>11. /\ s2c' \in [Users -> Seq(ToClient)]
       /\ \A d \in Users : s2c'[d] = IF d \in DOMAIN msgs THEN s2c[d] \o msgs[d] ELSE s2c[d]
  BY <1>2, <1>8, <1>9, SendTyped
<1>12. /\ s2c'[s] = s2c[s] \o first
       /\ \A d \in members[r] : s2c'[d] = s2c[d] \o <<EnterPacket>>
       /\ \A d \in Users : d # s /\ d \notin members[r] => s2c'[d] = s2c[d]
  BY <1>2, <1>10, <1>11 DEF TypeOK
<1>13. s2c'[s] = first
  BY <1>1, <1>7, <1>12, NothingYet
<1> HIDE DEF msgs
<1>14. /\ c2s'[s] = <<>> /\ scene'[s] = "LOBBY" /\ ~building'[s] /\ ~result'[s]
       /\ \A d \in Users : d # s => c2s'[d] = c2s[d]
       /\ UNCHANGED <<scene, building, result, myRoom, myGame, shown, serverID, teams>>
       /\ c2s' \in [Users -> Seq(ToServer)]
  BY <1>1, <1>2, HandlesRest
<1>15. Knows(s)'
  <2>1. connect'[s] /\ ~lobby'[s]
    BY <1>1, <1>2, <1>3 DEF TypeOK
  <2>2. Joining(s, r)'
    BY <1>7, <1>13, <1>14 DEF Joining, j
  <2>3. Tidings(s, {"JOINED", "ENTER", "READY"})'
    BY <1>7, <1>13 DEF Tidings
  <2>4. Waiting(s, r)'
    BY <1>3, <1>14, <2>2, <2>3 DEF Waiting, Enters
  <2> QED
    BY <1>10, <2>1, <2>4 DEF Knows, Stations
<1>16. ASSUME NEW d \in members[r] PROVE Knows(d)'
  <2>1. d \in Users /\ d # s /\ connect[d] /\ ~lobby[d] /\ Stations(d, r)
    BY <1>2, MemberStation
  <2>2. Waiting(d, r)
    BY <2>1 DEF Stations, Starting, Loading, Loads, InMatch
  <2>3. Told(d, <<EnterPacket>>)
    BY <1>2, <1>3, <1>5, <1>12, <1>14, <2>1 DEF Told, SessionTypeOK
  <2>4. \A i \in DOMAIN <<EnterPacket>> : <<EnterPacket>>[i].t \in {"ENTER", "READY"}
    BY <1>5
  <2>5. Waiting(d, r)'
    BY <1>3, <2>1, <2>2, <2>3, <2>4, ToldWaiting
  <2>6. connect'[d] /\ ~lobby'[d] /\ d \in members'[r]
    BY <1>2, <1>3, <1>10, <2>1 DEF TypeOK
  <2> QED
    BY <2>5, <2>6 DEF Knows, Stations
<1>17. ASSUME NEW d \in Users, d # s, d \notin members[r] PROVE Knows(d)'
  <2>1. SameSlot(d)
    BY <1>2, <1>3, <1>17 DEF SameSlot, TypeOK
  <2>2. \A q \in RoomIds : d \in members[q] => SameRoom(d, q)
    BY <1>2, <1>3, <1>17 DEF SameRoom, TypeOK
  <2>3. SameClient(d)
    BY <1>12, <1>14, <1>17 DEF SameClient
  <2> QED
    BY <2>1, <2>2, <2>3, KnowsSame DEF SessionInv
<1>18. NoSecondStart'
  <2>1. \A q \in RoomIds \ {r} : /\ members'[q] = members[q] /\ status'[q] = status[q]
                                 /\ accepted'[q] = accepted[q] /\ readycount'[q] = readycount[q]
    BY <1>2, <1>3 DEF TypeOK
  <2>2. {r} \in SUBSET RoomIds /\ \A q \in {r} : status'[q] # "INGAME"
    BY <1>3
  <2> QED
    BY <1>2, <1>14, <2>1, <2>2, StartUntouched
<1>19. SessionTypeOK'
  <2>1. over' \in SUBSET RoomIds
    BY <1>2 DEF SessionTypeOK
  <2> QED
    BY <1>2, <1>11, <1>14, <2>1, TypedIfTold
<1> QED
  BY <1>15, <1>16, <1>17, <1>18, <1>19


\* A press of the ready button is counted, and whatever the count is then, it
\* is a press that Rooms allows.
LEMMA ReadyStep ==
    ASSUME SessionInv, NEW s \in Users, Handles(s), Head(c2s[s]).t = "READY",
           HandleReady(s, Head(c2s[s]).r), UNCHANGED over
    PROVE  /\ SessionTypeOK' /\ (\A d \in Users : Knows(d)') /\ NoSecondStart'
           /\ \E r \in RoomIds : PressReady(s, r)
<1>1. PICK r \in RoomIds :
          /\ s \in members[r] /\ connect[s] /\ ~lobby[s] /\ Head(c2s[s]).r = r
          /\ (Waiting(s, r) /\ InRoom(s, r)) \/ Starting(s, r) \/ Loading(s, r)
          /\ Tail(c2s[s]) \in {<<>>, <<LoadedReport(r)>>}
  BY NextFromRoom DEF Handles
<1>2. /\ SessionTypeOK /\ TypeOK /\ RoomCapacity /\ NobodyGone /\ ReadyBelowSize
      /\ LoadAccounting /\ OneRoom /\ NoSecondStart
      /\ Ready(s, r)
      /\ SendTo([d \in members[r] |->
             <<ReadyPacket(s)>> \o IF AllReady(r) THEN <<AllReadyPacket>> ELSE <<>>])
  BY <1>1 DEF SessionInv, Base, Orderly, HandleReady
<1>3. /\ readycount' = [readycount EXCEPT ![r] = IF AllReady(r) THEN 0 ELSE Inc(@)]
      /\ status' = [status EXCEPT ![r] = IF AllReady(r) THEN "INGAME" ELSE @]
      /\ UNCHANGED <<connect, lobby, gameID, members, accepted>>
  <2>1. ~Unreachable(r)
    BY <1>2 DEF NobodyGone, Unreachable
  <2> QED
    BY <1>2, <2>1 DEF Ready, clientVars
<1>4. /\ s \notin accepted[r]
      /\ status[r] \in {"JOINABLE", "FULL", "INGAME"}
      /\ status[r] # "INGAME" => accepted[r] = {}
  BY <1>1, <1>2 DEF Waiting, Starting, Loading, LoadAccounting
<1>5. members[r] \in SUBSET Users /\ Size(r) \in Nat /\ Size(r) <= 255 /\ Size(r) <= MaxGamer
      /\ readycount[r] \in Nat
  <2>1. members[r] \in SUBSET Users /\ readycount[r] \in Nat
    <3>1. TypeOK
      BY <1>2
    <3> QED
      BY <3>1 DEF TypeOK, Byte
  <2>2. Size(r) \in Nat
    BY <2>1, SubsetOfUsers DEF Size
  <2>3. Size(r) <= MaxGamer
    BY <1>2 DEF RoomCapacity
  <2> QED
    BY <2>1, <2>2, <2>3, RoomsAssumption
<1>6. /\ Pressing(r) \in SUBSET Users /\ s \in Pressing(r) /\ Cardinality(Pressing(r)) \in Nat
      /\ Cardinality(Pressing(r)) > 0
  <2>1. PressOnWay(s)
    <3>1. 1 \in DOMAIN c2s[s] /\ Head(c2s[s]) = c2s[s][1]
      BY <1>2, OneRead DEF SessionTypeOK, Handles
    <3> QED
      BY <3>1 DEF PressOnWay
  <2>2. Pressing(r) \in SUBSET Users /\ s \in Pressing(r)
    BY <1>1, <1>5, <2>1 DEF Pressing
  <2> QED
    BY <2>2, SubsetOfUsers, CountZero
<1>7. /\ readycount[r] < Size(r) /\ Inc(readycount[r]) = readycount[r] + 1
      /\ status[r] = "INGAME" => readycount[r] + Cardinality(Pressing(r)) < Size(r)
      /\ AllReady(r) => status[r] \in {"JOINABLE", "FULL"}
  <2>1. status[r] = "INGAME" => readycount[r] + Cardinality(Pressing(r)) < Size(r)
    BY <1>1, <1>2, <1>4 DEF NoSecondStart
  <2>2. status[r] # "INGAME" => readycount[r] < Size(r)
    BY <1>2, <1>4 DEF ReadyBelowSize
  <2>3. readycount[r] < Size(r) /\ Inc(readycount[r]) = readycount[r] + 1
    BY <1>4, <1>5, <1>6, <2>1, <2>2 DEF Inc
  <2>4. AllReady(r) => status[r] # "INGAME"
    BY <1>5, <1>6, <2>1, <2>3 DEF AllReady
  <2> QED
    BY <1>4, <2>1, <2>3, <2>4
<1>8. PressReady(s, r)
  <2>1. readycount[r] < ReadyBound
    BY <1>5, <1>7, RoomsAssumption DEF ReadyBound
  <2> QED
    BY <1>1, <1>2, <1>4, <2>1 DEF PressReady, Handles
<1> DEFINE p == ReadyPacket(s)
           m == <<p>> \o IF AllReady(r) THEN <<AllReadyPacket>> ELSE <<>>
           msgs == [d \in members[r] |-> m]
<1>9. p \in ToClient /\ p.t = "READY" /\ <<p>> \in Seq(ToClient)
      /\ AllReadyPacket \in ToClient /\ <<AllReadyPacket>> \in Seq(ToClient)
      /\ <<p, AllReadyPacket>> \in Seq(ToClient)
      /\ DOMAIN <<p>> = {1} /\ <<p>>[1] = p
  <2>1. p \in ToClient /\ p.t = "READY" /\ AllReadyPacket \in ToClient
    BY <1>2 DEF ReadyPacket, ReadyServerID, AllReadyPacket, ToClient, TypeOK
  <2> HIDE DEF p
  <2> QED
    BY <2>1
<1>10. SendTo(msgs)
  BY <1>2
<1> HIDE DEF p
<1>11. m = (IF AllReady(r) THEN <<p, AllReadyPacket>> ELSE <<p>>) /\ m \in Seq(ToClient)
  <2>1. CASE AllReady(r)
    <3>1. <<p>> \o <<AllReadyPacket>> = <<p, AllReadyPacket>>
      BY <1>9, TwoSent
    <3> QED
      BY <1>9, <2>1, <3>1
  <2>2. CASE ~AllReady(r)
    <3>1. <<p>> \o <<>> = <<p>>
      BY <1>9, ConcatEmptySeq
    <3> QED
      BY <1>9, <2>2, <3>1
  <2> QED
    BY <2>1, <2>2
<1> HIDE DEF m
<1>12. DOMAIN msgs = members[r] /\ \A d \in members[r] : msgs[d] = m
  OBVIOUS
<1> HIDE DEF msgs
<1>13. /\ s2c' \in [Users -> Seq(ToClient)]
       /\ \A d \in members[r] : s2c'[d] = s2c[d] \o m
       /\ \A d \in Users : d \notin members[r] => s2c'[d] = s2c[d]
  BY <1>2, <1>5, <1>10, <1>11, <1>12, SendTyped
<1>14. /\ c2s' \in [Users -> Seq(ToServer)] /\ c2s'[s] = Tail(c2s[s])
       /\ \A d \in Users : d # s => c2s'[d] = c2s[d]
       /\ UNCHANGED <<scene, building, result, myRoom, myGame, shown, serverID, teams>>
  BY <1>2, HandlesRest
<1>15. SessionTypeOK'
  <2>1. over' \in SUBSET RoomIds
    BY <1>2 DEF SessionTypeOK
  <2> QED
    BY <1>2, <1>13, <1>14, <2>1, TypedIfTold
<1>16. ASSUME NEW d \in members[r] PROVE Knows(d)'
  <2>1. d \in Users /\ connect[d] /\ ~lobby[d] /\ Stations(d, r)
    BY MemberStation
  <2>2. Told(d, m)
    BY <1>2, <1>3, <1>11, <1>13, <1>14, <2>1 DEF Told, SessionTypeOK, Handles
  <2>3. Stations(d, r)'
    <3>1. CASE status[r] \in {"JOINABLE", "FULL"} /\ AllReady(r)
      <4>1. Waiting(d, r)
        BY <2>1, <3>1 DEF Stations, Starting, Loading, Loads, InMatch
      <4>2. status'[r] = "INGAME" /\ d \notin accepted'[r]
        BY <1>2, <1>3, <1>4, <3>1 DEF TypeOK
      <4>3. m = <<p, AllReadyPacket>>
        BY <1>11, <3>1
      <4>4. Starting(d, r)'
        BY <1>9, <2>1, <2>2, <4>1, <4>2, <4>3, ToldStart
      <4> QED
        BY <4>4 DEF Stations
    <3>2. CASE status[r] \in {"JOINABLE", "FULL"} /\ ~AllReady(r)
      <4>1. Waiting(d, r)
        BY <2>1, <3>2 DEF Stations, Starting, Loading, Loads, InMatch
      <4>2. status'[r] \in {"JOINABLE", "FULL"}
        BY <1>2, <1>3, <3>2 DEF TypeOK
      <4>3. m = <<p>>
        BY <1>11, <3>2
      <4>4. \A i \in DOMAIN m : m[i].t \in {"ENTER", "READY"}
        BY <1>9, <4>3
      <4>5. Waiting(d, r)'
        BY <2>1, <2>2, <4>1, <4>2, <4>4, ToldWaiting
      <4> QED
        BY <4>5 DEF Stations
    <3>3. CASE status[r] = "INGAME"
      <4>1. ~AllReady(r) /\ m = <<p>>
        BY <1>7, <1>11, <3>3
      <4>2. status'[r] = "INGAME" /\ accepted'[r] = accepted[r] /\ members'[r] = members[r]
        BY <1>2, <1>3, <3>3, <4>1 DEF TypeOK
      <4>3. ~(members[r] \subseteq accepted[r])
        BY <1>1, <1>4
      <4> QED
        BY <1>9, <2>1, <2>2, <3>3, <4>1, <4>2, <4>3, ToldLate
    <3> QED
      BY <1>4, <3>1, <3>2, <3>3
  <2> QED
    BY <1>3, <2>1, <2>3 DEF Knows
<1>17. ASSUME NEW d \in Users, d \notin members[r] PROVE Knows(d)'
  <2>1. SameSlot(d)
    BY <1>3 DEF SameSlot
  <2>2. \A q \in RoomIds : d \in members[q] => SameRoom(d, q)
    BY <1>2, <1>3, <1>17 DEF SameRoom, TypeOK
  <2>3. SameClient(d)
    BY <1>1, <1>13, <1>14, <1>17 DEF SameClient
  <2> QED
    BY <2>1, <2>2, <2>3, KnowsSame DEF SessionInv
<1>18. NoSecondStart'
  <2> SUFFICES ASSUME NEW q \in RoomIds, status'[q] = "INGAME",
                      ~(members'[q] \subseteq accepted'[q])
               PROVE  readycount'[q] + Cardinality(Pressing(q)') < Size(q)'
    BY DEF NoSecondStart
  <2>1. members'[q] = members[q] /\ accepted'[q] = accepted[q] /\ Size(q)' = Size(q)
    BY <1>3 DEF Size
  <2>2. CASE q # r
    <3>1. \A d \in members[q] : d \in Users /\ d # s
      BY <1>1, <1>2, <2>2 DEF OneRoom, TypeOK
    <3>2. Pressing(q)' = Pressing(q)
      BY <1>14, <2>1, <3>1 DEF Pressing, PressOnWay
    <3>3. status'[q] = status[q] /\ readycount'[q] = readycount[q]
      BY <1>2, <1>3, <2>2 DEF TypeOK
    <3> QED
      BY <1>2, <2>1, <3>2, <3>3 DEF NoSecondStart
  <2>3. CASE q = r
    <3>1. Pressing(r)' \in SUBSET (Pressing(r) \ {s})
      <4>1. ~PressOnWay(s)'
        <5>1. \A i \in DOMAIN <<LoadedReport(r)>> : <<LoadedReport(r)>>[i].t = "LOADED"
          BY DEF LoadedReport
        <5>2. c2s'[s] = <<>> \/ c2s'[s] = <<LoadedReport(r)>>
          BY <1>1, <1>14
        <5>3. \A i \in DOMAIN c2s'[s] : c2s'[s][i].t = "LOADED"
          BY <5>1, <5>2
        <5> QED
          BY <5>3 DEF PressOnWay
      <4>2. \A d \in members[r] : d # s /\ PressOnWay(d)' => PressOnWay(d)
        BY <1>5, <1>14 DEF PressOnWay
      <4>3. members'[r] = members[r]
        BY <2>1, <2>3
      <4> QED
        BY <4>1, <4>2, <4>3 DEF Pressing
    <3>2. /\ Cardinality(Pressing(r) \ {s}) = Cardinality(Pressing(r)) - 1
          /\ Cardinality(Pressing(r)') <= Cardinality(Pressing(r) \ {s})
          /\ Cardinality(Pressing(r)') \in Nat
      <4>1. Pressing(r) \ {s} \in SUBSET Users /\ Pressing(r)' \in SUBSET Users
        BY <1>6, <3>1
      <4> QED
        BY <1>6, <3>1, <4>1, CountRemove, CountSubset, SubsetOfUsers
    <3>3. CASE status[r] = "INGAME"
      <4>1. ~AllReady(r) /\ readycount'[r] = readycount[r] + 1
        BY <1>2, <1>3, <1>7, <3>3 DEF TypeOK
      <4> QED
        BY <1>5, <1>6, <1>7, <2>1, <2>3, <3>2, <3>3, <4>1
    <3>4. CASE status[r] # "INGAME"
      <4>1. AllReady(r) /\ readycount'[r] = 0
        BY <1>2, <1>3, <2>3, <3>4 DEF TypeOK
      <4>2. Cardinality(Pressing(r)) <= Size(r)
        <5>1. Pressing(r) \in SUBSET members[r]
          BY DEF Pressing
        <5> QED
          BY <1>5, <5>1, CountSubset DEF Size
      <4> QED
        BY <1>5, <1>6, <2>1, <2>3, <3>2, <4>1, <4>2
    <3> QED
      BY <3>3, <3>4
  <2> QED
    BY <2>2, <2>3
<1> QED
  BY <1>5, <1>8, <1>15, <1>16, <1>17, <1>18


\* The count of the reports tells the last one from the others.
LEMMA LastReport ==
    ASSUME TypeOK, RoomCapacity, LoadAccounting, NEW r \in RoomIds, NEW s \in members[r],
           status[r] = "INGAME", s \notin accepted[r]
    PROVE  AllLoaded(r) <=> members[r] \subseteq accepted[r] \cup {s}
<1> DEFINE n == Cardinality(accepted[r])
<1>1. accepted[r] \subseteq members[r] /\ loadcount[r] = n
  BY DEF LoadAccounting
<1>2. /\ members[r] \in SUBSET Users /\ accepted[r] \in SUBSET Users
  BY DEF TypeOK
<1>3. n \in Nat /\ Size(r) \in Nat
  BY <1>2, SubsetOfUsers DEF Size
<1>4. Cardinality(accepted[r] \cup {s}) = n + 1
  BY <1>2, CountAdd
<1>5. /\ n + 1 <= Size(r)
      /\ n + 1 = Size(r) => accepted[r] \cup {s} = members[r]
      /\ members[r] \subseteq accepted[r] \cup {s} => n + 1 = Size(r)
  <2>1. accepted[r] \cup {s} \in SUBSET members[r]
    BY <1>1
  <2>2. members[r] \subseteq accepted[r] \cup {s} => members[r] = accepted[r] \cup {s}
    BY <2>1
  <2> HIDE DEF n
  <2> QED
    BY <1>2, <1>4, <2>1, <2>2, CountSubset DEF Size
<1> HIDE DEF n
<1>6. Inc(n) = n + 1
  <2>1. n + 1 <= MaxGamer /\ MaxGamer <= 255 /\ MaxGamer \in Nat
    BY <1>3, <1>5, RoomsAssumption DEF RoomCapacity
  <2> QED
    BY <1>3, <2>1 DEF Inc
<1> QED
  BY <1>1, <1>5, <1>6 DEF AllLoaded

\* The heroes put on the map, one packet for each
LEMMA PutsTyped ==
    ASSUME TypeOK, NEW S \in SUBSET Users, NEW order \in InOrder(S)
    PROVE  LET puts == [i \in DOMAIN order |-> PutPacket(order[i])] IN
           /\ puts \in Seq(ToClient) /\ DOMAIN puts = 1 .. Cardinality(S)
           /\ \A i \in DOMAIN puts : puts[i].t = "PUT"
<1> DEFINE puts == [i \in DOMAIN order |-> PutPacket(order[i])]
           n == Cardinality(S)
<1>1. n \in Nat
  BY SubsetOfUsers
<1>2. order \in [1 .. n -> S]
  BY DEF InOrder
<1>3. \A d \in Users : PutPacket(d) \in ToClient /\ PutPacket(d).t = "PUT"
  BY DEF PutPacket, ToClient, TypeOK
<1> HIDE DEF n
<1>4. DOMAIN order = 1 .. n /\ \A i \in 1 .. n : order[i] \in Users
  BY <1>2
<1>5. DOMAIN puts = 1 .. n /\ \A i \in 1 .. n : puts[i] = PutPacket(order[i])
  BY <1>4
<1>6. puts = [i \in 1 .. n |-> PutPacket(order[i])]
  BY <1>4
<1>7. \A i \in 1 .. n : PutPacket(order[i]) \in ToClient
  BY <1>3, <1>4
<1>8. [i \in 1 .. n |-> PutPacket(order[i])] \in Seq(ToClient)
  BY <1>1, <1>7, IsASeq
<1> QED
  BY <1>3, <1>4, <1>5, <1>6, <1>8 DEF n

\* The last report of a room puts the heroes on the map of all members.
LEMMA LoadedStep ==
    ASSUME SessionInv, NEW s \in Users, Handles(s), Head(c2s[s]).t = "LOADED",
           HandleLoaded(s, Head(c2s[s]).r), UNCHANGED over
    PROVE  /\ SessionTypeOK' /\ (\A d \in Users : Knows(d)') /\ NoSecondStart'
           /\ \E r \in RoomIds : Loaded(s, r)
<1>1. PICK r \in RoomIds :
          /\ s \in members[r] /\ connect[s] /\ ~lobby[s] /\ Head(c2s[s]).r = r
          /\ Loading(s, r) /\ ~building[s] /\ Tail(c2s[s]) = <<>>
  BY NextFromRoom DEF Handles
<1>2. /\ SessionTypeOK /\ TypeOK /\ RoomCapacity /\ NobodyGone /\ LoadAccounting
      /\ OneRoom /\ NoSecondStart
  BY DEF SessionInv, Base, Orderly
<1>3. HandleLoaded(s, r) /\ LoadComplete(s, r)
  BY <1>1 DEF HandleLoaded
<1>4. status[r] = "INGAME" /\ s \notin accepted[r] /\ Loaded(s, r)
  BY <1>1, <1>3 DEF Loading, Loaded, Handles
<1>5. /\ accepted' = [accepted EXCEPT ![r] = @ \cup {s}]
      /\ UNCHANGED <<connect, lobby, gameID, status, members, readycount>>
  BY <1>3 DEF LoadComplete, AcceptedWith, clientVars
<1>6. AllLoaded(r) <=> members[r] \subseteq accepted[r] \cup {s}
  BY <1>1, <1>2, <1>4, LastReport
<1>7. /\ c2s' \in [Users -> Seq(ToServer)] /\ c2s'[s] = <<>>
      /\ \A d \in Users : d # s => c2s'[d] = c2s[d]
      /\ UNCHANGED <<scene, building, result, myRoom, myGame, shown, serverID, teams>>
  BY <1>1, <1>2, HandlesRest
<1>8. /\ accepted'[r] = accepted[r] \cup {s} /\ accepted'[r] \in SUBSET Users
      /\ \A q \in RoomIds : q # r => accepted'[q] = accepted[q]
  BY <1>2, <1>5 DEF TypeOK
<1>9. NoSecondStart'
  <2> SUFFICES ASSUME NEW q \in RoomIds, status'[q] = "INGAME",
                      ~(members'[q] \subseteq accepted'[q])
               PROVE  readycount'[q] + Cardinality(Pressing(q)') < Size(q)'
    BY DEF NoSecondStart
  <2>1. /\ members'[q] = members[q] /\ status'[q] = status[q]
        /\ readycount'[q] = readycount[q] /\ Size(q)' = Size(q)
    BY <1>5 DEF Size
  <2>2. ~(members[q] \subseteq accepted[q])
    BY <1>8, <2>1
  <2>3. readycount[q] + Cardinality(Pressing(q)) < Size(q)
    BY <1>2, <2>1, <2>2 DEF NoSecondStart
  <2>4. Pressing(q)' \in SUBSET Pressing(q)
    <3>1. \A d \in Users : PressOnWay(d)' => PressOnWay(d)
      BY <1>7 DEF PressOnWay
    <3>2. members[q] \in SUBSET Users
      BY <1>2 DEF TypeOK
    <3> QED
      BY <2>1, <3>1, <3>2 DEF Pressing
  <2>5. Pressing(q) \in SUBSET Users
    BY <1>2 DEF Pressing, TypeOK
  <2>6. /\ Cardinality(Pressing(q)') <= Cardinality(Pressing(q))
        /\ Cardinality(Pressing(q)') \in Nat /\ Cardinality(Pressing(q)) \in Nat
    BY <2>4, <2>5, CountSubset, SubsetOfUsers
  <2>7. readycount[q] \in Nat /\ Size(q) \in Nat
    BY <1>2, SubsetOfUsers DEF TypeOK, Byte, Size
  <2> QED
    BY <2>1, <2>3, <2>6, <2>7
<1>10. ASSUME NEW d \in Users, d \notin members[r], s2c'[d] = s2c[d] PROVE Knows(d)'
  <2>1. SameSlot(d)
    BY <1>5 DEF SameSlot
  <2>2. \A q \in RoomIds : d \in members[q] => SameRoom(d, q)
    BY <1>5, <1>8, <1>10 DEF SameRoom
  <2>3. SameClient(d)
    BY <1>1, <1>7, <1>10 DEF SameClient
  <2> QED
    BY <2>1, <2>2, <2>3, KnowsSame DEF SessionInv
<1>11. CASE AllLoaded(r)
  <2>1. PICK order \in InOrder(accepted'[r]) :
            SendTo([d \in members[r] |-> [i \in DOMAIN order |-> PutPacket(order[i])]])
    BY <1>3, <1>11 DEF HandleLoaded
  <2> DEFINE puts == [i \in DOMAIN order |-> PutPacket(order[i])]
             msgs == [d \in members[r] |-> puts]
  <2>2. puts \in Seq(ToClient) /\ \A i \in DOMAIN puts : puts[i].t = "PUT"
    BY <1>2, <1>8, PutsTyped
  <2>3. SendTo(msgs) /\ DOMAIN msgs = members[r] /\ \A d \in members[r] : msgs[d] = puts
    BY <2>1
  <2> HIDE DEF puts
  <2> HIDE DEF msgs
  <2>4. /\ s2c' \in [Users -> Seq(ToClient)]
        /\ \A d \in members[r] : s2c'[d] = s2c[d] \o puts
        /\ \A d \in Users : d \notin members[r] => s2c'[d] = s2c[d]
    <3>1. members[r] \in SUBSET Users
      BY <1>2 DEF TypeOK
    <3> QED
      BY <1>2, <2>2, <2>3, <3>1, SendTyped
  <2>5. status'[r] = "INGAME" /\ members'[r] \subseteq accepted'[r] /\ members'[r] = members[r]
    BY <1>4, <1>5, <1>6, <1>8, <1>11
  <2>6. Knows(s)'
    <3> DEFINE a == s2c[s]
               b == a \o puts
    <3>1. a \in Seq(ToClient) /\ s2c'[s] = b /\ \A i \in DOMAIN a : a[i].t = "READY"
      BY <1>1, <1>2, <2>4 DEF SessionTypeOK, Loading, Tidings
    <3> HIDE DEF a
    <3>2. \A k \in DOMAIN b : b[k].t \in {"READY", "PUT"}
      <4>1. /\ \A i \in DOMAIN a : b[i] = a[i]
            /\ \A i \in DOMAIN puts : b[Len(a) + i] = puts[i]
            /\ \A k \in DOMAIN b : k \in DOMAIN a \/ \E i \in DOMAIN puts : k = Len(a) + i
        BY <2>2, <3>1, MoreSent
      <4> HIDE DEF b
      <4> QED
        BY <2>2, <3>1, <4>1
    <3> HIDE DEF b
    <3>3. /\ Tidings(s, {"READY", "PUT", "RESULT"})' /\ ~Hears(s, "RESULT")'
          /\ \A i \in DOMAIN s2c'[s] : s2c'[s][i].t # "RESULT"
      BY <3>1, <3>2 DEF Tidings, Hears
    <3>4. /\ scene'[s] = "LOADING" /\ Copied(s, r)' /\ ~result'[s] /\ ~building'[s]
      BY <1>1, <1>5, <1>7 DEF Loading, Copied
    <3>5. InMatch(s, r)'
      BY <1>7, <2>5, <3>3, <3>4 DEF InMatch, Plays
    <3> QED
      BY <1>1, <1>5, <2>5, <3>5 DEF Knows, Stations
  <2>7. ASSUME NEW d \in members[r], d # s PROVE Knows(d)'
    <3>1. d \in Users /\ connect[d] /\ ~lobby[d] /\ Stations(d, r)
      BY MemberStation
    <3>2. Loads(d, r)
      <4>1. d \in accepted[r] /\ ~(members[r] \subseteq accepted[r])
        BY <1>1, <1>4, <1>6, <1>11, <2>7
      <4> QED
        BY <1>4, <3>1, <4>1 DEF Stations, Waiting, Starting, Loading, InMatch
    <3>3. Told(d, puts)
      BY <1>2, <1>5, <1>7, <2>2, <2>4, <2>7, <3>1 DEF Told, SessionTypeOK
    <3>4. InMatch(d, r)'
      BY <2>2, <2>5, <3>1, <3>2, <3>3, ToldPut
    <3> QED
      BY <1>5, <2>5, <3>1, <3>4 DEF Knows, Stations
  <2>8. SessionTypeOK'
    <3>1. over' \in SUBSET RoomIds
      BY <1>2 DEF SessionTypeOK
    <3> QED
      BY <1>2, <1>7, <2>4, <3>1, TypedIfTold
  <2> QED
    BY <1>4, <1>9, <1>10, <2>4, <2>6, <2>7, <2>8
<1>12. CASE ~AllLoaded(r)
  <2>1. UNCHANGED s2c
    BY <1>3, <1>12 DEF HandleLoaded
  <2>2. status'[r] = "INGAME" /\ ~(members'[r] \subseteq accepted'[r]) /\ members'[r] = members[r]
    BY <1>4, <1>5, <1>6, <1>8, <1>12
  <2>3. Knows(s)'
    <3>1. Loads(s, r)'
      BY <1>1, <1>5, <1>7, <1>8, <2>1, <2>2 DEF Loads, Loading, Copied, Tidings
    <3> QED
      BY <1>1, <1>5, <2>2, <3>1 DEF Knows, Stations
  <2>4. ASSUME NEW d \in members[r], d # s PROVE Knows(d)'
    <3>1. d \in Users
      BY MemberStation
    <3>2. SameSlot(d) /\ SameClient(d)
      BY <1>5, <1>7, <2>1, <2>4, <3>1 DEF SameSlot, SameClient
    <3>3. \A q \in RoomIds : d \in members[q] => SameRoom(d, q)
      <4>1. \A q \in RoomIds : d \in members[q] => q = r
        BY <1>2, <3>1 DEF OneRoom
      <4>2. SameRoom(d, r)
        BY <1>4, <1>5, <1>8, <2>2, <2>4, <1>1 DEF SameRoom
      <4> QED
        BY <4>1, <4>2
    <3> QED
      BY <3>1, <3>2, <3>3, KnowsSame DEF SessionInv
  <2>5. SessionTypeOK'
    <3>1. over' \in SUBSET RoomIds /\ s2c' \in [Users -> Seq(ToClient)]
      BY <1>2, <2>1 DEF SessionTypeOK
    <3> QED
      BY <1>2, <1>7, <3>1, TypedIfTold
  <2> QED
    BY <1>4, <1>9, <1>10, <2>1, <2>3, <2>4, <2>5
<1> QED
  BY <1>11, <1>12


\* Whoever confirms the table is in the lobby again.
LEMMA ConfirmStep ==
    ASSUME SessionInv, NEW s \in Users, Handles(s), Head(c2s[s]).t = "CONFIRM",
           HandleConfirm(s, Head(c2s[s]).r)
    PROVE  /\ SessionTypeOK' /\ (\A d \in Users : Knows(d)') /\ NoSecondStart'
           /\ \E r \in RoomIds : Confirm(s, r)
<1>1. PICK r \in RoomIds :
          /\ s \in members[r] /\ connect[s] /\ ~lobby[s] /\ Head(c2s[s]).r = r
          /\ InMatch(s, r) /\ AtTable(s, r) /\ scene[s] = "LOBBY"
          /\ Tail(c2s[s]) \in LobbyRequest \cup {<<>>}
  BY NextFromRoom DEF Handles
<1>2. SessionTypeOK /\ TypeOK /\ OneRoom /\ NoSecondStart
  BY DEF SessionInv, Base, Orderly
<1>3. /\ ResultConfirm(s, r) /\ UNCHANGED s2c
      /\ over' = IF members'[r] = {} THEN over \ {r} ELSE over
  BY <1>1 DEF HandleConfirm
<1>4. status[r] = "INGAME" /\ members[r] \subseteq accepted[r] /\ Confirm(s, r)
  BY <1>1, <1>3 DEF InMatch, Confirm, Handles
<1>5. /\ lobby' = [lobby EXCEPT ![s] = TRUE] /\ gameID' = [gameID EXCEPT ![s] = 0]
      /\ members' = [members EXCEPT ![r] = @ \ {s}] /\ UNCHANGED connect
  BY <1>3 DEF ResultConfirm, MembersWithout
<1>6. /\ members'[r] = members[r] \ {s}
      /\ members'[r] = {} => status'[r] = "EMPTY"
      /\ members'[r] # {} => status'[r] = status[r] /\ accepted'[r] = accepted[r]
      /\ \A q \in RoomIds : q # r =>
            /\ members'[q] = members[q] /\ status'[q] = status[q]
            /\ accepted'[q] = accepted[q] /\ readycount'[q] = readycount[q]
  BY <1>2, <1>3 DEF ResultConfirm, MembersWithout, TypeOK
<1>7. /\ c2s' \in [Users -> Seq(ToServer)] /\ c2s'[s] = Tail(c2s[s])
      /\ \A d \in Users : d # s => c2s'[d] = c2s[d]
      /\ UNCHANGED <<scene, building, result, myRoom, myGame, shown, serverID, teams>>
  BY <1>2, HandlesRest
<1>8. Knows(s)'
  <2>1. connect'[s] /\ lobby'[s]
    BY <1>1, <1>2, <1>5 DEF TypeOK
  <2>2. ~building[s] /\ ~result[s] /\ s2c[s] = <<>>
    BY <1>1 DEF InMatch, AtTable
  <2>3. c2s'[s] \in LobbyRequest' \cup {<<>>}
    BY <1>1, <1>7 DEF LobbyRequest
  <2>4. InLobby(s)'
    BY <1>1, <1>3, <1>7, <2>2, <2>3 DEF InLobby
  <2> QED
    BY <2>1, <2>4 DEF Knows
<1>9. ASSUME NEW d \in Users, d # s PROVE Knows(d)'
  <2>1. SameSlot(d)
    BY <1>2, <1>5, <1>9 DEF SameSlot, TypeOK
  <2>2. SameClient(d)
    BY <1>3, <1>7, <1>9 DEF SameClient
  <2>3. \A q \in RoomIds : d \in members[q] => SameRoom(d, q)
    <3> SUFFICES ASSUME NEW q \in RoomIds, d \in members[q] PROVE SameRoom(d, q)
      OBVIOUS
    <3>1. CASE q = r
      <4>1. d \in members'[r] /\ members'[r] # {}
        BY <1>6, <1>9, <3>1
      <4> QED
        BY <1>3, <1>4, <1>6, <3>1, <4>1 DEF SameRoom
    <3>2. CASE q # r
      BY <1>3, <1>6, <3>2 DEF SameRoom
    <3> QED
      BY <3>1, <3>2
  <2> QED
    BY <2>1, <2>2, <2>3, KnowsSame DEF SessionInv
<1>10. NoSecondStart'
  <2> SUFFICES ASSUME NEW q \in RoomIds, status'[q] = "INGAME",
                      ~(members'[q] \subseteq accepted'[q])
               PROVE  readycount'[q] + Cardinality(Pressing(q)') < Size(q)'
    BY DEF NoSecondStart
  <2>1. q # r
    BY <1>4, <1>6
  <2>2. /\ members'[q] = members[q] /\ status'[q] = status[q]
        /\ accepted'[q] = accepted[q] /\ readycount'[q] = readycount[q]
    BY <1>6, <2>1
  <2>3. \A d \in members[q] : d \in Users /\ d # s
    BY <1>1, <1>2, <2>1 DEF OneRoom, TypeOK
  <2>4. Pressing(q)' = Pressing(q)
    BY <1>7, <2>2, <2>3 DEF Pressing, PressOnWay
  <2> QED
    BY <1>2, <2>2, <2>4 DEF NoSecondStart, Size
<1>11. SessionTypeOK'
  <2>1. over' \in SUBSET RoomIds /\ s2c' \in [Users -> Seq(ToClient)]
    BY <1>2, <1>3 DEF SessionTypeOK
  <2> QED
    BY <1>2, <1>7, <2>1, TypedIfTold
<1> QED
  BY <1>4, <1>8, <1>9, <1>10, <1>11

-----------------------------------------------------------------------------
(* Every step.                                                             *)

\* The server's steps are steps of Rooms.
LEMMA ServeStep ==
    ASSUME SessionInv, NEW s \in Users, Serve(s)
    PROVE  /\ SessionTypeOK' /\ (\A d \in Users : Knows(d)') /\ NoSecondStart'
           /\ [Next]_vars
<1> DEFINE p == Head(c2s[s])
<1>1. Handles(s) /\ Served(s)
  BY DEF Serve, Handles
<1>2. SessionTypeOK /\ TypeOK /\ p \in ToServer
  BY <1>1, OneRead DEF SessionInv, Base, SessionTypeOK, Handles
<1>3. CASE p.t = "MAKE" /\ HandleMake(s) /\ UNCHANGED over
  <2>1. SessionTypeOK' /\ (\A d \in Users : Knows(d)') /\ NoSecondStart' /\ Make(s)
    BY <1>1, <1>3, MakeStep
  <2> QED
    BY <2>1 DEF Next
<1>4. connect[s] /\ p.t \in {"JOIN", "QUICK"} => lobby[s]
  BY <1>1, NextFromLobby DEF Handles
<1>5. ASSUME p.t \in {"JOIN", "QUICK"}, UNCHANGED over,
             \/ UNCHANGED vars /\ SendTo(Answer(s, FailPacket))
             \/ \E r \in RoomIds : status[r] = "JOINABLE" /\ Enter(s, r) /\ Joined(s, r)
      PROVE  SessionTypeOK' /\ (\A d \in Users : Knows(d)') /\ NoSecondStart'
  BY <1>1, <1>5, FailStep, EnterStep
<1>6. CASE p.t = "JOIN" /\ HandleJoin(s, p.r) /\ UNCHANGED over
  <2>1. PICK r \in RoomIds : r = p.r
    BY <1>2, <1>6 DEF ToServer
  <2>2. JoinRoom(s, r) /\ IF status[r] \in Refused THEN SendTo(Answer(s, FailPacket))
                                                   ELSE Joined(s, r)
    BY <1>6, <2>1 DEF HandleJoin
  <2>3. \/ UNCHANGED vars /\ SendTo(Answer(s, FailPacket))
        \/ status[r] = "JOINABLE" /\ Enter(s, r) /\ Joined(s, r)
    BY <1>2, <2>2 DEF JoinRoom, Refused, TypeOK, Status
  <2>4. Join(s, r)
    BY <1>1, <1>4, <1>6, <2>2 DEF Join, Served
  <2> QED
    BY <1>5, <1>6, <2>3, <2>4 DEF Next
<1>7. CASE p.t = "QUICK" /\ HandleQuick(s) /\ UNCHANGED over
  <2>1. QuickJoin(s) /\ IF Joinable = {} THEN SendTo(Answer(s, FailPacket))
                                         ELSE Joined(s, FirstRoom(Joinable))
    BY <1>7 DEF HandleQuick
  <2>2. Joinable # {} => FirstRoom(Joinable) \in Joinable
    BY FirstRoomFound DEF Joinable
  <2>3. \/ UNCHANGED vars /\ SendTo(Answer(s, FailPacket))
        \/ \E r \in RoomIds : status[r] = "JOINABLE" /\ Enter(s, r) /\ Joined(s, r)
    BY <2>1, <2>2 DEF QuickJoin, Joinable
  <2>4. Quick(s)
    BY <1>1, <1>4, <1>7, <2>1 DEF Quick, Served
  <2> QED
    BY <1>5, <1>7, <2>3, <2>4 DEF Next
<1>8. CASE p.t = "READY" /\ HandleReady(s, p.r) /\ UNCHANGED over
  BY <1>1, <1>8, ReadyStep DEF Next
<1>9. CASE p.t = "LOADED" /\ HandleLoaded(s, p.r) /\ UNCHANGED over
  BY <1>1, <1>9, LoadedStep DEF Next
<1>10. CASE p.t = "CONFIRM" /\ HandleConfirm(s, p.r)
  BY <1>1, <1>10, ConfirmStep DEF Next
<1> QED
  BY <1>3, <1>6, <1>7, <1>8, <1>9, <1>10 DEF Serve

LEMMA SessionStep ==
    ASSUME ~MayOverflow, SessionInv, [SessionNext]_sessionVars
    PROVE  SessionInv' /\ [Next]_vars
<1>1. SessionTypeOK /\ Base /\ Orderly /\ NoSecondStart /\ TypeOK
      /\ \A s \in Users : Knows(s)
  BY DEF SessionInv, Base
<1>2. SessionTypeOK' /\ (\A d \in Users : Knows(d)') /\ NoSecondStart' /\ [Next]_vars
  <2>1. CASE UNCHANGED sessionVars
    <3>1. UNCHANGED <<c2s, s2c, clientState, over, vars>>
      BY <2>1 DEF sessionVars
    <3>2. UNCHANGED <<scene, building, result, myRoom, myGame, shown, serverID, teams,
                      connect, lobby, gameID, status, members, accepted, readycount>>
      BY <3>1 DEF clientState, vars
    <3>3. SessionTypeOK'
      BY <1>1, <3>1, <3>2 DEF SessionTypeOK
    <3>4. NoSecondStart'
      BY <1>1, <3>1, <3>2 DEF NoSecondStart, Pressing, PressOnWay, Size
    <3>5. ASSUME NEW d \in Users PROVE Knows(d)'
      <4>1. SameClient(d) /\ SameSlot(d) /\ \A r \in RoomIds : d \in members[r] => SameRoom(d, r)
        BY <3>1, <3>2 DEF SameClient, SameSlot, SameRoom
      <4> QED
        BY <1>1, <4>1, KnowsSame
    <3> QED
      BY <3>1, <3>3, <3>4, <3>5
  <2>2. ASSUME NEW s \in Users, Connect(s)
        PROVE  SessionTypeOK' /\ (\A d \in Users : Knows(d)') /\ NoSecondStart' /\ [Next]_vars
    BY <2>2, ConnectStep DEF Next
  <2>3. ASSUME NEW s \in Users, Serve(s)
        PROVE  SessionTypeOK' /\ (\A d \in Users : Knows(d)') /\ NoSecondStart' /\ [Next]_vars
    BY <2>3, ServeStep
  <2>4. ASSUME NEW s \in Users, Receive(s)
        PROVE  SessionTypeOK' /\ (\A d \in Users : Knows(d)') /\ NoSecondStart' /\ [Next]_vars
    <3>1. SessionTypeOK' /\ UNCHANGED <<vars, c2s>> /\ (\A d \in Users : Knows(d)')
      BY <1>1, <2>4, ReceiveKnows, ReceiveTyped
    <3>2. UNCHANGED <<status, members, accepted, readycount>>
      BY <3>1 DEF vars
    <3>3. NoSecondStart'
      BY <1>1, <3>1, <3>2 DEF NoSecondStart, Pressing, PressOnWay, Size
    <3> QED
      BY <3>1, <3>3
  <2>5. ASSUME NEW s \in Users,
               \/ ClickMake(s) \/ ClickJoin(s) \/ ClickReady(s)
               \/ Build(s) \/ ShowEnding(s) \/ ClickConfirm(s)
        PROVE  SessionTypeOK' /\ (\A d \in Users : Knows(d)') /\ NoSecondStart' /\ [Next]_vars
    BY <2>5, ClickMakeStep, ClickJoinStep, ClickReadyStep, BuildStep, ShowEndingStep,
       ClickConfirmStep
  <2>6. ASSUME NEW r \in RoomIds, EndMatch(r)
        PROVE  SessionTypeOK' /\ (\A d \in Users : Knows(d)') /\ NoSecondStart' /\ [Next]_vars
    BY <2>6, EndMatchStep
  <2> QED
    BY <2>1, <2>2, <2>3, <2>4, <2>5, <2>6 DEF SessionNext
<1>3. Base' /\ Orderly'
  BY <1>1, <1>2, BaseStep, OrderlyStep, SessionAssumption
<1> QED
  BY <1>2, <1>3 DEF SessionInv


LEMMA SessionStart == SessionInit => SessionInv
<1> SUFFICES ASSUME SessionInit PROVE SessionInv
  OBVIOUS
<1>1. Base /\ Orderly
  <2>1. TypeOK
    BY RoomsAssumption DEF SessionInit, Init, TypeOK, Byte, Status, RoomIds
  <2>2. StatusMatchesMembers /\ RoomCapacity
    BY RoomsAssumption, FS_EmptySet DEF SessionInit, Init, StatusMatchesMembers, RoomCapacity, Size
  <2>3. Orderly
    BY DEF SessionInit, Init, Orderly, NobodyGone, OneRoom, EmptyIsReset, IdsBelowSize,
           DistinctGameIDs, ReadyBelowSize, LoadAccounting
  <2> QED
    BY <2>1, <2>2, <2>3 DEF Base
<1>2. SessionTypeOK
  <2>1. 0 \in Users
    BY RoomsAssumption DEF Users
  <2> QED
    BY <2>1 DEF SessionInit, SessionTypeOK, Scenes
<1>3. \A s \in Users : Knows(s)
  BY DEF SessionInit, Init, Knows
<1>4. NoSecondStart
  BY DEF SessionInit, Init, NoSecondStart
<1> QED
  BY <1>1, <1>2, <1>3, <1>4 DEF SessionInv

LEMMA SessionAlways == ~MayOverflow /\ SessionSpec => []SessionInv
<1>1. CASE ~MayOverflow
  <2>1. SessionInv /\ [SessionNext]_sessionVars => SessionInv'
    BY <1>1, SessionStep
  <2>2. SessionSpec => []SessionInv
    BY <2>1, SessionStart, PTL DEF SessionSpec
  <2> QED
    BY <2>2
<1> QED
  BY <1>1

\* Clients that wait for answers send the server nothing but what Rooms lets
\* them send, at the times it lets them: a lobby request only from the lobby,
\* a press of the ready button never so late that the count starts the game
\* again, one report after the loading, one confirmation after the match.
\* So everything proved of Rooms holds of a server with these clients.
THEOREM SessionImplementsRooms == ~MayOverflow /\ SessionSpec => Spec
<1>1. CASE ~MayOverflow
  <2>1. SessionInit => Init
    BY DEF SessionInit
  <2>2. SessionInv /\ [SessionNext]_sessionVars => [Next]_vars
    BY <1>1, SessionStep
  <2>3. SessionSpec => []SessionInv
    BY <1>1, SessionAlways
  <2> QED
    BY <2>1, <2>2, <2>3, PTL DEF SessionSpec, Spec
<1> QED
  BY <1>1

\* From the loading screen to the confirmation of the table, the room number
\* and the game id a client remembers are the server's.
THEOREM CopiesAlwaysAgree == ~MayOverflow /\ SessionSpec => []CopiesAgree
<1>1. SessionInv => CopiesAgree
  <2> SUFFICES ASSUME SessionInv, NEW s \in Users, scene[s] \in Playing
               PROVE  /\ myRoom[s] \in RoomIds /\ s \in members[myRoom[s]]
                      /\ myGame[s] = gameID[s]
    BY DEF CopiesAgree
  <2>1. Knows(s)
    BY DEF SessionInv
  <2>2. PICK r \in RoomIds : s \in members[r] /\ Stations(s, r)
    BY <2>1 DEF Knows, InLobby, Playing
  <2>3. ~Enters(s, r)
    BY DEF Enters, Joining, InRoom, Playing
  <2>4. Copied(s, r)
    BY <2>2, <2>3 DEF Stations, Waiting, Starting, Loading, Loads, InMatch
  <2> QED
    BY <2>2, <2>4 DEF Copied
<1> QED
  BY <1>1, SessionAlways, PTL

\* Nobody is in the game while a member of its room still has to hear of the
\* start or to build the scene.
THEOREM BarrierHolds == ~MayOverflow /\ SessionSpec => []LoadBarrier
<1>1. SessionInv => LoadBarrier
  <2> SUFFICES ASSUME SessionInv, NEW s \in Users, NEW r \in RoomIds,
                      s \in members[r], scene[s] = "GAME", NEW d \in members[r]
               PROVE  scene[d] # "ROOM" /\ ~building[d]
    BY DEF LoadBarrier
  <2>1. Stations(s, r)
    BY MemberStation
  <2>2. InMatch(s, r)
    BY <2>1 DEF Stations, Waiting, Starting, Enters, Joining, InRoom, Loading, Loads
  <2>3. status[r] = "INGAME" /\ members[r] \subseteq accepted[r] /\ d \in accepted[r]
    BY <2>2 DEF InMatch
  <2>4. Stations(d, r)
    BY MemberStation
  <2>5. InMatch(d, r)
    BY <2>3, <2>4 DEF Stations, Waiting, Starting, Loading, Loads
  <2> QED
    BY <2>5 DEF InMatch, Plays, AtTable
<1> QED
  BY <1>1, SessionAlways, PTL

-----------------------------------------------------------------------------
(* Calm players.  A click finds the whole network quiet, so what is on its *)
(* way belongs to the last click, to builds or to results of matches.      *)

\* s has sent something that is not the report of a loaded scene.
Asked(s) == \E i \in DOMAIN c2s[s] : c2s[s][i].t # "LOADED"
OneBurst ==
    \A s \in Users : Asked(s) =>
        \A d \in Users : Tidings(d, {"ID", "PUT", "RESULT"}) /\ (d # s => ~Asked(d))

\* The marks of the last room are gone before s is in the next one.
CalmPlayer(s) ==
    /\ ~connect[s] \/ lobby[s] \/ Hears(s, "JOINED") => shown[s] = {}
    /\ PressOnWay(s) => myGame[s] \in shown[s]

\* d shows itself ready, the server has counted it, and nothing comes that
\* takes the mark away.
Marked(d) == myGame[d] \in shown[d] /\ ~Hears(d, "ENTER") /\ ~PressOnWay(d)
MarkedIn(r) == {d \in members[r] : Marked(d)}

\* s has, or will be told, the server id of d.
WillHear(s, d) == \E i \in DOMAIN s2c[s] : s2c[s][i].t = "READY" /\ s2c[s][i].sid = d
KnowsOf(s, d) == serverID[s][gameID[d]] = d \/ WillHear(s, d)

\* What s will be told of ready members is right, and is told before the start.
RightNews(s, r) ==
    \A i \in DOMAIN s2c[s] : s2c[s][i].t = "READY" =>
        /\ s2c[s][i].sid \in members[r] /\ s2c[s][i].g = gameID[s2c[s][i].sid]
        /\ status[r] = "INGAME" =>
              \E j \in DOMAIN s2c[s] : i < j /\ s2c[s][j].t = "ALLREADY"

\* In a running game s has left behind all that belongs to the room scene.
Started(s, r) ==
    /\ ~PressOnWay(s) /\ ~Hears(s, "JOINED")
    /\ members[r] \subseteq accepted[r] => shown[s] = {} \/ Hears(s, "PUT")

\* Whom s must know: before the game who is marked, later everyone.
MustKnow(s, d, r) ==
    \/ status[r] = "INGAME" /\ scene[s] # "LOBBY"
    \/ status[r] # "INGAME" /\ Marked(d)

CalmMember(s, r) ==
    /\ gameID[s] \in Ids
    /\ RightNews(s, r)
    /\ status[r] = "INGAME" => Started(s, r)
    /\ \A d \in members[r] : d # s /\ MustKnow(s, d, r) => KnowsOf(s, d)

RightCount(r) ==
    status[r] \in {"JOINABLE", "FULL"} => readycount[r] = Cardinality(MarkedIn(r))
CalmRoom(r) == RightCount(r) /\ \A s \in members[r] : CalmMember(s, r)

CalmInv ==
    /\ OneBurst
    /\ \A s \in Users : CalmPlayer(s)
    /\ \A r \in RoomIds : CalmRoom(r)

-----------------------------------------------------------------------------
(* What a calm player or room does not notice.                             *)

LEMMA PressAsks == \A d : PressOnWay(d) => Asked(d)
  BY DEF PressOnWay, Asked

\* The stream to d at most grows, by packets that matter to no mark and to no
\* server id.
KeptStream(d) ==
    /\ \A i \in DOMAIN s2c[d] : i \in DOMAIN s2c'[d] /\ s2c'[d][i] = s2c[d][i]
    /\ \A i \in DOMAIN s2c'[d] :
          i \in DOMAIN s2c[d] \/ s2c'[d][i].t \in {"ID", "FAIL", "PUT", "RESULT"}

LEMMA KeptNews ==
    ASSUME NEW d, KeptStream(d)
    PROVE  /\ \A t : Hears(d, t) => Hears(d, t)'
           /\ \A t \in {"ENTER", "JOINED", "READY", "ALLREADY"} : Hears(d, t)' => Hears(d, t)
           /\ \A e : WillHear(d, e)' <=> WillHear(d, e)
<1>1. \A t : Hears(d, t) => Hears(d, t)'
  BY DEF KeptStream, Hears
<1>2. \A t \in {"ENTER", "JOINED", "READY", "ALLREADY"} : Hears(d, t)' => Hears(d, t)
  BY DEF KeptStream, Hears
<1>3. \A e : WillHear(d, e)' <=> WillHear(d, e)
  BY DEF KeptStream, WillHear
<1> QED
  BY <1>1, <1>2, <1>3

LEMMA PlayerKept ==
    ASSUME NEW d, CalmPlayer(d), connect[d] => connect'[d], lobby'[d] => lobby[d],
           Hears(d, "JOINED")' => Hears(d, "JOINED"),
           PressOnWay(d)' => PressOnWay(d),
           shown'[d] = shown[d], myGame'[d] = myGame[d]
    PROVE  CalmPlayer(d)'
  BY DEF CalmPlayer

\* A step after which d has to know nobody new
KeptMember(d, r) ==
    /\ KeptStream(d)
    /\ status[r] = "INGAME" => shown'[d] = shown[d] /\ (PressOnWay(d)' => PressOnWay(d))
    /\ \/ serverID'[d] = serverID[d] /\ (scene[d] = "LOBBY" => scene'[d] = "LOBBY")
       \/ status[r] = "INGAME" /\ scene'[d] = "LOBBY"

LEMMA MemberKept ==
    ASSUME NEW r \in RoomIds, NEW d \in members[r], CalmMember(d, r), KeptMember(d, r),
           d \in members'[r], status'[r] = status[r], members'[r] \subseteq members[r],
           members'[r] = members[r] \/ ~Hears(d, "READY"),
           \A e \in members[r] : e \in members'[r] => gameID'[e] = gameID[e],
           \A e \in members[r] : status[r] # "INGAME" /\ Marked(e)' => Marked(e),
           members'[r] \subseteq accepted'[r] =>
               members[r] \subseteq accepted[r] \/ Hears(d, "PUT")'
    PROVE  CalmMember(d, r)'
<1>1. KeptStream(d)
  BY DEF KeptMember
<1>2. gameID'[d] \in Ids'
  BY DEF CalmMember, Ids
<1>3. RightNews(d, r)'
  <2> SUFFICES ASSUME NEW i \in DOMAIN s2c'[d], s2c'[d][i].t = "READY"
               PROVE  /\ s2c'[d][i].sid \in members'[r]
                      /\ s2c'[d][i].g = gameID'[s2c'[d][i].sid]
                      /\ status'[r] = "INGAME" =>
                            \E j \in DOMAIN s2c'[d] : i < j /\ s2c'[d][j].t = "ALLREADY"
    BY DEF RightNews
  <2>1. i \in DOMAIN s2c[d] /\ s2c'[d][i] = s2c[d][i]
    BY <1>1 DEF KeptStream
  <2>2. members'[r] = members[r]
    BY <2>1 DEF Hears
  <2>3. /\ s2c[d][i].sid \in members[r] /\ s2c[d][i].g = gameID[s2c[d][i].sid]
        /\ status[r] = "INGAME" =>
              \E j \in DOMAIN s2c[d] : i < j /\ s2c[d][j].t = "ALLREADY"
    BY <2>1 DEF CalmMember, RightNews
  <2> QED
    BY <1>1, <2>1, <2>2, <2>3 DEF KeptStream
<1>4. status'[r] = "INGAME" => Started(d, r)'
  <2> SUFFICES ASSUME status[r] = "INGAME" PROVE Started(d, r)'
    OBVIOUS
  <2>1. Started(d, r) /\ shown'[d] = shown[d] /\ (PressOnWay(d)' => PressOnWay(d))
    BY DEF CalmMember, KeptMember
  <2>2. ~Hears(d, "JOINED")' /\ (Hears(d, "PUT") => Hears(d, "PUT")')
    BY <1>1, <2>1, KeptNews DEF Started
  <2> QED
    BY <2>1, <2>2 DEF Started
<1>5. ASSUME NEW e \in members'[r], e # d, MustKnow(d, e, r)' PROVE KnowsOf(d, e)'
  <2>1. e \in members[r] /\ gameID'[e] = gameID[e]
    BY <1>5
  <2>2. MustKnow(d, e, r) /\ serverID'[d] = serverID[d]
    BY <1>5, <2>1 DEF MustKnow, KeptMember
  <2>3. KnowsOf(d, e)
    BY <1>5, <2>1, <2>2 DEF CalmMember
  <2>4. WillHear(d, e) => WillHear(d, e)'
    BY <1>1, KeptNews
  <2> QED
    BY <2>1, <2>2, <2>3, <2>4 DEF KnowsOf
<1> QED
  BY <1>2, <1>3, <1>4, <1>5 DEF CalmMember

LEMMA CountKept ==
    ASSUME NEW r \in RoomIds, RightCount(r), members'[r] = members[r],
           status'[r] = status[r], readycount'[r] = readycount[r],
           \A e \in members[r] : status[r] # "INGAME" => (Marked(e)' <=> Marked(e))
    PROVE  RightCount(r)'
<1>1. CASE status[r] = "INGAME"
  BY <1>1 DEF RightCount
<1>2. CASE status[r] # "INGAME"
  <2>1. MarkedIn(r)' = MarkedIn(r)
    BY <1>2 DEF MarkedIn
  <2> QED
    BY <2>1 DEF RightCount
<1> QED
  BY <1>1, <1>2

LEMMA RoomKept ==
    ASSUME NEW r \in RoomIds, CalmRoom(r),
           members'[r] = members[r], status'[r] = status[r], readycount'[r] = readycount[r],
           \A e \in members[r] :
               /\ KeptMember(e, r) /\ gameID'[e] = gameID[e]
               /\ status[r] # "INGAME" => (Marked(e)' <=> Marked(e))
               /\ members'[r] \subseteq accepted'[r] =>
                      members[r] \subseteq accepted[r] \/ Hears(e, "PUT")'
    PROVE  CalmRoom(r)'
<1>1. RightCount(r)'
  BY CountKept DEF CalmRoom
<1>2. \A d \in members[r] : CalmMember(d, r)'
  BY MemberKept DEF CalmRoom
<1> QED
  BY <1>1, <1>2 DEF CalmRoom

\* Somebody far from what happens
Untouched(d) ==
    SameClient(d) /\ SameSlot(d) /\ shown'[d] = shown[d] /\ serverID'[d] = serverID[d]

LEMMA UntouchedKept ==
    ASSUME NEW d, Untouched(d)
    PROVE  /\ KeptStream(d) /\ (Marked(d)' <=> Marked(d)) /\ (PressOnWay(d)' <=> PressOnWay(d))
           /\ \A r : KeptMember(d, r)
           /\ CalmPlayer(d) => CalmPlayer(d)'
<1> USE DEF Untouched, SameClient, SameSlot
<1>1. KeptStream(d) /\ (PressOnWay(d)' <=> PressOnWay(d)) /\ \A t : Hears(d, t)' <=> Hears(d, t)
  BY DEF KeptStream, PressOnWay, Hears
<1>2. Marked(d)' <=> Marked(d)
  BY <1>1 DEF Marked
<1>3. \A r : KeptMember(d, r)
  BY <1>1 DEF KeptMember
<1>4. CalmPlayer(d) => CalmPlayer(d)'
  BY <1>1, PlayerKept
<1> QED
  BY <1>1, <1>2, <1>3, <1>4

LEMMA RoomUntouched ==
    ASSUME NEW r \in RoomIds, CalmRoom(r),
           members'[r] = members[r], status'[r] = status[r], readycount'[r] = readycount[r],
           accepted'[r] = accepted[r], \A e \in members[r] : Untouched(e)
    PROVE  CalmRoom(r)'
<1>1. \A e \in members[r] : /\ KeptMember(e, r) /\ gameID'[e] = gameID[e]
                            /\ Marked(e)' <=> Marked(e)
  BY UntouchedKept DEF Untouched, SameSlot
<1> QED
  BY <1>1, RoomKept

-----------------------------------------------------------------------------
(* The burst of a click.                                                   *)

\* Nobody asks for anything new.
LEMMA BurstKept ==
    ASSUME OneBurst, \A d \in Users : Asked(d)' => Asked(d),
           \A d \in Users : Tidings(d, {"ID", "PUT", "RESULT"})
                                => Tidings(d, {"ID", "PUT", "RESULT"})'
    PROVE  OneBurst'
  BY DEF OneBurst

\* The answer that ends a burst
LEMMA BurstOver ==
    ASSUME OneBurst, NEW s \in Users, Asked(s), ~Asked(s)',
           \A d \in Users : d # s => c2s'[d] = c2s[d]
    PROVE  /\ OneBurst'
           /\ \A d \in Users : ~Asked(d)' /\ Tidings(d, {"ID", "PUT", "RESULT"})
           /\ \A d \in Users : d # s => ~Asked(d)
<1>1. \A d \in Users : ~Asked(d)'
  BY DEF OneBurst, Asked
<1> QED
  BY <1>1 DEF OneBurst

\* A click
LEMMA BurstBegins ==
    ASSUME NEW s \in Users, \A d \in Users : Settled(d), UNCHANGED s2c,
           \A d \in Users : d # s => c2s'[d] = c2s[d]
    PROVE  OneBurst'
  BY DEF OneBurst, Settled, Tidings, Asked

\* A click, a build or a frame of s in no room, or one that its room survives
LEMMA OwnStep ==
    ASSUME SessionInv, CalmInv, NEW s \in Users, OneBurst',
           UNCHANGED <<connect, lobby, gameID, status, members, accepted, readycount>>,
           \A d \in Users : d # s => Untouched(d),
           CalmPlayer(s)',
           \A r \in RoomIds : s \in members[r] =>
               /\ KeptMember(s, r)
               /\ status[r] # "INGAME" => (Marked(s)' <=> Marked(s))
    PROVE  CalmInv'
<1>1. ASSUME NEW r \in RoomIds PROVE CalmRoom(r)'
  <2>1. CalmRoom(r) /\ \A e \in members[r] : e \in Users
    BY DEF CalmInv, SessionInv, Base, TypeOK
  <2>2. ASSUME NEW e \in members[r]
        PROVE  /\ KeptMember(e, r) /\ gameID'[e] = gameID[e]
               /\ status[r] # "INGAME" => (Marked(e)' <=> Marked(e))
    <3>1. CASE e = s
      BY <3>1
    <3>2. CASE e # s
      BY <2>1, <3>2, UntouchedKept
    <3> QED
      BY <3>1, <3>2
  <2> QED
    BY <2>1, <2>2, RoomKept
<1>2. \A d \in Users : CalmPlayer(d)'
  BY UntouchedKept DEF CalmInv
<1> QED
  BY <1>1, <1>2 DEF CalmInv

LEMMA CalmClick ==
    ASSUME Pace = "calm", NEW s \in Users, MayClick(s)
    PROVE  \A d \in Users : Settled(d)
  BY DEF MayClick

\* Sending nothing but lobby requests
LEMMA CalmMakeJoin ==
    ASSUME Pace = "calm", SessionInv, SessionInv', CalmInv, NEW s \in Users,
           ClickMake(s) \/ ClickJoin(s)
    PROVE  CalmInv'
<1>1. \A d \in Users : Settled(d)
  BY CalmClick DEF ClickMake, ClickJoin
<1>2. connect[s] /\ lobby[s] /\ SessionTypeOK
  BY <1>1, SettledStation DEF SessionInv, ClickMake, ClickJoin
<1>3. PICK ps : Sends(s, ps) /\ ps \in Seq(ToServer) /\ \A i \in DOMAIN ps : ps[i].t # "READY"
  <2>1. CASE ClickMake(s)
    <3> DEFINE p == [t |-> "MAKE"]
    <3>1. p \in ToServer /\ p.t = "MAKE"
      BY DEF ToServer
    <3>2. Sends(s, <<p>>)
      BY <2>1 DEF ClickMake
    <3> HIDE DEF p
    <3>3. <<p>> \in Seq(ToServer) /\ \A i \in DOMAIN <<p>> : <<p>>[i].t # "READY"
      BY <3>1
    <3> QED
      BY <3>2, <3>3
  <2>2. CASE ClickJoin(s)
    <3>1. PICK ps \in LobbyRequest : Sends(s, ps)
      BY <2>2 DEF ClickJoin
    <3>2. \A i \in DOMAIN ps : ps[i].t # "READY"
      BY DEF LobbyRequest
    <3> QED
      BY <3>1, <3>2, LobbyRequestTyped
  <2> QED
    BY <2>1, <2>2
<1>4. c2s'[s] = ps
  BY <1>1, <1>2, <1>3, NothingYet DEF Sends, Settled, SessionTypeOK
<1>5. /\ UNCHANGED <<s2c, connect, lobby, gameID, status, members, accepted, readycount>>
      /\ UNCHANGED <<shown, myGame, serverID>>
      /\ \A d \in Users : d # s => Untouched(d)
  <2>1. UNCHANGED <<vars, s2c, building, result, myRoom, myGame, shown, serverID>>
        /\ \A d \in Users : d # s => c2s'[d] = c2s[d] /\ scene'[d] = scene[d]
    BY <1>2, <1>3 DEF Sends, ClickMake, ClickJoin, clientState, SessionTypeOK
  <2>2. UNCHANGED <<connect, lobby, gameID, status, members, accepted, readycount>>
    BY <2>1 DEF vars
  <2> QED
    BY <2>1, <2>2 DEF Untouched, SameClient, SameSlot
<1>6. OneBurst'
  BY <1>1, <1>5, BurstBegins DEF Untouched, SameClient
<1>7. CalmPlayer(s)'
  <2>1. ~PressOnWay(s)'
    BY <1>3, <1>4 DEF PressOnWay
  <2> QED
    BY <1>5, <2>1, PlayerKept DEF CalmInv, Hears
<1>8. \A r \in RoomIds : s \notin members[r]
  BY <1>2 DEF SessionInv, Orderly, OneRoom
<1> QED
  BY <1>5, <1>6, <1>7, <1>8, OwnStep

\* The press marks the player who presses, but does not count before the
\* server has it.
LEMMA CalmReadyClick ==
    ASSUME Pace = "calm", SessionInv, SessionInv', CalmInv, NEW s \in Users, ClickReady(s)
    PROVE  CalmInv'
<1>1. \A d \in Users : Settled(d)
  BY CalmClick DEF ClickReady
<1>2. SessionTypeOK /\ Knows(s)
  BY DEF SessionInv
<1>3. PICK r \in RoomIds : s \in members[r] /\ Waiting(s, r) /\ InRoom(s, r) /\ connect[s] /\ ~lobby[s]
  BY <1>1, <1>2, SettledStation DEF ClickReady
<1> DEFINE p == [t |-> "READY", r |-> myRoom[s]]
<1>4. p \in ToServer /\ p.t = "READY"
  BY <1>3 DEF ToServer, InRoom, Copied
<1>5. Sends(s, <<p>>)
  BY DEF ClickReady
<1> HIDE DEF p
<1>6. <<p>> \in Seq(ToServer) /\ 1 \in DOMAIN <<p>> /\ <<p>>[1] = p
  BY <1>4
<1>7. c2s'[s] = <<p>>
  BY <1>1, <1>2, <1>5, <1>6, NothingYet DEF Sends, Settled, SessionTypeOK
<1>8. PressOnWay(s)'
  BY <1>4, <1>6, <1>7 DEF PressOnWay
<1>9. /\ UNCHANGED <<s2c, connect, lobby, gameID, status, members, accepted, readycount>>
      /\ UNCHANGED <<scene, myGame, serverID>>
      /\ \A d \in Users : d # s => Untouched(d)
      /\ myGame[s] \notin shown[s] /\ shown'[s] = shown[s] \cup {myGame[s]}
  <2>1. /\ UNCHANGED <<vars, s2c, scene, building, result, myRoom, myGame, serverID>>
        /\ \A d \in Users : d # s => c2s'[d] = c2s[d] /\ shown'[d] = shown[d]
        /\ myGame[s] \notin shown[s] /\ shown'[s] = shown[s] \cup {myGame[s]}
    BY <1>2, <1>5 DEF Sends, ClickReady, SessionTypeOK
  <2>2. UNCHANGED <<connect, lobby, gameID, status, members, accepted, readycount>>
    BY <2>1 DEF vars
  <2> QED
    BY <2>1, <2>2 DEF Untouched, SameClient, SameSlot
<1>10. OneBurst'
  BY <1>1, <1>9, BurstBegins DEF Untouched, SameClient
<1>11. CalmPlayer(s)'
  BY <1>3, <1>9 DEF CalmPlayer, InRoom, Hears
<1>12. ~Marked(s) /\ ~Marked(s)'
  BY <1>8, <1>9 DEF Marked
<1>13. \A q \in RoomIds : s \in members[q] => status[q] # "INGAME"
  BY <1>3 DEF SessionInv, Orderly, OneRoom, Waiting
<1>14. \A q \in RoomIds : s \in members[q] => KeptMember(s, q)
  BY <1>9, <1>13 DEF KeptMember, KeptStream
<1> QED
  BY <1>9, <1>10, <1>11, <1>12, <1>14, OwnStep

\* The report of a built scene asks for nothing.
LEMMA CalmBuild ==
    ASSUME SessionInv, SessionInv', CalmInv, NEW s \in Users, Build(s)
    PROVE  CalmInv'
<1>1. SessionTypeOK /\ SessionTypeOK'
  BY DEF SessionInv
<1> DEFINE p == [t |-> "LOADED", r |-> myRoom[s]]
<1>2. Sends(s, <<p>>) /\ building[s] /\ p.t = "LOADED"
  BY DEF Build
<1>3. p \in ToServer
  <2>1. Knows(s)
    BY DEF SessionInv
  <2>2. PICK r \in RoomIds : s \in members[r] /\ Stations(s, r)
    BY <1>2, <2>1 DEF Knows, InLobby
  <2>3. Loading(s, r)
    BY <1>2, <2>2 DEF Stations, Waiting, Starting, Enters, Loads, InMatch
  <2> QED
    BY <2>3 DEF ToServer, Loading, Copied
<1> HIDE DEF p
<1>4. <<p>> \in Seq(ToServer) /\ \A i \in DOMAIN <<p>> : <<p>>[i].t = "LOADED"
  BY <1>2, <1>3
<1>5. (PressOnWay(s)' <=> PressOnWay(s)) /\ (Asked(s)' => Asked(s))
  <2> DEFINE q == c2s[s]
             m == <<p>>
             c == q \o m
  <2>1. q \in Seq(ToServer) /\ c2s'[s] = c /\ m \in Seq(ToServer)
        /\ \A i \in DOMAIN m : m[i].t = "LOADED"
    BY <1>1, <1>2, <1>4 DEF Sends, SessionTypeOK
  <2> HIDE DEF q, m
  <2>2. /\ \A i \in DOMAIN q : i \in DOMAIN c /\ c[i] = q[i]
        /\ \A i \in DOMAIN m : c[Len(q) + i] = m[i]
        /\ \A k \in DOMAIN c : k \in DOMAIN q \/ \E i \in DOMAIN m : k = Len(q) + i
    BY <2>1, MoreSent
  <2> HIDE DEF c
  <2>3. \A k \in DOMAIN c : (k \in DOMAIN q /\ c[k] = q[k]) \/ c[k].t = "LOADED"
    BY <2>1, <2>2
  <2>4. (\E k \in DOMAIN c : c[k].t = "READY") <=> (\E k \in DOMAIN q : q[k].t = "READY")
    BY <2>2, <2>3
  <2>5. (\E k \in DOMAIN c : c[k].t # "LOADED") => (\E k \in DOMAIN q : q[k].t # "LOADED")
    BY <2>2, <2>3
  <2> QED
    BY <2>1, <2>4, <2>5 DEF PressOnWay, Asked, q
<1>6. /\ UNCHANGED <<s2c, connect, lobby, gameID, status, members, accepted, readycount>>
      /\ UNCHANGED <<scene, myGame, shown, serverID>>
      /\ \A d \in Users : d # s => Untouched(d)
  <2>1. /\ UNCHANGED <<vars, s2c, scene, result, myRoom, myGame, shown, serverID>>
        /\ \A d \in Users : d # s => c2s'[d] = c2s[d] /\ building'[d] = building[d]
    BY <1>1, <1>2 DEF Sends, Build, SessionTypeOK
  <2>2. UNCHANGED <<connect, lobby, gameID, status, members, accepted, readycount>>
    BY <2>1 DEF vars
  <2> QED
    BY <2>1, <2>2 DEF Untouched, SameClient, SameSlot
<1>7. OneBurst'
  <2>1. \A d \in Users : Asked(d)' => Asked(d)
    BY <1>5, <1>6 DEF Untouched, SameClient, Asked
  <2> QED
    BY <1>6, <2>1, BurstKept DEF CalmInv, Tidings
<1>8. CalmPlayer(s)'
  BY <1>5, <1>6, PlayerKept DEF CalmInv, Hears
<1>9. Marked(s)' <=> Marked(s)
  BY <1>5, <1>6 DEF Marked, Hears
<1>10. \A q \in RoomIds : KeptMember(s, q)
  BY <1>5, <1>6 DEF KeptMember, KeptStream
<1> QED
  BY <1>6, <1>7, <1>8, <1>9, <1>10, OwnStep

LEMMA CalmEnding ==
    ASSUME SessionInv, SessionInv', CalmInv, NEW s \in Users, ShowEnding(s)
    PROVE  CalmInv'
<1>1. /\ UNCHANGED <<c2s, s2c, connect, lobby, gameID, status, members, accepted, readycount>>
      /\ UNCHANGED <<myGame, shown, serverID>> /\ scene[s] = "GAME"
      /\ \A d \in Users : d # s => Untouched(d)
  <2>1. /\ UNCHANGED <<vars, c2s, s2c, building, myRoom, myGame, shown, serverID>>
        /\ \A d \in Users : d # s => result'[d] = result[d] /\ scene'[d] = scene[d]
        /\ scene[s] = "GAME"
    BY DEF ShowEnding, SessionInv, SessionTypeOK
  <2>2. UNCHANGED <<connect, lobby, gameID, status, members, accepted, readycount>>
    BY <2>1 DEF vars
  <2> QED
    BY <2>1, <2>2 DEF Untouched, SameClient, SameSlot
<1>2. OneBurst' /\ CalmPlayer(s)' /\ (Marked(s)' <=> Marked(s))
  BY <1>1, BurstKept, PlayerKept DEF CalmInv, Asked, Tidings, Hears, Marked, PressOnWay
<1>3. \A q \in RoomIds : KeptMember(s, q)
  BY <1>1 DEF KeptMember, KeptStream, PressOnWay
<1> QED
  BY <1>1, <1>2, <1>3, OwnStep

\* Who confirms the table needs to know nobody any more.
LEMMA CalmConfirmClick ==
    ASSUME Pace = "calm", SessionInv, SessionInv', CalmInv, NEW s \in Users, ClickConfirm(s)
    PROVE  CalmInv'
<1>1. \A d \in Users : Settled(d)
  BY CalmClick DEF ClickConfirm
<1>2. SessionTypeOK /\ Knows(s)
  BY DEF SessionInv
<1>3. PICK r \in RoomIds : s \in members[r] /\ InMatch(s, r) /\ connect[s] /\ ~lobby[s]
  BY <1>1, <1>2, SettledStation DEF ClickConfirm
<1>4. PICK ps \in {<<>>} \cup LobbyRequest : Sends(s, <<ConfirmClick(myRoom[s])>> \o ps)
  BY DEF ClickConfirm, ConfirmClick
<1>5. myRoom[s] = r
  BY <1>3 DEF InMatch, Copied
<1> DEFINE c == <<ConfirmClick(r)>> \o ps
<1>6. c \in Seq(ToServer) /\ Sends(s, c) /\ ps \in Seq(ToServer)
  BY <1>4, <1>5, ConfirmFirst
<1>7. \A i \in DOMAIN c : c[i].t # "READY"
  <2> DEFINE o == <<ConfirmClick(r)>>
  <2>1. o \in Seq(ToServer) /\ \A i \in DOMAIN o : o[i].t = "CONFIRM"
    BY DEF ConfirmClick, ToServer
  <2>2. \A i \in DOMAIN ps : ps[i].t # "READY"
    BY DEF LobbyRequest
  <2> HIDE DEF o
  <2>3. /\ \A i \in DOMAIN o : (o \o ps)[i] = o[i]
        /\ \A i \in DOMAIN ps : (o \o ps)[Len(o) + i] = ps[i]
        /\ \A k \in DOMAIN (o \o ps) : k \in DOMAIN o \/ \E i \in DOMAIN ps : k = Len(o) + i
    BY <1>6, <2>1, MoreSent
  <2>4. \A k \in DOMAIN (o \o ps) : (o \o ps)[k].t # "READY"
    BY <2>1, <2>2, <2>3
  <2> QED
    BY <2>4 DEF o
<1> HIDE DEF c
<1>8. c2s'[s] = c
  BY <1>1, <1>2, <1>6, NothingYet DEF Sends, Settled, SessionTypeOK
<1>9. ~PressOnWay(s)'
  BY <1>7, <1>8 DEF PressOnWay
<1>10. /\ UNCHANGED <<s2c, connect, lobby, gameID, status, members, accepted, readycount>>
       /\ UNCHANGED <<myGame, shown>> /\ scene'[s] = "LOBBY"
       /\ \A d \in Users : d # s => Untouched(d)
  <2>1. /\ UNCHANGED <<vars, s2c, building, result, myRoom, myGame, shown>>
        /\ scene'[s] = "LOBBY"
        /\ \A d \in Users : d # s => /\ c2s'[d] = c2s[d] /\ scene'[d] = scene[d]
                                     /\ serverID'[d] = serverID[d]
    BY <1>2, <1>6 DEF Sends, ClickConfirm, SessionTypeOK
  <2>2. UNCHANGED <<connect, lobby, gameID, status, members, accepted, readycount>>
    BY <2>1 DEF vars
  <2> QED
    BY <2>1, <2>2 DEF Untouched, SameClient, SameSlot
<1>11. OneBurst'
  BY <1>1, <1>10, BurstBegins DEF Untouched, SameClient
<1>12. CalmPlayer(s)'
  BY <1>9, <1>10, PlayerKept DEF CalmInv, Hears
<1>13. \A q \in RoomIds : s \in members[q] => status[q] = "INGAME"
  BY <1>3 DEF SessionInv, Orderly, OneRoom, InMatch
<1>14. \A q \in RoomIds : s \in members[q] => KeptMember(s, q)
  BY <1>9, <1>10, <1>13 DEF KeptMember, KeptStream
<1> QED
  BY <1>10, <1>11, <1>12, <1>13, <1>14, OwnStep

\* Only the rooms X notice the step.
LEMMA RoomStep ==
    ASSUME CalmInv, NEW X \in SUBSET RoomIds, OneBurst',
           \A d \in Users : CalmPlayer(d)', \A r \in X : CalmRoom(r)',
           \A r \in RoomIds \ X :
               /\ members'[r] = members[r] /\ status'[r] = status[r]
               /\ accepted'[r] = accepted[r] /\ readycount'[r] = readycount[r]
               /\ \A e \in members[r] : Untouched(e)
    PROVE  CalmInv'
<1>1. \A r \in RoomIds : CalmRoom(r)'
  BY RoomUntouched DEF CalmInv
<1> QED
  BY <1>1 DEF CalmInv

-----------------------------------------------------------------------------
(* Calm players: arrivals and results.                                     *)

LEMMA CalmConnect ==
    ASSUME SessionInv, SessionInv', CalmInv, NEW s \in Users, Connect(s)
    PROVE  CalmInv'
<1>1. SessionTypeOK /\ TypeOK /\ IDPacket \in ToClient /\ IDPacket.t = "ID"
      /\ <<IDPacket>> \in Seq(ToClient) /\ <<IDPacket>>[1] = IDPacket
  BY DEF SessionInv, Base, IDPacket, ToClient
<1>2. /\ UNCHANGED <<gameID, status, members, accepted, readycount, c2s, over, clientState>>
      /\ ~connect[s]
      /\ \A d \in Users : d # s => connect'[d] = connect[d] /\ lobby'[d] = lobby[d]
  BY <1>1 DEF Connect, Accept, roomVars, TypeOK
<1>3. s2c' = [d \in Users |-> IF d = s THEN s2c[d] \o <<IDPacket>> ELSE s2c[d]]
  BY DEF Connect, SendTo, Answer
<1>4. s2c'[s] = <<IDPacket>> /\ c2s'[s] = <<>>
  <2>1. s2c[s] = <<>> /\ c2s[s] = <<>>
    BY <1>2 DEF SessionInv, Knows
  <2> QED
    BY <1>1, <1>2, <1>3, <2>1, NothingYet
<1>5. \A d \in Users : d # s => Untouched(d)
  BY <1>2, <1>3 DEF Untouched, SameClient, SameSlot, clientState
<1>6. CalmPlayer(s)'
  <2>1. shown'[s] = {} /\ ~PressOnWay(s)'
    BY <1>2, <1>4 DEF CalmInv, CalmPlayer, clientState, PressOnWay
  <2> QED
    BY <2>1 DEF CalmPlayer
<1>7. OneBurst'
  <2>1. \A d \in Users : Asked(d)' => Asked(d)
    BY <1>2 DEF Asked
  <2>2. \A d \in Users : Tidings(d, {"ID", "PUT", "RESULT"})
                             => Tidings(d, {"ID", "PUT", "RESULT"})'
    BY <1>1, <1>3, <1>4 DEF Tidings
  <2> QED
    BY <2>1, <2>2, BurstKept DEF CalmInv
<1>8. \A d \in Users : CalmPlayer(d)'
  BY <1>5, <1>6, UntouchedKept DEF CalmInv
<1>9. \A r \in RoomIds : \A e \in members[r] : e \in Users /\ e # s
  BY <1>1, <1>2 DEF SessionInv, Orderly, NobodyGone, TypeOK
<1> QED
  <2>1. {} \in SUBSET RoomIds /\ \A r \in {} : CalmRoom(r)'
    OBVIOUS
  <2> QED
    BY <1>2, <1>5, <1>7, <1>8, <1>9, <2>1, RoomStep

\* Packets of a broadcast that matter to no mark and no server id
LEMMA ToldKept ==
    ASSUME NEW d, NEW m \in Seq(ToClient), s2c[d] \in Seq(ToClient), s2c'[d] = s2c[d] \o m,
           \A i \in DOMAIN m : m[i].t \in {"PUT", "RESULT"}
    PROVE  /\ KeptStream(d)
           /\ Tidings(d, {"ID", "PUT", "RESULT"}) => Tidings(d, {"ID", "PUT", "RESULT"})'
           /\ \A t : (\E i \in DOMAIN m : m[i].t = t) => Hears(d, t)'
<1> DEFINE q == s2c[d]
           c == q \o m
<1>1. q \in Seq(ToClient) /\ s2c'[d] = c
  OBVIOUS
<1> HIDE DEF q
<1>2. /\ \A i \in DOMAIN q : i \in DOMAIN c /\ c[i] = q[i]
      /\ \A i \in DOMAIN m : Len(q) + i \in DOMAIN c /\ c[Len(q) + i] = m[i]
      /\ \A k \in DOMAIN c : k \in DOMAIN q \/ \E i \in DOMAIN m : k = Len(q) + i
  BY <1>1, MoreSent
<1> HIDE DEF c
<1>3. KeptStream(d)
  BY <1>1, <1>2 DEF KeptStream, q
<1>4. Tidings(d, {"ID", "PUT", "RESULT"}) => Tidings(d, {"ID", "PUT", "RESULT"})'
  BY <1>1, <1>2 DEF Tidings, q
<1>5. \A t : (\E i \in DOMAIN m : m[i].t = t) => Hears(d, t)'
  BY <1>1, <1>2 DEF Hears
<1> QED
  BY <1>3, <1>4, <1>5

LEMMA CalmEndMatch ==
    ASSUME SessionInv, SessionInv', CalmInv, NEW r \in RoomIds, EndMatch(r)
    PROVE  CalmInv'
<1>1. SessionTypeOK /\ TypeOK /\ ResultPacket \in ToClient /\ ResultPacket.t = "RESULT"
  BY DEF SessionInv, Base, ResultPacket, ToClient
<1> DEFINE m == <<ResultPacket>>
<1>2. m \in Seq(ToClient) /\ \A i \in DOMAIN m : m[i].t \in {"PUT", "RESULT"}
  BY <1>1
<1>3. /\ UNCHANGED <<vars, c2s, clientState>> /\ status[r] = "INGAME"
      /\ UNCHANGED <<connect, lobby, gameID, status, members, accepted, readycount>>
  BY DEF EndMatch, vars, roomVars
<1>4. s2c' = [d \in Users |-> IF d \in members[r] THEN s2c[d] \o m ELSE s2c[d]]
  BY DEF EndMatch, SendTo
<1> HIDE DEF m
<1>5. \A d \in members[r] : d \in Users /\ s2c'[d] = s2c[d] \o m /\ s2c[d] \in Seq(ToClient)
  BY <1>1, <1>4 DEF TypeOK, SessionTypeOK
<1>6. ASSUME NEW d \in members[r]
      PROVE  /\ KeptStream(d) /\ (PressOnWay(d)' <=> PressOnWay(d)) /\ (Asked(d)' <=> Asked(d))
             /\ Tidings(d, {"ID", "PUT", "RESULT"}) => Tidings(d, {"ID", "PUT", "RESULT"})'
             /\ KeptMember(d, r) /\ CalmPlayer(d)'
  <2>1. KeptStream(d) /\ (Tidings(d, {"ID", "PUT", "RESULT"}) => Tidings(d, {"ID", "PUT", "RESULT"})')
    BY <1>2, <1>5, ToldKept
  <2>2. (PressOnWay(d)' <=> PressOnWay(d)) /\ (Asked(d)' <=> Asked(d))
    BY <1>3 DEF PressOnWay, Asked
  <2>3. KeptMember(d, r)
    BY <1>3, <2>1, <2>2 DEF KeptMember, clientState
  <2>4. Hears(d, "JOINED")' => Hears(d, "JOINED")
    BY <2>1, KeptNews
  <2>5. shown'[d] = shown[d] /\ myGame'[d] = myGame[d] /\ CalmPlayer(d)
    BY <1>3, <1>5 DEF clientState, CalmInv
  <2>6. CalmPlayer(d)'
    BY <1>3, <2>2, <2>4, <2>5, PlayerKept
  <2> QED
    BY <2>1, <2>2, <2>3, <2>6
<1>7. \A d \in Users : d \notin members[r] => Untouched(d)
  BY <1>3, <1>4 DEF Untouched, SameClient, SameSlot, clientState
<1>8. OneBurst'
  <2>1. \A d \in Users : Asked(d)' => Asked(d)
    BY <1>3 DEF Asked
  <2>2. \A d \in Users : Tidings(d, {"ID", "PUT", "RESULT"})
                             => Tidings(d, {"ID", "PUT", "RESULT"})'
    BY <1>6, <1>7 DEF Untouched, SameClient, Tidings
  <2> QED
    BY <2>1, <2>2, BurstKept DEF CalmInv
<1>9. \A d \in Users : CalmPlayer(d)'
  BY <1>6, <1>7, UntouchedKept DEF CalmInv
<1>10. CalmRoom(r)'
  BY <1>3, <1>6, RoomKept DEF CalmInv
<1>11. \A q \in RoomIds : q # r => \A e \in members[q] : Untouched(e)
  BY <1>1, <1>7 DEF SessionInv, Orderly, OneRoom, TypeOK
<1> QED
  <2>1. {r} \in SUBSET RoomIds /\ \A q \in {r} : CalmRoom(q)'
    BY <1>10
  <2> QED
    BY <1>3, <1>8, <1>9, <1>11, <2>1, RoomStep

-----------------------------------------------------------------------------
(* Calm players: a client reads a packet.                                  *)

\* What the packet does to marks and server ids
LEMMA ReceiveMarks ==
    ASSUME SessionTypeOK, NEW s \in Users, Receive(s), NEW p, p = Head(s2c[s])
    PROVE  /\ \A d \in Users : d # s => shown'[d] = shown[d] /\ serverID'[d] = serverID[d]
           /\ p.t \in {"ENTER", "PUT"} => shown'[s] = {}
           /\ p.t = "READY" /\ p.g # myGame[s] =>
                 /\ shown'[s] = shown[s] \cup {p.g}
                 /\ serverID'[s] = [serverID[s] EXCEPT ![p.g] = p.sid]
           /\ p.t = "READY" /\ p.g = myGame[s] => shown'[s] = shown[s]
           /\ p.t \notin {"ENTER", "PUT", "READY"} => shown'[s] = shown[s]
           /\ p.t # "READY" \/ p.g = myGame[s] => serverID'[s] = serverID[s]
<1> USE DEF Receives, SessionTypeOK
<1>1. CASE GotEnter(s)
  BY <1>1 DEF GotEnter, ShownAfterEnter
<1>2. CASE GotPut(s)
  BY <1>2 DEF GotPut
<1>3. CASE GotReady(s)
  <2>1. p.t = "READY"
    BY <1>3 DEF GotReady
  <2>2. CASE p.g = myGame[s]
    BY <1>3, <2>1, <2>2 DEF GotReady
  <2>3. CASE p.g # myGame[s]
    BY <1>3, <2>1, <2>3 DEF GotReady
  <2> QED
    BY <2>2, <2>3
<1>4. CASE GotID(s) \/ GotJoined(s) \/ GotFail(s) \/ GotAllReady(s) \/ GotResult(s)
  BY <1>4 DEF GotID, GotJoined, GotFail, GotAllReady, GotResult, clientState
<1> QED
  BY <1>1, <1>2, <1>3, <1>4 DEF Receive

\* The rest of the stream, seen from the stream before
LEMMA ReadShift ==
    ASSUME SessionTypeOK, NEW s \in Users, NEW p, Reads(s, p)
    PROVE  \A i \in DOMAIN s2c[s] :
               /\ i \in Nat
               /\ i = 1 \/ (i - 1 \in DOMAIN s2c'[s] /\ s2c'[s][i - 1] = s2c[s][i])
<1> DEFINE q == s2c[s]
           x == s2c'[s]
<1>1. /\ q \in Seq(ToClient) /\ x \in Seq(ToClient) /\ Len(x) = Len(q) - 1
      /\ \A i \in DOMAIN x : x[i] = q[i + 1]
  BY ReadStream
<1> HIDE DEF q, x
<1>2. DOMAIN q = 1 .. Len(q) /\ DOMAIN x = 1 .. Len(x) /\ Len(q) \in Nat
  BY <1>1, LenProperties
<1>3. ASSUME NEW i \in DOMAIN q PROVE i \in Nat /\ (i = 1 \/ (i - 1 \in DOMAIN x /\ x[i - 1] = q[i]))
  <2>1. i \in Nat /\ (i # 1 => i - 1 \in DOMAIN x /\ (i - 1) + 1 = i)
    BY <1>1, <1>2
  <2> QED
    BY <1>1, <2>1
<1> QED
  BY <1>3 DEF q, x

\* What the next packet of a member can be.
LEMMA NextOfMember ==
    ASSUME SessionInv, NEW r \in RoomIds, NEW s \in members[r], NEW p, Reads(s, p),
           CalmMember(s, r)
    PROVE  /\ p.t \in {"JOINED", "ENTER", "READY", "ALLREADY", "PUT", "RESULT"}
           /\ status[r] # "INGAME" => p.t \in {"JOINED", "ENTER", "READY"}
           /\ status[r] = "INGAME" => scene[s] # "LOBBY" /\ p.t # "JOINED"
           /\ status[r] = "INGAME" /\ members[r] \subseteq accepted[r] =>
                 p.t \in {"PUT", "RESULT"}
           /\ p.t # "JOINED" => Copied(s, r) /\ ~Hears(s, "JOINED")
<1>1. s \in Users /\ Stations(s, r) /\ SessionTypeOK
  BY MemberStation DEF SessionInv
<1>2. /\ s2c[s] # <<>> /\ 1 \in DOMAIN s2c[s] /\ p = s2c[s][1]
      /\ \A K : Tidings(s, K) => p.t \in K
      /\ Hears(s, p.t)
  BY <1>1, ReadStream DEF Reads, Hears
<1>3. status[r] = "INGAME" => ~Hears(s, "JOINED") /\ p.t # "JOINED"
  BY <1>2 DEF CalmMember, Started
<1>4. Enters(s, r) /\ p.t # "JOINED" => InRoom(s, r)
  BY <1>2 DEF Enters, Joining
<1>5. CASE Waiting(s, r)
  <2>1. p.t \in {"JOINED", "ENTER", "READY"} /\ status[r] # "INGAME"
    BY <1>2, <1>5 DEF Waiting
  <2>2. p.t # "JOINED" => Copied(s, r) /\ ~Hears(s, "JOINED")
    BY <1>4, <1>5 DEF Waiting, InRoom
  <2> QED
    BY <2>1, <2>2
<1>6. CASE Starting(s, r)
  <2>1. /\ p.t \in {"JOINED", "ENTER", "READY", "ALLREADY"} /\ status[r] = "INGAME"
        /\ ~(members[r] \subseteq accepted[r])
    BY <1>2, <1>6 DEF Starting
  <2>2. InRoom(s, r)
    BY <1>3, <1>4, <1>6 DEF Starting
  <2> QED
    BY <1>3, <2>1, <2>2 DEF InRoom
<1>7. CASE Loading(s, r) \/ Loads(s, r)
  BY <1>2, <1>3, <1>7 DEF Loading, Loads
<1>8. CASE InMatch(s, r)
  <2>1. p.t \in {"READY", "PUT", "RESULT"} /\ status[r] = "INGAME" /\ Copied(s, r)
    BY <1>2, <1>8 DEF InMatch
  <2>2. p.t # "READY"
    <3>1. ~Hears(s, "ALLREADY")
      BY <1>8 DEF InMatch, Tidings, Hears
    <3> QED
      BY <1>2, <2>1, <3>1 DEF CalmMember, RightNews, Hears
  <2>3. scene[s] # "LOBBY"
    BY <1>2, <1>8 DEF InMatch, Plays, AtTable
  <2> QED
    BY <1>3, <2>1, <2>2, <2>3
<1> QED
  BY <1>1, <1>5, <1>6, <1>7, <1>8 DEF Stations

LEMMA CalmRead ==
    ASSUME SessionInv, CalmInv, NEW r \in RoomIds, NEW s \in members[r], Receive(s)
    PROVE  CalmRoom(r)' /\ CalmPlayer(s)'
<1> DEFINE p == Head(s2c[s])
<1>1. /\ SessionTypeOK /\ TypeOK /\ DistinctGameIDs /\ s \in Users /\ connect[s] /\ ~lobby[s]
      /\ CalmRoom(r) /\ CalmMember(s, r) /\ CalmPlayer(s) /\ OneBurst
  BY MemberStation DEF SessionInv, Base, Orderly, CalmInv, CalmRoom
<1>2. Reads(s, p)
  BY <1>1, ReceiveReads
<1>3. /\ \A d \in Users : d # s => shown'[d] = shown[d] /\ serverID'[d] = serverID[d]
      /\ p.t \in {"ENTER", "PUT"} => shown'[s] = {}
      /\ p.t = "READY" /\ p.g # myGame[s] =>
            /\ shown'[s] = shown[s] \cup {p.g}
            /\ serverID'[s] = [serverID[s] EXCEPT ![p.g] = p.sid]
      /\ p.t = "READY" /\ p.g = myGame[s] => shown'[s] = shown[s]
      /\ p.t \notin {"ENTER", "PUT", "READY"} => shown'[s] = shown[s]
      /\ p.t # "READY" \/ p.g = myGame[s] => serverID'[s] = serverID[s]
  BY <1>1, ReceiveMarks
<1> HIDE DEF p
<1>4. /\ p.t \in {"JOINED", "ENTER", "READY", "ALLREADY", "PUT", "RESULT"}
      /\ status[r] # "INGAME" => p.t \in {"JOINED", "ENTER", "READY"}
      /\ status[r] = "INGAME" => scene[s] # "LOBBY" /\ p.t # "JOINED"
      /\ status[r] = "INGAME" /\ members[r] \subseteq accepted[r] => p.t \in {"PUT", "RESULT"}
      /\ p.t # "JOINED" => Copied(s, r) /\ ~Hears(s, "JOINED")
  BY <1>1, <1>2, NextOfMember
<1>5. /\ UNCHANGED <<connect, lobby, gameID, status, members, accepted, readycount, c2s>>
      /\ p.t # "JOINED" => myGame'[s] = myGame[s]
      /\ \A d \in Users : d # s => Untouched(d)
  BY <1>1, <1>2, <1>3, ReadRest DEF Untouched, SameSlot
<1>6. /\ 1 \in DOMAIN s2c[s] /\ p = s2c[s][1] /\ Hears(s, p.t)
      /\ \A i \in DOMAIN s2c'[s] : /\ i \in Nat /\ i >= 1
                                   /\ i + 1 \in DOMAIN s2c[s]
                                   /\ s2c'[s][i] = s2c[s][i + 1]
      /\ \A t : Hears(s, t)' => Hears(s, t)
      /\ \A t : Hears(s, t) /\ p.t # t => Hears(s, t)'
      /\ \A i \in DOMAIN s2c[s] :
            /\ i \in Nat
            /\ i = 1 \/ (i - 1 \in DOMAIN s2c'[s] /\ s2c'[s][i - 1] = s2c[s][i])
  <2>1. /\ 1 \in DOMAIN s2c[s] /\ p = s2c[s][1]
        /\ \A i \in DOMAIN s2c'[s] : /\ i \in Nat /\ i >= 1
                                     /\ i + 1 \in DOMAIN s2c[s]
                                     /\ s2c'[s][i] = s2c[s][i + 1]
        /\ \A t : Hears(s, t)' => Hears(s, t)
        /\ \A t : Hears(s, t) /\ p.t # t => Hears(s, t)'
    BY <1>1, <1>2, ReadStream
  <2>2. \A i \in DOMAIN s2c[s] :
            /\ i \in Nat
            /\ i = 1 \/ (i - 1 \in DOMAIN s2c'[s] /\ s2c'[s][i - 1] = s2c[s][i])
    BY <1>1, <1>2, ReadShift
  <2> QED
    BY <2>1, <2>2 DEF Hears
<1>7. (PressOnWay(s)' <=> PressOnWay(s)) /\ (PressOnWay(s) => p.t \in {"ID", "PUT", "RESULT"})
  <2>1. PressOnWay(s)' <=> PressOnWay(s)
    BY <1>5 DEF PressOnWay
  <2>2. PressOnWay(s) => p.t \in {"ID", "PUT", "RESULT"}
    BY <1>1, <1>6, PressAsks DEF OneBurst, Tidings
  <2> QED
    BY <2>1, <2>2
<1>8. p.t = "JOINED" => shown[s] = {} /\ shown'[s] = {}
  BY <1>1, <1>3, <1>6 DEF CalmPlayer
<1>9. status[r] # "INGAME" => (Marked(s)' <=> Marked(s))
  <2>1. CASE p.t = "JOINED"
    BY <1>8, <2>1 DEF Marked
  <2>2. CASE p.t = "ENTER"
    BY <1>3, <1>6, <2>2 DEF Marked
  <2>3. CASE p.t = "READY"
    <3>1. (myGame'[s] \in shown'[s]) <=> (myGame[s] \in shown[s])
      BY <1>3, <1>5, <2>3
    <3>2. Hears(s, "ENTER")' <=> Hears(s, "ENTER")
      BY <1>6, <2>3
    <3> QED
      BY <1>7, <3>1, <3>2 DEF Marked
  <2> QED
    BY <1>4, <2>1, <2>2, <2>3
<1>10. CalmPlayer(s)'
  <2>1. ~connect'[s] \/ lobby'[s] \/ Hears(s, "JOINED")' => shown'[s] = {}
    BY <1>1, <1>4, <1>5, <1>6, <1>8
  <2>2. PressOnWay(s)' => myGame'[s] \in shown'[s]
    <3> SUFFICES ASSUME PressOnWay(s) PROVE myGame'[s] \in shown'[s]
      BY <1>7
    <3>1. p.t \in {"PUT", "RESULT"}
      BY <1>4, <1>7
    <3>2. status[r] # "INGAME"
      BY <1>1 DEF CalmMember, Started
    <3> QED
      BY <1>4, <3>1, <3>2
  <2> QED
    BY <2>1, <2>2 DEF CalmPlayer
<1>11. RightNews(s, r)'
  <2> SUFFICES ASSUME NEW i \in DOMAIN s2c'[s], s2c'[s][i].t = "READY"
               PROVE  /\ s2c'[s][i].sid \in members'[r]
                      /\ s2c'[s][i].g = gameID'[s2c'[s][i].sid]
                      /\ status'[r] = "INGAME" =>
                            \E j \in DOMAIN s2c'[s] : i < j /\ s2c'[s][j].t = "ALLREADY"
    BY DEF RightNews
  <2>1. i \in Nat /\ i >= 1 /\ i + 1 \in DOMAIN s2c[s] /\ s2c'[s][i] = s2c[s][i + 1]
    BY <1>6
  <2>2. /\ s2c[s][i + 1].sid \in members[r] /\ s2c[s][i + 1].g = gameID[s2c[s][i + 1].sid]
        /\ status[r] = "INGAME" =>
              \E j \in DOMAIN s2c[s] : i + 1 < j /\ s2c[s][j].t = "ALLREADY"
    BY <1>1, <2>1 DEF CalmMember, RightNews
  <2>3. ASSUME status[r] = "INGAME"
        PROVE  \E j \in DOMAIN s2c'[s] : i < j /\ s2c'[s][j].t = "ALLREADY"
    <3>1. PICK j \in DOMAIN s2c[s] : i + 1 < j /\ s2c[s][j].t = "ALLREADY"
      BY <2>2, <2>3
    <3>2. j \in Nat /\ j # 1
      BY <1>6, <2>1, <3>1
    <3>3. j - 1 \in DOMAIN s2c'[s] /\ s2c'[s][j - 1] = s2c[s][j] /\ i < j - 1
      BY <1>6, <2>1, <3>1, <3>2
    <3> QED
      BY <3>1, <3>3
  <2> QED
    BY <1>5, <2>1, <2>2, <2>3
<1>12. status'[r] = "INGAME" => Started(s, r)'
  <2> SUFFICES ASSUME status[r] = "INGAME" PROVE Started(s, r)'
    BY <1>5
  <2>1. Started(s, r)
    BY <1>1 DEF CalmMember
  <2>2. ~PressOnWay(s)' /\ ~Hears(s, "JOINED")'
    BY <1>6, <1>7, <2>1 DEF Started
  <2>3. members[r] \subseteq accepted[r] => shown'[s] = {} \/ Hears(s, "PUT")'
    <3>1. p.t = "RESULT" /\ Hears(s, "PUT") => Hears(s, "PUT")'
      BY <1>6
    <3>2. p.t = "RESULT" => shown'[s] = shown[s]
      BY <1>3
    <3> QED
      BY <1>3, <1>4, <2>1, <3>1, <3>2 DEF Started
  <2> QED
    BY <1>5, <2>2, <2>3 DEF Started
<1>13. ASSUME NEW d \in members[r], d # s, MustKnow(s, d, r)' PROVE KnowsOf(s, d)'
  <2>1. d \in Users /\ Untouched(d) /\ gameID[d] \in Ids /\ gameID[d] # gameID[s]
    BY <1>1, <1>5, <1>13 DEF TypeOK, DistinctGameIDs, CalmRoom, CalmMember
  <2>2. MustKnow(s, d, r)
    BY <1>4, <1>5, <1>13, <2>1, UntouchedKept DEF MustKnow
  <2>3. KnowsOf(s, d)
    BY <1>1, <1>13, <2>2 DEF CalmMember
  <2>4. serverID[s] \in [Ids -> Users]
    BY <1>1 DEF SessionTypeOK
  <2>5. CASE p.t = "READY" /\ p.g # myGame[s]
    <3>1. p.sid \in members[r] /\ p.g = gameID[p.sid]
      BY <1>1, <1>6, <2>5 DEF CalmMember, RightNews
    <3>2. p.g \in Ids /\ serverID'[s] = [serverID[s] EXCEPT ![p.g] = p.sid]
      BY <1>1, <1>3, <2>5, <3>1 DEF CalmRoom, CalmMember
    <3>3. CASE p.sid = d
      BY <1>5, <2>1, <2>4, <3>1, <3>2, <3>3 DEF KnowsOf
    <3>4. CASE p.sid # d
      <4>1. gameID[d] # p.g
        BY <1>1, <3>1, <3>4 DEF DistinctGameIDs
      <4>2. CASE serverID[s][gameID[d]] = d
        BY <1>5, <2>1, <2>4, <3>2, <4>1, <4>2 DEF KnowsOf
      <4>3. CASE WillHear(s, d)
        BY <1>6, <3>4, <4>3 DEF WillHear, KnowsOf
      <4> QED
        BY <2>3, <4>2, <4>3 DEF KnowsOf
    <3> QED
      BY <3>3, <3>4
  <2>6. CASE p.t # "READY" \/ p.g = myGame[s]
    <3>1. serverID'[s] = serverID[s]
      BY <1>3, <2>6
    <3>2. ~(p.t = "READY" /\ p.sid = d)
      <4> SUFFICES ASSUME p.t = "READY", p.sid = d PROVE FALSE
        OBVIOUS
      <4>1. p.g = gameID[d]
        BY <1>1, <1>6 DEF CalmMember, RightNews
      <4> QED
        BY <1>4, <2>1, <2>6, <4>1 DEF Copied
    <3>3. WillHear(s, d) => WillHear(s, d)'
      BY <1>6, <3>2 DEF WillHear
    <3> QED
      BY <1>5, <2>3, <3>1, <3>3 DEF KnowsOf
  <2> QED
    BY <2>5, <2>6
<1>14. CalmMember(s, r)'
  <2>1. gameID'[s] \in Ids'
    BY <1>1, <1>5 DEF CalmMember, Ids
  <2> QED
    BY <1>5, <1>11, <1>12, <1>13, <2>1 DEF CalmMember
<1>15. ASSUME NEW e \in members[r], e # s
       PROVE  CalmMember(e, r)' /\ (Marked(e)' <=> Marked(e))
  <2>1. Untouched(e) /\ CalmMember(e, r)
    BY <1>1, <1>5, <1>15 DEF TypeOK, CalmRoom
  <2>2. KeptMember(e, r) /\ (Marked(e)' <=> Marked(e))
    BY <2>1, UntouchedKept
  <2>3. \A d \in members[r] : status[r] # "INGAME" /\ Marked(d)' => Marked(d)
    BY <1>1, <1>5, <1>9, UntouchedKept DEF TypeOK
  <2>4. CalmMember(e, r)'
    BY <1>5, <2>1, <2>2, <2>3, MemberKept
  <2> QED
    BY <2>2, <2>4
<1>16. RightCount(r)'
  <2>1. \A e \in members[r] : status[r] # "INGAME" => (Marked(e)' <=> Marked(e))
    BY <1>9, <1>15
  <2> QED
    BY <1>1, <1>5, <2>1, CountKept DEF CalmRoom
<1> QED
  BY <1>5, <1>10, <1>14, <1>15, <1>16 DEF CalmRoom

LEMMA CalmReceive ==
    ASSUME SessionInv, CalmInv, NEW s \in Users, Receive(s)
    PROVE  CalmInv'
<1> DEFINE p == Head(s2c[s])
<1>1. SessionTypeOK /\ TypeOK
  BY DEF SessionInv, Base
<1>2. Reads(s, p)
  BY <1>1, ReceiveReads
<1>3. /\ \A d \in Users : d # s => shown'[d] = shown[d] /\ serverID'[d] = serverID[d]
      /\ p.t \notin {"ENTER", "PUT", "READY"} => shown'[s] = shown[s]
  BY <1>1, ReceiveMarks
<1> HIDE DEF p
<1>4. /\ UNCHANGED <<connect, lobby, gameID, status, members, accepted, readycount, c2s>>
      /\ p.t # "JOINED" => myGame'[s] = myGame[s]
      /\ \A d \in Users : d # s => Untouched(d)
  BY <1>1, <1>2, <1>3, ReadRest DEF Untouched, SameSlot
<1>5. /\ \A K : Tidings(s, K) => p.t \in K /\ Tidings(s, K)'
      /\ \A t : Hears(s, t)' => Hears(s, t)
      /\ s2c[s] # <<>> /\ 1 \in DOMAIN s2c[s] /\ p = s2c[s][1]
  BY <1>1, <1>2, ReadStream DEF Reads
<1>6. OneBurst'
  <2>1. \A d \in Users : Asked(d)' => Asked(d)
    BY <1>4 DEF Asked
  <2>2. \A d \in Users : Tidings(d, {"ID", "PUT", "RESULT"})
                             => Tidings(d, {"ID", "PUT", "RESULT"})'
    BY <1>4, <1>5 DEF Untouched, SameClient, Tidings
  <2> QED
    BY <2>1, <2>2, BurstKept DEF CalmInv
<1>7. CASE \E r \in RoomIds : s \in members[r]
  <2>1. PICK r \in RoomIds : s \in members[r]
    BY <1>7
  <2>2. CalmRoom(r)' /\ CalmPlayer(s)'
    BY <2>1, CalmRead
  <2>3. \A d \in Users : CalmPlayer(d)'
    BY <1>4, <2>2, UntouchedKept DEF CalmInv
  <2>4. \A q \in RoomIds : q # r => \A e \in members[q] : Untouched(e)
    BY <1>1, <1>4, <2>1 DEF SessionInv, Orderly, OneRoom, TypeOK
  <2>5. {r} \in SUBSET RoomIds /\ \A q \in {r} : CalmRoom(q)'
    BY <2>2
  <2> QED
    BY <1>4, <1>6, <2>3, <2>4, <2>5, RoomStep
<1>8. CASE \A r \in RoomIds : s \notin members[r]
  <2>1. InLobby(s)
    BY <1>5, <1>8 DEF SessionInv, Knows
  <2>2. p.t \in {"ID", "FAIL"}
    <3>1. <<IDPacket>>[1].t = "ID" /\ <<FailPacket>>[1].t = "FAIL"
      BY DEF IDPacket, FailPacket
    <3> QED
      BY <1>5, <2>1, <3>1 DEF InLobby
  <2>3. CalmPlayer(s)'
    <3>1. PressOnWay(s)' => PressOnWay(s)
      BY <1>4 DEF PressOnWay
    <3> QED
      BY <1>3, <1>4, <1>5, <2>2, <3>1, PlayerKept DEF CalmInv
  <2>4. \A d \in Users : CalmPlayer(d)'
    BY <1>4, <2>3, UntouchedKept DEF CalmInv
  <2>5. \A q \in RoomIds : \A e \in members[q] : Untouched(e)
    BY <1>1, <1>4, <1>8 DEF TypeOK
  <2>6. {} \in SUBSET RoomIds /\ \A q \in {} : CalmRoom(q)'
    OBVIOUS
  <2> QED
    BY <1>4, <1>6, <2>4, <2>5, <2>6, RoomStep
<1> QED
  BY <1>7, <1>8

-----------------------------------------------------------------------------
(* Calm players: the server handles a packet.                              *)

\* The answer to a click: nothing else was on its way, and nothing but builds
\* is now.
LEMMA Answered ==
    ASSUME SessionInv, CalmInv, NEW s \in Users, Handles(s), Head(c2s[s]).t # "LOADED",
           Tail(c2s[s]) = <<>> \/ \E r \in RoomIds : Tail(c2s[s]) = <<LoadedReport(r)>>
    PROVE  /\ OneBurst'
           /\ \A d \in Users : ~PressOnWay(d)' /\ Tidings(d, {"ID", "PUT", "RESULT"})
           /\ \A d \in Users : d # s => ~PressOnWay(d)
<1>1. SessionTypeOK /\ OneBurst
  BY DEF SessionInv, CalmInv
<1>2. Asked(s)
  <2>1. 1 \in DOMAIN c2s[s] /\ Head(c2s[s]) = c2s[s][1]
    BY <1>1, OneRead DEF SessionTypeOK, Handles
  <2> QED
    BY <2>1 DEF Asked
<1>3. c2s'[s] = Tail(c2s[s]) /\ \A d \in Users : d # s => c2s'[d] = c2s[d]
  BY <1>1, HandlesRest
<1>4. ~Asked(s)'
  <2>1. \A r \in RoomIds : \A i \in DOMAIN <<LoadedReport(r)>> : <<LoadedReport(r)>>[i].t = "LOADED"
    BY DEF LoadedReport
  <2>2. CASE c2s'[s] = <<>>
    BY <2>2 DEF Asked
  <2>3. CASE \E r \in RoomIds : c2s'[s] = <<LoadedReport(r)>>
    <3>1. PICK r \in RoomIds : c2s'[s] = <<LoadedReport(r)>>
      BY <2>3
    <3>2. \A i \in DOMAIN c2s'[s] : c2s'[s][i].t = "LOADED"
      BY <2>1, <3>1
    <3> QED
      BY <3>2 DEF Asked
  <2> QED
    BY <1>3, <2>2, <2>3
<1>5. /\ OneBurst'
      /\ \A d \in Users : ~Asked(d)' /\ Tidings(d, {"ID", "PUT", "RESULT"})
      /\ \A d \in Users : d # s => ~Asked(d)
  BY <1>1, <1>2, <1>3, <1>4, BurstOver
<1>6. \A d \in Users : PressOnWay(d)' => Asked(d)'
  BY DEF PressOnWay, Asked
<1> QED
  BY <1>5, <1>6, PressAsks

\* What is left of the streams and the room when s has made room r
LEMMA MakesRoom ==
    ASSUME SessionInv, NEW s \in Users, Handles(s),
           Head(c2s[s]).t = "MAKE", HandleMake(s)
    PROVE  \E r \in RoomIds :
              /\ \A q \in RoomIds : s \notin members[q]
              /\ members'[r] = {s} /\ status'[r] = "JOINABLE" /\ readycount'[r] = 0
              /\ gameID'[s] = 0 /\ lobby[s]
              /\ \A i \in DOMAIN s2c'[s] : s2c'[s][i].t # "READY"
              /\ UNCHANGED <<shown, accepted>> /\ \A d \in Users : d # s => Untouched(d)
              /\ \A q \in RoomIds \ {r} : /\ members'[q] = members[q] /\ status'[q] = status[q]
                                          /\ readycount'[q] = readycount[q]
<1>1. connect[s] /\ lobby[s] /\ s2c[s] = <<>> /\ Tail(c2s[s]) = <<>>
  BY NextFromLobby DEF Handles
<1>2. SessionTypeOK /\ TypeOK /\ OneRoom /\ EmptyIsReset /\ StatusMatchesMembers
  BY DEF SessionInv, Base, Orderly
<1>3. EmptyRooms # {} /\ EmptyRooms \in SUBSET RoomIds
  BY <1>1, <1>2, RoomLeft DEF EmptyRooms
<1>4. PICK r \in RoomIds : r = FirstRoom(EmptyRooms) /\ members[r] = {}
  <2>1. FirstRoom(EmptyRooms) \in EmptyRooms
    BY <1>3, FirstRoomFound
  <2> QED
    BY <2>1 DEF EmptyRooms
<1>5. /\ roomNum' = r /\ gameID' = [gameID EXCEPT ![s] = 0]
      /\ lobby' = [lobby EXCEPT ![s] = FALSE]
      /\ status' = [status EXCEPT ![r] = "JOINABLE"]
      /\ members' = [members EXCEPT ![r] = @ \cup {s}]
      /\ UNCHANGED <<connect, accepted, readycount>>
  BY <1>3, <1>4 DEF HandleMake, MakeRoom
<1> DEFINE j == [t |-> "JOINED", r |-> r, g |-> 0]
<1>6. JoinedPacket(s, roomNum') = j /\ j \in ToClient /\ j.t = "JOINED"
  BY <1>2, <1>4, <1>5 DEF JoinedPacket, RoomTold, TypeOK, ToClient, Byte
<1>7. /\ SendTo(Answer(s, j)) /\ DOMAIN Answer(s, j) = {s} /\ Answer(s, j)[s] = <<j>>
      /\ <<j>> \in Seq(ToClient) /\ DOMAIN <<j>> = {1} /\ <<j>>[1] = j
  BY <1>6 DEF HandleMake, Answer
<1> HIDE DEF j
<1>8. s2c'[s] = <<j>> /\ \A d \in Users : d # s => s2c'[d] = s2c[d]
  <2>1. s2c'[s] = s2c[s] \o <<j>> /\ \A d \in Users : d # s => s2c'[d] = s2c[d]
    BY <1>2, <1>7, SendTyped
  <2> QED
    BY <1>1, <1>7, <2>1, NothingYet
<1>9. /\ \A d \in Users : d # s => c2s'[d] = c2s[d]
      /\ UNCHANGED <<scene, building, result, myRoom, myGame, shown, serverID>>
  BY <1>2, HandlesRest
<1>10. \A d \in Users : d # s => Untouched(d)
  BY <1>2, <1>5, <1>8, <1>9 DEF Untouched, SameClient, SameSlot, TypeOK
<1>11. members'[r] = {s} /\ status'[r] = "JOINABLE" /\ readycount'[r] = 0 /\ gameID'[s] = 0
  BY <1>2, <1>4, <1>5 DEF TypeOK, EmptyIsReset, StatusMatchesMembers
<1>12. \A i \in DOMAIN s2c'[s] : s2c'[s][i].t # "READY"
  BY <1>6, <1>7, <1>8
<1>13. \A q \in RoomIds \ {r} : /\ members'[q] = members[q] /\ status'[q] = status[q]
                                /\ readycount'[q] = readycount[q]
  BY <1>2, <1>5 DEF TypeOK
<1>14. \A q \in RoomIds : s \notin members[q]
  BY <1>1, <1>2 DEF OneRoom
<1> QED
  BY <1>1, <1>5, <1>9, <1>10, <1>11, <1>12, <1>13, <1>14

\* A new room has one member, who shows nobody ready.
LEMMA CalmMake ==
    ASSUME SessionInv, CalmInv, NEW s \in Users, Handles(s),
           Head(c2s[s]).t = "MAKE", HandleMake(s)
    PROVE  CalmInv'
<1>1. PICK r \in RoomIds :
          /\ \A q \in RoomIds : s \notin members[q]
          /\ members'[r] = {s} /\ status'[r] = "JOINABLE" /\ readycount'[r] = 0
          /\ gameID'[s] = 0 /\ lobby[s]
          /\ \A i \in DOMAIN s2c'[s] : s2c'[s][i].t # "READY"
          /\ UNCHANGED <<shown, accepted>> /\ \A d \in Users : d # s => Untouched(d)
          /\ \A q \in RoomIds \ {r} : /\ members'[q] = members[q] /\ status'[q] = status[q]
                                      /\ readycount'[q] = readycount[q]
  BY MakesRoom
<1>2. OneBurst' /\ ~PressOnWay(s)'
  <2>1. Tail(c2s[s]) = <<>>
    BY NextFromLobby DEF Handles
  <2> QED
    BY <2>1, Answered
<1>3. shown'[s] = {}
  BY <1>1 DEF CalmInv, CalmPlayer
<1>4. \A d \in Users : CalmPlayer(d)'
  <2>1. CalmPlayer(s)'
    BY <1>2, <1>3 DEF CalmPlayer
  <2> QED
    BY <1>1, <2>1, UntouchedKept DEF CalmInv
<1>5. CalmRoom(r)'
  <2>1. 0 \in Ids'
    BY RoomsAssumption DEF Ids
  <2>2. MarkedIn(r)' = {}
    BY <1>1, <1>3 DEF MarkedIn, Marked
  <2>3. RightCount(r)'
    BY <1>1, <2>2, FS_EmptySet DEF RightCount
  <2>4. RightNews(s, r)'
    BY <1>1 DEF RightNews
  <2>5. CalmMember(s, r)'
    BY <1>1, <2>1, <2>4 DEF CalmMember
  <2> QED
    BY <1>1, <2>3, <2>5 DEF CalmRoom
<1>6. \A q \in RoomIds : \A e \in members[q] : Untouched(e)
  BY <1>1 DEF SessionInv, Base, TypeOK
<1> QED
  <2>1. {r} \in SUBSET RoomIds /\ \A q \in {r} : CalmRoom(q)'
    BY <1>5
  <2> QED
    BY <1>1, <1>2, <1>4, <1>6, <2>1, RoomStep

LEMMA CalmFail ==
    ASSUME SessionInv, CalmInv, NEW s \in Users, Handles(s),
           Head(c2s[s]).t \in {"JOIN", "QUICK"}, UNCHANGED vars,
           SendTo(Answer(s, FailPacket))
    PROVE  CalmInv'
<1>1. connect[s] /\ lobby[s] /\ s2c[s] = <<>> /\ Tail(c2s[s]) = <<>>
  BY NextFromLobby DEF Handles
<1>2. SessionTypeOK /\ TypeOK /\ OneRoom
  BY DEF SessionInv, Base, Orderly
<1>3. /\ DOMAIN Answer(s, FailPacket) = {s} /\ Answer(s, FailPacket)[s] = <<FailPacket>>
      /\ <<FailPacket>> \in Seq(ToClient)
  BY DEF Answer, FailPacket, ToClient
<1>4. \A d \in Users : d # s => s2c'[d] = s2c[d]
  BY <1>2, <1>3, SendTyped
<1>5. /\ \A d \in Users : d # s => c2s'[d] = c2s[d]
      /\ UNCHANGED <<scene, building, result, myRoom, myGame, shown, serverID>>
      /\ UNCHANGED <<connect, lobby, gameID, status, members, accepted, readycount>>
  BY <1>2, HandlesRest DEF vars
<1>6. \A d \in Users : d # s => Untouched(d)
  BY <1>4, <1>5 DEF Untouched, SameClient, SameSlot
<1>7. OneBurst' /\ ~PressOnWay(s)'
  BY <1>1, Answered
<1>8. shown'[s] = {}
  BY <1>1, <1>5 DEF CalmInv, CalmPlayer
<1>9. \A d \in Users : CalmPlayer(d)'
  <2>1. CalmPlayer(s)'
    BY <1>7, <1>8 DEF CalmPlayer
  <2> QED
    BY <1>6, <2>1, UntouchedKept DEF CalmInv
<1>10. \A q \in RoomIds : \A e \in members[q] : Untouched(e)
  BY <1>1, <1>2, <1>6 DEF OneRoom, TypeOK
<1> QED
  <2>1. {} \in SUBSET RoomIds /\ \A q \in {} : CalmRoom(q)'
    OBVIOUS
  <2> QED
    BY <1>5, <1>7, <1>9, <1>10, <2>1, RoomStep

\* What every stream and the room is like when s has entered room r
LEMMA EntersRoom ==
    ASSUME SessionInv, NEW s \in Users, Handles(s),
           Head(c2s[s]).t \in {"JOIN", "QUICK"}, NEW r \in RoomIds,
           status[r] = "JOINABLE", Enter(s, r), Joined(s, r)
    PROVE  /\ connect[s] /\ lobby[s] /\ \A q \in RoomIds : s \notin members[q]
           /\ members' = [members EXCEPT ![r] = @ \cup {s}]
           /\ members'[r] = members[r] \cup {s} /\ members[r] \subseteq Users
           /\ lobby' = [lobby EXCEPT ![s] = FALSE]
           /\ \A d \in Users : d # s => gameID'[d] = gameID[d] /\ c2s'[d] = c2s[d]
           /\ status'[r] \in {"JOINABLE", "FULL"} /\ readycount'[r] = 0
           /\ \A q \in RoomIds : q # r => status'[q] = status[q] /\ readycount'[q] = readycount[q]
           /\ UNCHANGED <<connect, accepted>> /\ c2s'[s] = <<>>
           /\ UNCHANGED <<scene, building, result, myRoom, myGame, shown, serverID>>
           /\ \A k \in DOMAIN s2c'[s] : s2c'[s][k].t \in {"JOINED", "ENTER"}
           /\ \A d \in members[r] :
                 /\ Hears(d, "ENTER")'
                 /\ \A i \in DOMAIN s2c'[d] :
                       \/ s2c'[d][i].t = "ENTER"
                       \/ i \in DOMAIN s2c[d] /\ s2c'[d][i] = s2c[d][i]
           /\ \A d \in Users : d # s /\ d \notin members[r] => Untouched(d)
<1>1. connect[s] /\ lobby[s] /\ s2c[s] = <<>> /\ Tail(c2s[s]) = <<>>
  BY NextFromLobby DEF Handles
<1>2. SessionTypeOK /\ TypeOK /\ OneRoom /\ \A q \in RoomIds : s \notin members[q]
  BY <1>1 DEF SessionInv, Base, Orderly, OneRoom
<1>3. /\ members' = [members EXCEPT ![r] = @ \cup {s}]
      /\ lobby' = [lobby EXCEPT ![s] = FALSE]
      /\ gameID'[s] \in Byte /\ \A d \in Users : d # s => gameID'[d] = gameID[d]
      /\ status'[r] \in {"JOINABLE", "FULL"} /\ readycount'[r] = 0
      /\ \A q \in RoomIds : q # r => status'[q] = status[q] /\ readycount'[q] = readycount[q]
      /\ UNCHANGED <<connect, accepted>>
  <2>1. NewGameID(Cardinality(members[r] \cup {s})) \in Byte
    <3>1. Cardinality(members[r] \cup {s}) \in Nat
      BY <1>2, SubsetOfUsers DEF TypeOK
    <3> QED
      BY <3>1 DEF NewGameID, Byte
  <2> QED
    BY <1>2, <2>1 DEF Enter, EnteredStatus, TypeOK
<1> DEFINE j == [t |-> "JOINED", r |-> r, g |-> gameID'[s]]
           n == Cardinality(members'[r] \ {s})
           enters == [i \in 1 .. n |-> EnterPacket]
           first == <<j>> \o enters
<1>4. JoinedPacket(s, r) = j /\ j \in ToClient /\ j.t = "JOINED"
  BY <1>3 DEF JoinedPacket, RoomTold, ToClient
<1>5. /\ EnterPacket \in ToClient /\ EnterPacket.t = "ENTER"
      /\ <<EnterPacket>> \in Seq(ToClient) /\ DOMAIN <<EnterPacket>> = {1}
      /\ <<EnterPacket>>[1] = EnterPacket
  BY DEF EnterPacket, ToClient
<1>6. enters \in Seq(ToClient) /\ \A i \in DOMAIN enters : enters[i].t = "ENTER"
  <2>1. n \in Nat
    <3>1. members'[r] \ {s} \in SUBSET Users
      BY <1>2, <1>3 DEF TypeOK
    <3> QED
      BY <3>1, SubsetOfUsers
  <2> HIDE DEF n
  <2>2. enters \in Seq(ToClient)
    BY <1>5, <2>1, IsASeq
  <2>3. \A i \in DOMAIN enters : enters[i] = EnterPacket
    OBVIOUS
  <2> QED
    BY <1>5, <2>2, <2>3
<1>7. first \in Seq(ToClient) /\ \A k \in DOMAIN first : first[k].t \in {"JOINED", "ENTER"}
  <2> DEFINE o == <<j>>
  <2>1. o \in Seq(ToClient) /\ \A i \in DOMAIN o : o[i].t = "JOINED"
    BY <1>4
  <2> HIDE DEF o, j, enters
  <2>2. /\ o \o enters \in Seq(ToClient)
        /\ \A i \in DOMAIN o : (o \o enters)[i] = o[i]
        /\ \A i \in DOMAIN enters : (o \o enters)[Len(o) + i] = enters[i]
        /\ \A k \in DOMAIN (o \o enters) :
              k \in DOMAIN o \/ \E i \in DOMAIN enters : k = Len(o) + i
    BY <1>6, <2>1, MoreSent
  <2>3. \A k \in DOMAIN (o \o enters) : (o \o enters)[k].t \in {"JOINED", "ENTER"}
    BY <1>6, <2>1, <2>2
  <2> QED
    BY <2>2, <2>3 DEF o
<1> HIDE DEF first, enters, j, n
<1> DEFINE msgs == [d \in members'[r] |-> IF d = s THEN first ELSE <<EnterPacket>>]
<1>8. SendTo(msgs)
  BY <1>4 DEF Joined, first, enters, n, j
<1>9. \A d \in DOMAIN msgs : msgs[d] \in Seq(ToClient)
  BY <1>5, <1>7
<1>10. members'[r] = members[r] \cup {s} /\ members[r] \subseteq Users
  BY <1>2, <1>3 DEF TypeOK
<1>11. \A d \in Users : s2c'[d] = IF d \in DOMAIN msgs THEN s2c[d] \o msgs[d] ELSE s2c[d]
  BY <1>2, <1>8, <1>9, SendTyped
<1>12. /\ s2c'[s] = s2c[s] \o first
       /\ \A d \in members[r] : s2c'[d] = s2c[d] \o <<EnterPacket>>
       /\ \A d \in Users : d # s /\ d \notin members[r] => s2c'[d] = s2c[d]
  BY <1>2, <1>10, <1>11
<1>13. s2c'[s] = first
  BY <1>1, <1>7, <1>12, NothingYet
<1> HIDE DEF msgs
<1>14. /\ c2s'[s] = <<>> /\ \A d \in Users : d # s => c2s'[d] = c2s[d]
       /\ UNCHANGED <<scene, building, result, myRoom, myGame, shown, serverID>>
  BY <1>1, <1>2, HandlesRest
<1>15. ASSUME NEW d \in members[r]
       PROVE  /\ Hears(d, "ENTER")'
              /\ \A i \in DOMAIN s2c'[d] :
                    s2c'[d][i].t = "ENTER" \/ (i \in DOMAIN s2c[d] /\ s2c'[d][i] = s2c[d][i])
  <2> DEFINE q == s2c[d]
             m == <<EnterPacket>>
             c == q \o m
  <2>1. /\ q \in Seq(ToClient) /\ m \in Seq(ToClient) /\ s2c'[d] = c
        /\ 1 \in DOMAIN m /\ \A i \in DOMAIN m : m[i].t = "ENTER"
    BY <1>2, <1>5, <1>10, <1>12 DEF SessionTypeOK
  <2> HIDE DEF q, m
  <2>2. /\ \A i \in DOMAIN q : c[i] = q[i]
        /\ \A i \in DOMAIN m : Len(q) + i \in DOMAIN c /\ c[Len(q) + i] = m[i]
        /\ \A k \in DOMAIN c : k \in DOMAIN q \/ \E i \in DOMAIN m : k = Len(q) + i
    BY <2>1, MoreSent
  <2> HIDE DEF c
  <2> QED
    BY <2>1, <2>2 DEF Hears, q
<1>16. \A d \in Users : d # s /\ d \notin members[r] => Untouched(d)
  BY <1>2, <1>3, <1>12, <1>14 DEF Untouched, SameClient, SameSlot, TypeOK
<1>17. \A k \in DOMAIN s2c'[s] : s2c'[s][k].t \in {"JOINED", "ENTER"}
  BY <1>7, <1>13
<1> QED
  BY <1>1, <1>2, <1>3, <1>10, <1>14, <1>15, <1>16, <1>17

\* The newcomer shows nobody ready, everyone else is about to clear the marks,
\* and the count starts again at 0.
LEMMA CalmEnter ==
    ASSUME SessionInv, SessionInv', CalmInv, NEW s \in Users, Handles(s),
           Head(c2s[s]).t \in {"JOIN", "QUICK"}, NEW r \in RoomIds,
           status[r] = "JOINABLE", Enter(s, r), Joined(s, r)
    PROVE  CalmInv'
<1>1. /\ connect[s] /\ lobby[s] /\ \A q \in RoomIds : s \notin members[q]
      /\ members' = [members EXCEPT ![r] = @ \cup {s}]
      /\ members'[r] = members[r] \cup {s} /\ members[r] \subseteq Users
      /\ lobby' = [lobby EXCEPT ![s] = FALSE]
      /\ \A d \in Users : d # s => gameID'[d] = gameID[d] /\ c2s'[d] = c2s[d]
      /\ status'[r] \in {"JOINABLE", "FULL"} /\ readycount'[r] = 0
      /\ \A q \in RoomIds : q # r => status'[q] = status[q] /\ readycount'[q] = readycount[q]
      /\ UNCHANGED <<connect, accepted>> /\ c2s'[s] = <<>>
      /\ UNCHANGED <<scene, building, result, myRoom, myGame, shown, serverID>>
      /\ \A k \in DOMAIN s2c'[s] : s2c'[s][k].t \in {"JOINED", "ENTER"}
      /\ \A d \in members[r] :
            /\ Hears(d, "ENTER")'
            /\ \A i \in DOMAIN s2c'[d] :
                  \/ s2c'[d][i].t = "ENTER"
                  \/ i \in DOMAIN s2c[d] /\ s2c'[d][i] = s2c[d][i]
      /\ \A d \in Users : d # s /\ d \notin members[r] => Untouched(d)
  BY EntersRoom
<1>2. SessionTypeOK /\ TypeOK /\ OneRoom
  BY DEF SessionInv, Base, Orderly
<1>3. /\ OneBurst'
      /\ \A d \in Users : ~PressOnWay(d)' /\ Tidings(d, {"ID", "PUT", "RESULT"})
      /\ \A d \in Users : d # s => ~PressOnWay(d)
  <2>1. Tail(c2s[s]) = <<>>
    BY NextFromLobby DEF Handles
  <2> QED
    BY <2>1, Answered
<1>4. ASSUME NEW d \in members[r]
      PROVE  \A i \in DOMAIN s2c'[d] : s2c'[d][i].t \in {"ID", "PUT", "RESULT", "ENTER"}
  BY <1>1, <1>3 DEF Tidings
<1>5. shown'[s] = {}
  BY <1>1 DEF CalmInv, CalmPlayer
<1>6. \A d \in Users : CalmPlayer(d)'
  <2>1. CalmPlayer(s)'
    BY <1>3, <1>5 DEF CalmPlayer
  <2>2. ASSUME NEW d \in members[r] PROVE CalmPlayer(d)'
    <3>1. d \in Users /\ d # s /\ connect'[d] = connect[d] /\ lobby'[d] = lobby[d]
          /\ shown'[d] = shown[d] /\ myGame'[d] = myGame[d] /\ CalmPlayer(d)
      BY <1>1, <1>2 DEF TypeOK, CalmInv
    <3>2. ~Hears(d, "JOINED")' /\ ~PressOnWay(d)'
      BY <1>3, <1>4, <3>1 DEF Hears
    <3> QED
      BY <3>1, <3>2, PlayerKept
  <2> QED
    BY <1>1, <2>1, <2>2, UntouchedKept DEF CalmInv
<1>7. CalmRoom(r)'
  <2>1. \A d \in members'[r] : ~Marked(d)'
    BY <1>1, <1>4, <1>5 DEF Marked
  <2>2. RightCount(r)'
    <3>1. MarkedIn(r)' = {}
      BY <2>1 DEF MarkedIn
    <3> QED
      BY <1>1, <3>1, FS_EmptySet DEF RightCount
  <2>3. ASSUME NEW d \in members'[r] PROVE CalmMember(d, r)'
    <3>1. gameID'[d] \in Ids'
      <4>1. gameID'[d] < Size(r)' /\ Size(r)' <= MaxGamer /\ gameID' \in [Users -> Byte]
        BY <1>1, <2>3 DEF SessionInv, Base, Orderly, IdsBelowSize, RoomCapacity, TypeOK
      <4>2. d \in Users /\ members'[r] \in SUBSET Users
        BY <1>1, <2>3
      <4>3. Size(r)' \in Nat
        BY <4>2, SubsetOfUsers DEF Size
      <4> QED
        BY <4>1, <4>2, <4>3, RoomsAssumption DEF Byte, Ids
    <3>2. \A i \in DOMAIN s2c'[d] : s2c'[d][i].t # "READY"
      BY <1>1, <1>4, <2>3
    <3>3. RightNews(d, r)'
      BY <3>2 DEF RightNews
    <3>4. \A e \in members'[r] : ~MustKnow(d, e, r)'
      BY <1>1, <2>1 DEF MustKnow
    <3> QED
      BY <1>1, <3>1, <3>3, <3>4 DEF CalmMember
  <2> QED
    BY <2>2, <2>3 DEF CalmRoom
<1>8. \A q \in RoomIds \ {r} :
           /\ members'[q] = members[q] /\ status'[q] = status[q]
           /\ accepted'[q] = accepted[q] /\ readycount'[q] = readycount[q]
           /\ \A e \in members[q] : Untouched(e)
  <2>1. \A q \in RoomIds \ {r} : \A e \in members[q] : e \in Users /\ e # s /\ e \notin members[r]
    BY <1>1, <1>2 DEF OneRoom, TypeOK
  <2> QED
    BY <1>1, <1>2, <2>1 DEF TypeOK
<1> QED
  <2>1. {r} \in SUBSET RoomIds /\ \A q \in {r} : CalmRoom(q)'
    BY <1>7
  <2> QED
    BY <1>3, <1>6, <1>8, <2>1, RoomStep

\* What the room is told of a press
LEMMA ReadyMessage ==
    ASSUME TypeOK, NEW s \in Users, NEW r
    PROVE  LET p == ReadyPacket(s)
               m == <<p>> \o IF AllReady(r) THEN <<AllReadyPacket>> ELSE <<>> IN
           /\ p \in ToClient /\ p.t = "READY" /\ p.g = gameID[s] /\ p.sid = s
           /\ m \in Seq(ToClient) /\ m = IF AllReady(r) THEN <<p, AllReadyPacket>> ELSE <<p>>
<1> DEFINE p == ReadyPacket(s)
           m == <<p>> \o IF AllReady(r) THEN <<AllReadyPacket>> ELSE <<>>
<1>1. /\ p \in ToClient /\ p.t = "READY" /\ p.g = gameID[s] /\ p.sid = s
      /\ AllReadyPacket \in ToClient
  BY DEF ReadyPacket, ReadyServerID, AllReadyPacket, ToClient, TypeOK
<1> HIDE DEF p
<1>2. m = (IF AllReady(r) THEN <<p, AllReadyPacket>> ELSE <<p>>) /\ m \in Seq(ToClient)
  <2>1. CASE AllReady(r)
    <3>1. <<p>> \o <<AllReadyPacket>> = <<p, AllReadyPacket>>
      BY <1>1, TwoSent
    <3> QED
      BY <1>1, <2>1, <3>1
  <2>2. CASE ~AllReady(r)
    <3>1. <<p>> \in Seq(ToClient)
      BY <1>1
    <3>2. <<p>> \o <<>> = <<p>>
      BY <3>1, ConcatEmptySeq
    <3> QED
      BY <2>2, <3>1, <3>2
  <2> QED
    BY <2>1, <2>2
<1> QED
  BY <1>1, <1>2 DEF p

\* What the room hears of a press, and what it does not hear
LEMMA ToldPress ==
    ASSUME NEW d, NEW p \in ToClient, p.t = "READY", NEW m,
           m = <<p>> \/ m = <<p, AllReadyPacket>>,
           s2c[d] \in Seq(ToClient), Tidings(d, {"ID", "PUT", "RESULT"}),
           s2c'[d] = s2c[d] \o m
    PROVE  /\ ~Hears(d, "JOINED")' /\ ~Hears(d, "ENTER")'
           /\ \A i \in DOMAIN s2c'[d] : s2c'[d][i].t = "READY" =>
                 /\ s2c'[d][i] = p
                 /\ m # <<p>> => \E j \in DOMAIN s2c'[d] : i < j /\ s2c'[d][j].t = "ALLREADY"
           /\ \E i \in DOMAIN s2c'[d] : s2c'[d][i] = p
<1> DEFINE q == s2c[d]
           c == q \o m
<1>1. AllReadyPacket \in ToClient /\ AllReadyPacket.t = "ALLREADY"
  BY DEF AllReadyPacket, ToClient
<1>2. /\ m \in Seq(ToClient) /\ 1 \in DOMAIN m /\ m[1] = p
      /\ \A i \in DOMAIN m : i = 1 \/ (i = 2 /\ m[i] = AllReadyPacket)
      /\ m # <<p>> => 2 \in DOMAIN m /\ m[2] = AllReadyPacket
  <2>1. CASE m = <<p, AllReadyPacket>>
    <3>1. m \in Seq(ToClient) /\ DOMAIN m = {1, 2} /\ m[1] = p /\ m[2] = AllReadyPacket
      BY <1>1, <2>1, TwoPackets
    <3> QED
      BY <3>1
  <2>2. CASE m = <<p>>
    <3>1. m \in Seq(ToClient) /\ DOMAIN m = {1} /\ m[1] = p
      BY <2>2, OnePacket
    <3> QED
      BY <2>2, <3>1
  <2> QED
    BY <2>1, <2>2
<1>3. q \in Seq(ToClient) /\ s2c'[d] = c /\ \A i \in DOMAIN q : q[i].t \in {"ID", "PUT", "RESULT"}
  BY DEF Tidings
<1> HIDE DEF q
<1>4. /\ \A i \in DOMAIN q : c[i] = q[i]
      /\ \A i \in DOMAIN m : Len(q) + i \in DOMAIN c /\ c[Len(q) + i] = m[i]
      /\ \A k \in DOMAIN c : k \in DOMAIN q \/ \E i \in DOMAIN m : k = Len(q) + i
      /\ Len(q) \in Nat
  BY <1>2, <1>3, MoreSent
<1> HIDE DEF c
<1>5. \A k \in DOMAIN c :
         \/ c[k].t \in {"ID", "PUT", "RESULT"}
         \/ k = Len(q) + 1 /\ c[k] = p
         \/ c[k].t = "ALLREADY"
  <2> TAKE k \in DOMAIN c
  <2>1. CASE k \in DOMAIN q
    BY <1>3, <1>4, <2>1
  <2>2. CASE \E i \in DOMAIN m : k = Len(q) + i
    <3>1. PICK i \in DOMAIN m : k = Len(q) + i
      BY <2>2
    <3>2. c[k] = m[i]
      BY <1>4, <3>1
    <3>3. CASE i = 1
      BY <1>2, <3>1, <3>2, <3>3
    <3>4. CASE m[i] = AllReadyPacket
      BY <1>1, <3>2, <3>4
    <3> QED
      BY <1>2, <3>3, <3>4
  <2> QED
    BY <1>4, <2>1, <2>2
<1>6. m # <<p>> => Len(q) + 2 \in DOMAIN c /\ c[Len(q) + 2].t = "ALLREADY"
  BY <1>1, <1>2, <1>4
<1>7. ASSUME NEW i \in DOMAIN c, c[i].t = "READY"
      PROVE  c[i] = p /\ (m # <<p>> => \E j \in DOMAIN c : i < j /\ c[j].t = "ALLREADY")
  <2>1. i = Len(q) + 1 /\ c[i] = p
    BY <1>5, <1>7
  <2>2. i < Len(q) + 2
    BY <1>4, <2>1
  <2> QED
    BY <1>6, <2>1, <2>2
<1>8. \A k \in DOMAIN c : c[k].t \notin {"JOINED", "ENTER"}
  BY <1>5
<1>9. \E i \in DOMAIN c : c[i] = p
  BY <1>2, <1>4
<1> QED
  BY <1>3, <1>7, <1>8, <1>9 DEF Hears

\* A press counts when the server handles it.  The press that starts the game
\* is the last mark that was missing, so everybody knows everybody.
LEMMA CalmReady ==
    ASSUME SessionInv, CalmInv, NEW s \in Users, Handles(s), Head(c2s[s]).t = "READY",
           HandleReady(s, Head(c2s[s]).r)
    PROVE  CalmInv'
<1>1. PICK r \in RoomIds :
          /\ s \in members[r] /\ connect[s] /\ ~lobby[s] /\ Head(c2s[s]).r = r
          /\ (Waiting(s, r) /\ InRoom(s, r)) \/ Starting(s, r) \/ Loading(s, r)
          /\ Tail(c2s[s]) \in {<<>>, <<LoadedReport(r)>>}
  BY NextFromRoom DEF Handles
<1>2. /\ SessionTypeOK /\ TypeOK /\ RoomCapacity /\ NobodyGone /\ ReadyBelowSize
      /\ LoadAccounting /\ OneRoom /\ DistinctGameIDs /\ CalmRoom(r) /\ CalmPlayer(s)
      /\ Ready(s, r)
      /\ SendTo([d \in members[r] |->
             <<ReadyPacket(s)>> \o IF AllReady(r) THEN <<AllReadyPacket>> ELSE <<>>])
  BY <1>1 DEF SessionInv, Base, Orderly, HandleReady, CalmInv
<1>3. PressOnWay(s)
  <2>1. 1 \in DOMAIN c2s[s] /\ Head(c2s[s]) = c2s[s][1]
    BY <1>2, OneRead DEF SessionTypeOK, Handles
  <2> QED
    BY <2>1 DEF PressOnWay
<1>4. status[r] \in {"JOINABLE", "FULL"} /\ accepted[r] = {}
  <2>1. status[r] # "INGAME"
    BY <1>1, <1>2, <1>3 DEF CalmRoom, CalmMember, Started
  <2>2. status[r] \in {"JOINABLE", "FULL"}
    BY <1>1, <2>1 DEF Waiting, Starting, Loading
  <2> QED
    BY <1>2, <2>2 DEF LoadAccounting
<1> DEFINE start == AllReady(r)
<1>5. start \in BOOLEAN
  BY DEF AllReady
<1>6. /\ readycount' = [readycount EXCEPT ![r] = IF start THEN 0 ELSE Inc(@)]
      /\ status' = [status EXCEPT ![r] = IF start THEN "INGAME" ELSE @]
      /\ UNCHANGED <<connect, lobby, gameID, members, accepted>>
  <2>1. ~Unreachable(r)
    BY <1>2 DEF NobodyGone, Unreachable
  <2> QED
    BY <1>2, <2>1 DEF Ready, clientVars
<1>7. members[r] \in SUBSET Users /\ Size(r) \in Nat /\ Size(r) <= 255 /\ readycount[r] \in Nat
  <2>1. members[r] \in SUBSET Users /\ readycount[r] \in Nat
    <3>1. TypeOK
      BY <1>2
    <3> QED
      BY <3>1 DEF TypeOK, Byte
  <2>2. Size(r) \in Nat
    BY <2>1, SubsetOfUsers DEF Size
  <2>3. Size(r) <= MaxGamer
    BY <1>2 DEF RoomCapacity
  <2> QED
    BY <2>1, <2>2, <2>3, RoomsAssumption
<1>8. /\ readycount[r] < Size(r) /\ Inc(readycount[r]) = readycount[r] + 1
      /\ start <=> readycount[r] + 1 = Size(r)
  <2>1. readycount[r] < Size(r)
    BY <1>2, <1>4 DEF ReadyBelowSize
  <2>2. Inc(readycount[r]) = readycount[r] + 1
    BY <1>7, <2>1 DEF Inc
  <2> QED
    BY <2>1, <2>2 DEF AllReady
<1> DEFINE p == ReadyPacket(s)
           m == <<p>> \o IF AllReady(r) THEN <<AllReadyPacket>> ELSE <<>>
           msgs == [d \in members[r] |-> m]
<1>9. /\ p \in ToClient /\ p.t = "READY" /\ p.g = gameID[s] /\ p.sid = s
      /\ m \in Seq(ToClient) /\ m = IF start THEN <<p, AllReadyPacket>> ELSE <<p>>
      /\ AllReadyPacket \in ToClient
  BY <1>2, ReadyMessage DEF AllReadyPacket, ToClient
<1>10. SendTo(msgs)
  BY <1>2
<1>11. m = (IF start THEN <<p, AllReadyPacket>> ELSE <<p>>) /\ m \in Seq(ToClient)
  BY <1>9
<1> HIDE DEF p
<1> HIDE DEF m
<1>12. DOMAIN msgs = members[r] /\ \A d \in members[r] : msgs[d] = m
  OBVIOUS
<1> HIDE DEF msgs
<1>13. /\ \A d \in members[r] : s2c'[d] = s2c[d] \o m
       /\ \A d \in Users : d \notin members[r] => s2c'[d] = s2c[d]
  BY <1>2, <1>7, <1>10, <1>11, <1>12, SendTyped
<1>14. /\ \A d \in Users : d # s => c2s'[d] = c2s[d]
       /\ UNCHANGED <<scene, building, result, myRoom, myGame, shown, serverID>>
  BY <1>2, HandlesRest
<1>15. /\ OneBurst'
       /\ \A d \in Users : ~PressOnWay(d)' /\ Tidings(d, {"ID", "PUT", "RESULT"})
       /\ \A d \in Users : d # s => ~PressOnWay(d)
  BY <1>1, Answered
<1> HIDE DEF start
<1>16. ASSUME NEW d \in members[r]
       PROVE  /\ ~Hears(d, "JOINED")' /\ ~Hears(d, "ENTER")'
              /\ \A i \in DOMAIN s2c'[d] : s2c'[d][i].t = "READY" =>
                    /\ s2c'[d][i] = p
                    /\ start => \E j \in DOMAIN s2c'[d] : i < j /\ s2c'[d][j].t = "ALLREADY"
              /\ \E i \in DOMAIN s2c'[d] : s2c'[d][i] = p
  <2>1. /\ d \in Users /\ s2c[d] \in Seq(ToClient) /\ s2c'[d] = s2c[d] \o m
        /\ m = <<p>> \/ m = <<p, AllReadyPacket>>
    BY <1>2, <1>7, <1>11, <1>13 DEF SessionTypeOK
  <2>2. Tidings(d, {"ID", "PUT", "RESULT"})
    BY <1>15, <2>1
  <2>3. start => m # <<p>>
    <3>1. <<p, AllReadyPacket>> # <<p>>
      <4>1. Len(<<p, AllReadyPacket>>) = 2 /\ Len(<<p>>) = 1
        BY <1>9, OnePacket, TwoPackets
      <4> QED
        BY <4>1
    <3> QED
      BY <1>11, <3>1
  <2>4. p \in ToClient /\ p.t = "READY"
    BY <1>9
  <2>5. /\ ~Hears(d, "JOINED")' /\ ~Hears(d, "ENTER")'
        /\ \A i \in DOMAIN s2c'[d] : s2c'[d][i].t = "READY" =>
              /\ s2c'[d][i] = p
              /\ m # <<p>> => \E j \in DOMAIN s2c'[d] : i < j /\ s2c'[d][j].t = "ALLREADY"
        /\ \E i \in DOMAIN s2c'[d] : s2c'[d][i] = p
    BY ONLY <2>1, <2>2, <2>4, ToldPress, Zenon
  <2> QED
    BY <2>3, <2>5
<1>17. \A d \in Users : d \notin members[r] => Untouched(d)
  BY <1>1, <1>6, <1>13, <1>14 DEF Untouched, SameClient, SameSlot
<1>18. \A d \in Users : CalmPlayer(d)'
  <2>1. ASSUME NEW d \in members[r] PROVE CalmPlayer(d)'
    <3>1. d \in Users /\ connect'[d] /\ ~lobby'[d]
      BY <1>6, MemberStation
    <3>2. ~Hears(d, "JOINED")' /\ ~PressOnWay(d)'
      BY <1>15, <1>16, <3>1
    <3> QED
      BY <3>1, <3>2 DEF CalmPlayer
  <2> QED
    BY <1>17, <2>1, UntouchedKept DEF CalmInv
<1>19. /\ MarkedIn(r) \in SUBSET Users /\ MarkedIn(r) \in SUBSET members[r]
       /\ s \notin MarkedIn(r) /\ MarkedIn(r)' = MarkedIn(r) \cup {s}
       /\ Cardinality(MarkedIn(r)) = readycount[r]
       /\ \A d \in members[r] : d # s /\ Marked(d)' => Marked(d)
  <2>1. MarkedIn(r) \in SUBSET Users /\ MarkedIn(r) \in SUBSET members[r] /\ ~Marked(s)
    BY <1>3, <1>7 DEF MarkedIn, Marked
  <2>2. Marked(s)'
    <3>1. myGame'[s] \in shown'[s]
      BY <1>2, <1>3, <1>14 DEF CalmPlayer
    <3>2. ~Hears(s, "ENTER")' /\ ~PressOnWay(s)'
      BY <1>1, <1>15, <1>16
    <3> QED
      BY <3>1, <3>2 DEF Marked
  <2>3. ASSUME NEW d \in members[r], d # s PROVE Marked(d)' <=> Marked(d)
    <3>1. d \in Users
      BY <1>7
    <3>2. ~Hears(d, "ENTER")' /\ ~PressOnWay(d)' /\ ~PressOnWay(d) /\ ~Hears(d, "ENTER")
      BY <1>15, <1>16, <2>3, <3>1 DEF Tidings, Hears
    <3> QED
      BY <1>14, <3>2 DEF Marked
  <2>4. MarkedIn(r)' = MarkedIn(r) \cup {s}
    BY <1>1, <1>6, <2>2, <2>3 DEF MarkedIn
  <2>5. Cardinality(MarkedIn(r)) = readycount[r]
    BY <1>2, <1>4 DEF CalmRoom, RightCount
  <2> QED
    BY <2>1, <2>3, <2>4, <2>5 DEF MarkedIn
<1>20. Cardinality(MarkedIn(r) \cup {s}) = readycount[r] + 1
  BY <1>19, CountAdd
<1>21. start => \A d \in members[r] : d # s => Marked(d)
  <2>1. MarkedIn(r) \cup {s} \in SUBSET members[r]
    BY <1>1, <1>19
  <2>2. start => MarkedIn(r) \cup {s} = members[r]
    BY <1>7, <1>8, <1>20, <2>1, CountSubset DEF Size
  <2> QED
    BY <2>2 DEF MarkedIn
<1>22. RightCount(r)'
  <2>1. CASE start
    BY <1>2, <1>6, <2>1 DEF RightCount, TypeOK
  <2>2. CASE ~start
    <3>1. readycount'[r] = readycount[r] + 1
      BY <1>2, <1>6, <1>8, <2>2 DEF TypeOK
    <3> QED
      BY <1>19, <1>20, <3>1 DEF RightCount
  <2> QED
    BY <2>1, <2>2
<1>23. ASSUME NEW d \in members[r] PROVE CalmMember(d, r)'
  <2>1. d \in Users /\ CalmMember(d, r) /\ gameID'[d] \in Ids'
    BY <1>2, <1>6, <1>7 DEF CalmRoom, CalmMember, Ids
  <2>2. (status'[r] = "INGAME") <=> start
    BY <1>2, <1>4, <1>6 DEF TypeOK
  <2>3. RightNews(d, r)'
    BY <1>1, <1>6, <1>9, <1>16, <2>2 DEF RightNews
  <2>4. Started(d, r)'
    <3>1. ~(members'[r] \subseteq accepted'[r])
      BY <1>1, <1>4, <1>6
    <3> QED
      BY <1>15, <1>16, <2>1, <3>1 DEF Started
  <2>5. ASSUME NEW e \in members[r], e # d, MustKnow(d, e, r)' PROVE KnowsOf(d, e)'
    <3>1. CASE e = s
      <4>1. WillHear(d, s)'
        BY <1>9, <1>16 DEF WillHear
      <4> QED
        BY <3>1, <4>1 DEF KnowsOf
    <3>2. CASE e # s
      <4>1. Marked(e)
        BY <1>19, <1>21, <2>2, <2>5, <3>2 DEF MustKnow
      <4>2. KnowsOf(d, e)
        BY <1>4, <2>1, <2>5, <4>1 DEF CalmMember, MustKnow
      <4>3. ~WillHear(d, e)
        BY <1>15, <2>1 DEF WillHear, Tidings
      <4> QED
        BY <1>6, <1>14, <4>2, <4>3 DEF KnowsOf
    <3> QED
      BY <3>1, <3>2
  <2> QED
    BY <1>6, <2>1, <2>3, <2>4, <2>5 DEF CalmMember
<1>24. CalmRoom(r)'
  BY <1>6, <1>22, <1>23 DEF CalmRoom
<1>25. \A q \in RoomIds \ {r} :
           /\ members'[q] = members[q] /\ status'[q] = status[q]
           /\ accepted'[q] = accepted[q] /\ readycount'[q] = readycount[q]
           /\ \A e \in members[q] : Untouched(e)
  <2>1. \A q \in RoomIds \ {r} : \A e \in members[q] : e \in Users /\ e \notin members[r]
    BY <1>2 DEF OneRoom, TypeOK
  <2> QED
    BY <1>2, <1>6, <1>17, <2>1 DEF TypeOK
<1> QED
  <2>1. {r} \in SUBSET RoomIds /\ \A q \in {r} : CalmRoom(q)'
    BY <1>24
  <2> QED
    BY <1>15, <1>18, <1>25, <2>1, RoomStep

\* What the room is told of the last report
LEMMA PutsTold ==
    ASSUME SessionTypeOK, TypeOK, NEW s, NEW r \in RoomIds, HandleLoaded(s, r), AllLoaded(r),
           accepted'[r] \in SUBSET Users, accepted'[r] # {}
    PROVE  \E m \in Seq(ToClient) :
              /\ \A d \in members[r] : s2c'[d] = s2c[d] \o m
              /\ 1 \in DOMAIN m /\ \A i \in DOMAIN m : m[i].t = "PUT"
<1>1. PICK order \in InOrder(accepted'[r]) :
          SendTo([d \in members[r] |-> [i \in DOMAIN order |-> PutPacket(order[i])]])
  BY DEF HandleLoaded
<1> DEFINE puts == [i \in DOMAIN order |-> PutPacket(order[i])]
           msgs == [d \in members[r] |-> puts]
           n == Cardinality(accepted'[r])
<1>2. /\ puts \in Seq(ToClient) /\ DOMAIN puts = 1 .. n
      /\ \A i \in DOMAIN puts : puts[i].t = "PUT"
  BY PutsTyped
<1>3. n \in Nat /\ n # 0
  BY SubsetOfUsers, CountZero
<1>4. SendTo(msgs) /\ DOMAIN msgs = members[r] /\ \A d \in members[r] : msgs[d] = puts
  BY <1>1
<1> HIDE DEF puts, n
<1>5. 1 \in DOMAIN puts
  BY <1>2, <1>3
<1> HIDE DEF msgs
<1>6. \A d \in Users : s2c'[d] = IF d \in DOMAIN msgs THEN s2c[d] \o msgs[d] ELSE s2c[d]
  <2>1. \A d \in DOMAIN msgs : msgs[d] \in Seq(ToClient)
    BY <1>2, <1>4
  <2>2. SessionTypeOK
    OBVIOUS
  <2> QED
    BY ONLY <1>4, <2>1, <2>2, SendTyped
<1>7. members[r] \in SUBSET Users
  BY DEF TypeOK
<1>8. \A d \in members[r] : s2c'[d] = s2c[d] \o puts
  BY <1>4, <1>6, <1>7
<1> QED
  BY <1>2, <1>5, <1>8

\* A report changes nobody's mark and nobody's knowledge; the last one makes
\* every member forget the marks.
LEMMA CalmLoaded ==
    ASSUME SessionInv, CalmInv, NEW s \in Users, Handles(s), Head(c2s[s]).t = "LOADED",
           HandleLoaded(s, Head(c2s[s]).r)
    PROVE  CalmInv'
<1>1. PICK r \in RoomIds :
          /\ s \in members[r] /\ connect[s] /\ ~lobby[s] /\ Head(c2s[s]).r = r
          /\ Loading(s, r) /\ ~building[s] /\ Tail(c2s[s]) = <<>>
  BY NextFromRoom DEF Handles
<1>2. /\ SessionTypeOK /\ TypeOK /\ RoomCapacity /\ LoadAccounting /\ OneRoom
      /\ CalmRoom(r) /\ HandleLoaded(s, r) /\ LoadComplete(s, r)
      /\ status[r] = "INGAME" /\ s \notin accepted[r]
  BY <1>1 DEF SessionInv, Base, Orderly, CalmInv, HandleLoaded, Loading
<1>3. /\ accepted' = [accepted EXCEPT ![r] = @ \cup {s}]
      /\ UNCHANGED <<connect, lobby, gameID, status, members, readycount>>
  BY <1>2 DEF LoadComplete, AcceptedWith, clientVars
<1>4. /\ accepted'[r] = accepted[r] \cup {s} /\ accepted'[r] \in SUBSET Users
      /\ \A q \in RoomIds : q # r => accepted'[q] = accepted[q]
      /\ AllLoaded(r) <=> members[r] \subseteq accepted'[r]
  BY <1>1, <1>2, <1>3, LastReport DEF TypeOK
<1>5. /\ c2s'[s] = <<>> /\ \A d \in Users : d # s => c2s'[d] = c2s[d]
      /\ UNCHANGED <<scene, building, result, myRoom, myGame, shown, serverID>>
  BY <1>1, <1>2, HandlesRest
<1>6. \A d \in Users : (PressOnWay(d)' => PressOnWay(d)) /\ (Asked(d)' => Asked(d))
  BY <1>5 DEF PressOnWay, Asked
<1>7. \A d \in members[r] :
          /\ KeptStream(d) /\ (AllLoaded(r) => Hears(d, "PUT")')
          /\ Tidings(d, {"ID", "PUT", "RESULT"}) => Tidings(d, {"ID", "PUT", "RESULT"})'
  <2>1. CASE AllLoaded(r)
    <3>1. PICK m \in Seq(ToClient) :
             /\ \A d \in members[r] : s2c'[d] = s2c[d] \o m
             /\ 1 \in DOMAIN m /\ \A i \in DOMAIN m : m[i].t = "PUT"
      BY <1>2, <1>4, <2>1, PutsTold
    <3> TAKE d \in members[r]
    <3>2. s2c[d] \in Seq(ToClient) /\ s2c'[d] = s2c[d] \o m
      BY <1>2, <3>1 DEF TypeOK, SessionTypeOK
    <3> QED
      BY <3>1, <3>2, ToldKept
  <2>2. CASE ~AllLoaded(r)
    <3>1. UNCHANGED s2c
      BY <1>2, <2>2 DEF HandleLoaded
    <3> QED
      BY <2>2, <3>1 DEF KeptStream, Tidings
  <2> QED
    BY <2>1, <2>2
<1>8. \A d \in Users : d \notin members[r] => Untouched(d)
  <2>1. \A d \in Users : d \notin members[r] => s2c'[d] = s2c[d]
    BY <1>2 DEF HandleLoaded, SendTo
  <2> QED
    BY <1>1, <1>3, <1>5, <2>1 DEF Untouched, SameClient, SameSlot
<1>9. OneBurst'
  <2>1. \A d \in Users : Tidings(d, {"ID", "PUT", "RESULT"})
                             => Tidings(d, {"ID", "PUT", "RESULT"})'
    BY <1>7, <1>8 DEF Untouched, SameClient, Tidings
  <2> QED
    BY <1>6, <2>1, BurstKept DEF CalmInv
<1>10. \A d \in Users : CalmPlayer(d)'
  <2>1. ASSUME NEW d \in members[r] PROVE CalmPlayer(d)'
    <3>1. d \in Users /\ CalmPlayer(d)
      BY <1>2 DEF TypeOK, CalmInv
    <3>2. Hears(d, "JOINED")' => Hears(d, "JOINED")
      BY <1>7, KeptNews
    <3> QED
      BY <1>3, <1>5, <1>6, <3>1, <3>2, PlayerKept
  <2> QED
    BY <1>8, <2>1, UntouchedKept DEF CalmInv
<1>11. CalmRoom(r)'
  <2>1. \A d \in members[r] : KeptMember(d, r)
    <3>1. members[r] \in SUBSET Users
      BY <1>2 DEF TypeOK
    <3> QED
      BY <1>5, <1>6, <1>7, <3>1 DEF KeptMember
  <2>2. members'[r] \subseteq accepted'[r] => \A d \in members[r] : Hears(d, "PUT")'
    BY <1>3, <1>4, <1>7
  <2> QED
    BY <1>2, <1>3, <2>1, <2>2, RoomKept
<1>12. \A q \in RoomIds \ {r} : \A e \in members[q] : Untouched(e)
  BY <1>2, <1>8 DEF OneRoom, TypeOK
<1> QED
  <2>1. {r} \in SUBSET RoomIds /\ \A q \in {r} : CalmRoom(q)'
    BY <1>11
  <2> QED
    BY <1>3, <1>4, <1>9, <1>10, <1>12, <2>1, RoomStep

\* Whoever confirms has no marks left, and takes none of them out of the room.
LEMMA CalmConfirm ==
    ASSUME SessionInv, CalmInv, NEW s \in Users, Handles(s), Head(c2s[s]).t = "CONFIRM",
           HandleConfirm(s, Head(c2s[s]).r)
    PROVE  CalmInv'
<1>1. PICK r \in RoomIds :
          /\ s \in members[r] /\ connect[s] /\ ~lobby[s] /\ Head(c2s[s]).r = r
          /\ InMatch(s, r) /\ AtTable(s, r) /\ scene[s] = "LOBBY"
          /\ Tail(c2s[s]) \in LobbyRequest \cup {<<>>}
  BY NextFromRoom DEF Handles
<1>2. /\ SessionTypeOK /\ TypeOK /\ OneRoom /\ CalmRoom(r) /\ UNCHANGED s2c /\ s2c[s] = <<>>
      /\ ResultConfirm(s, r) /\ status[r] = "INGAME" /\ members[r] \subseteq accepted[r]
  BY <1>1 DEF SessionInv, Base, Orderly, CalmInv, HandleConfirm, InMatch, AtTable
<1>3. /\ lobby' = [lobby EXCEPT ![s] = TRUE] /\ gameID' = [gameID EXCEPT ![s] = 0]
      /\ members' = [members EXCEPT ![r] = @ \ {s}] /\ UNCHANGED connect
  BY <1>2 DEF ResultConfirm, MembersWithout
<1>4. /\ members'[r] = members[r] \ {s}
      /\ members'[r] = {} => status'[r] = "EMPTY"
      /\ members'[r] # {} => status'[r] = status[r] /\ accepted'[r] = accepted[r]
      /\ \A q \in RoomIds : q # r =>
            /\ members'[q] = members[q] /\ status'[q] = status[q]
            /\ accepted'[q] = accepted[q] /\ readycount'[q] = readycount[q]
  BY <1>2 DEF ResultConfirm, MembersWithout, TypeOK
<1>5. /\ c2s'[s] = Tail(c2s[s]) /\ \A d \in Users : d # s => c2s'[d] = c2s[d]
      /\ UNCHANGED <<scene, building, result, myRoom, myGame, shown, serverID>>
  BY <1>2, HandlesRest
<1>6. \A d \in Users : d # s => Untouched(d)
  BY <1>2, <1>3, <1>5 DEF Untouched, SameClient, SameSlot, TypeOK
<1>7. ~PressOnWay(s)' /\ Asked(s)
  <2>1. \A ps \in LobbyRequest \cup {<<>>} : \A i \in DOMAIN ps : ps[i].t # "READY"
    BY DEF LobbyRequest
  <2>2. 1 \in DOMAIN c2s[s] /\ Head(c2s[s]) = c2s[s][1]
    BY <1>2, OneRead DEF SessionTypeOK, Handles
  <2> QED
    BY <1>1, <1>5, <2>1, <2>2 DEF PressOnWay, Asked
<1>8. OneBurst'
  <2>1. \A d \in Users : Asked(d)' => Asked(d)
    BY <1>5, <1>7 DEF Asked
  <2>2. \A d \in Users : Tidings(d, {"ID", "PUT", "RESULT"})
                             => Tidings(d, {"ID", "PUT", "RESULT"})'
    BY <1>2 DEF Tidings
  <2> QED
    BY <2>1, <2>2, BurstKept DEF CalmInv
<1>9. \A d \in Users : CalmPlayer(d)'
  <2>1. shown'[s] = {}
    BY <1>1, <1>2, <1>5 DEF CalmRoom, CalmMember, Started, Hears
  <2>2. CalmPlayer(s)'
    BY <1>7, <2>1 DEF CalmPlayer
  <2> QED
    BY <1>6, <2>2, UntouchedKept DEF CalmInv
<1>10. CalmRoom(r)'
  <2>1. CASE members'[r] = {}
    BY <1>4, <2>1 DEF CalmRoom, RightCount
  <2>2. CASE members'[r] # {}
    <3>1. status'[r] = "INGAME" /\ accepted'[r] = accepted[r]
      BY <1>2, <1>4, <2>2
    <3>2. RightCount(r)'
      BY <3>1 DEF RightCount
    <3>3. ASSUME NEW d \in members'[r] PROVE CalmMember(d, r)'
      <4>1. d \in members[r] /\ d # s /\ d \in Users /\ Untouched(d) /\ CalmMember(d, r)
        BY <1>2, <1>4, <1>6 DEF TypeOK, CalmRoom
      <4>2. KeptMember(d, r)
        BY <4>1, UntouchedKept
      <4>3. InMatch(d, r)
        <5>1. Stations(d, r)
          BY <4>1, MemberStation
        <5> QED
          BY <1>2, <4>1, <5>1 DEF Stations, Waiting, Starting, Loading, Loads
      <4>4. ~Hears(d, "READY")
        BY <1>2, <4>1, <4>3 DEF CalmMember, RightNews, InMatch, Tidings, Hears
      <4>5. \A e \in members[r] : e \in members'[r] => gameID'[e] = gameID[e]
        BY <1>2, <1>3, <1>4 DEF TypeOK
      <4> QED
        BY <1>2, <1>4, <3>1, <4>1, <4>2, <4>4, <4>5, MemberKept
    <3> QED
      BY <3>2, <3>3 DEF CalmRoom
  <2> QED
    BY <2>1, <2>2
<1>11. \A q \in RoomIds \ {r} : \A e \in members[q] : Untouched(e)
  BY <1>1, <1>2, <1>6 DEF OneRoom, TypeOK
<1> QED
  <2>1. {r} \in SUBSET RoomIds /\ \A q \in {r} : CalmRoom(q)'
    BY <1>10
  <2> QED
    BY <1>4, <1>8, <1>9, <1>11, <2>1, RoomStep

-----------------------------------------------------------------------------
(* Calm players: every step.                                               *)

LEMMA CalmServe ==
    ASSUME SessionInv, SessionInv', CalmInv, NEW s \in Users, Serve(s)
    PROVE  CalmInv'
<1> DEFINE p == Head(c2s[s])
<1>1. Handles(s)
  BY DEF Serve, Handles
<1>2. SessionTypeOK /\ TypeOK /\ p \in ToServer
  BY <1>1, OneRead DEF SessionInv, Base, SessionTypeOK, Handles
<1>3. CASE p.t = "MAKE" /\ HandleMake(s)
  BY <1>1, <1>3, CalmMake
<1>4. ASSUME p.t \in {"JOIN", "QUICK"},
             \/ UNCHANGED vars /\ SendTo(Answer(s, FailPacket))
             \/ \E r \in RoomIds : status[r] = "JOINABLE" /\ Enter(s, r) /\ Joined(s, r)
      PROVE  CalmInv'
  BY <1>1, <1>4, CalmFail, CalmEnter
<1>5. CASE p.t = "JOIN" /\ HandleJoin(s, p.r)
  <2>1. PICK r \in RoomIds : r = p.r
    BY <1>2, <1>5 DEF ToServer
  <2>2. JoinRoom(s, r) /\ IF status[r] \in Refused THEN SendTo(Answer(s, FailPacket))
                                                   ELSE Joined(s, r)
    BY <1>5, <2>1 DEF HandleJoin
  <2>3. \/ UNCHANGED vars /\ SendTo(Answer(s, FailPacket))
        \/ status[r] = "JOINABLE" /\ Enter(s, r) /\ Joined(s, r)
    BY <1>2, <2>2 DEF JoinRoom, Refused, TypeOK, Status
  <2> QED
    BY <1>4, <1>5, <2>3
<1>6. CASE p.t = "QUICK" /\ HandleQuick(s)
  <2>1. QuickJoin(s) /\ IF Joinable = {} THEN SendTo(Answer(s, FailPacket))
                                         ELSE Joined(s, FirstRoom(Joinable))
    BY <1>6 DEF HandleQuick
  <2>2. Joinable # {} => FirstRoom(Joinable) \in Joinable
    BY FirstRoomFound DEF Joinable
  <2>3. \/ UNCHANGED vars /\ SendTo(Answer(s, FailPacket))
        \/ \E r \in RoomIds : status[r] = "JOINABLE" /\ Enter(s, r) /\ Joined(s, r)
    BY <2>1, <2>2 DEF QuickJoin, Joinable
  <2> QED
    BY <1>4, <1>6, <2>3
<1>7. CASE p.t = "READY" /\ HandleReady(s, p.r)
  BY <1>1, <1>7, CalmReady
<1>8. CASE p.t = "LOADED" /\ HandleLoaded(s, p.r)
  BY <1>1, <1>8, CalmLoaded
<1>9. CASE p.t = "CONFIRM" /\ HandleConfirm(s, p.r)
  BY <1>1, <1>9, CalmConfirm
<1> QED
  BY <1>3, <1>5, <1>6, <1>7, <1>8, <1>9 DEF Serve

LEMMA CalmStep ==
    ASSUME Pace = "calm", ~MayOverflow, SessionInv, CalmInv, [SessionNext]_sessionVars
    PROVE  SessionInv' /\ CalmInv'
<1>1. SessionInv'
  BY SessionStep
<1>2. CASE UNCHANGED sessionVars
  <2>1. UNCHANGED <<c2s, s2c, scene, building, result, myRoom, myGame, shown, serverID,
                    connect, lobby, gameID, status, members, accepted, readycount>>
    BY <1>2 DEF sessionVars, clientState, vars
  <2>2. \A d \in Users : Untouched(d)
    BY <2>1 DEF Untouched, SameClient, SameSlot
  <2>3. OneBurst' /\ \A d \in Users : CalmPlayer(d)'
    BY <2>1, <2>2, BurstKept, UntouchedKept DEF CalmInv, Asked, Tidings
  <2>4. {} \in SUBSET RoomIds /\ \A q \in {} : CalmRoom(q)'
    OBVIOUS
  <2>5. \A q \in RoomIds : \A e \in members[q] : Untouched(e)
    BY <2>2 DEF SessionInv, Base, TypeOK
  <2>6. CalmInv'
    BY <2>1, <2>3, <2>4, <2>5, RoomStep
  <2> QED
    BY <1>1, <2>6
<1>3. ASSUME NEW s \in Users, Connect(s) \/ Serve(s) \/ Receive(s) PROVE CalmInv'
  BY <1>1, <1>3, CalmConnect, CalmServe, CalmReceive
<1>4. ASSUME NEW s \in Users,
             \/ ClickMake(s) \/ ClickJoin(s) \/ ClickReady(s)
             \/ Build(s) \/ ShowEnding(s) \/ ClickConfirm(s)
      PROVE  CalmInv'
  BY <1>1, <1>4, CalmMakeJoin, CalmReadyClick, CalmBuild, CalmEnding, CalmConfirmClick
<1>5. ASSUME NEW r \in RoomIds, EndMatch(r) PROVE CalmInv'
  BY <1>1, <1>5, CalmEndMatch
<1> QED
  BY <1>1, <1>2, <1>3, <1>4, <1>5 DEF SessionNext

LEMMA CalmStart == SessionInit => CalmInv
<1> SUFFICES ASSUME SessionInit PROVE CalmInv
  OBVIOUS
<1>1. OneBurst
  BY DEF SessionInit, OneBurst, Asked
<1>2. \A s \in Users : CalmPlayer(s)
  BY DEF SessionInit, CalmPlayer, PressOnWay
<1>3. \A r \in RoomIds : CalmRoom(r)
  BY DEF SessionInit, Init, CalmRoom, RightCount
<1> QED
  BY <1>1, <1>2, <1>3 DEF CalmInv

LEMMA CalmAlways == Pace = "calm" /\ ~MayOverflow /\ SessionSpec => [](SessionInv /\ CalmInv)
<1>1. CASE Pace = "calm" /\ ~MayOverflow
  <2>1. SessionInv /\ CalmInv /\ [SessionNext]_sessionVars => SessionInv' /\ CalmInv'
    BY <1>1, CalmStep
  <2>2. SessionSpec => [](SessionInv /\ CalmInv)
    BY <2>1, SessionStart, CalmStart, PTL DEF SessionSpec
  <2> QED
    BY <2>2
<1> QED
  BY <1>1

\* With calm players a hit in the match goes to the right client: m_serverID of
\* every other hero of the room is its player's slot.  A client learns it from
\* SC_READY alone, and the SC_READY of a press made before it joined never
\* reaches it; but its own join made that press void, so it hears of a new one,
\* and always before the SC_ALLREADY that ends the room scene.
THEOREM ServerIDsAlwaysKnown ==
    Pace = "calm" /\ ~MayOverflow /\ SessionSpec => []ServerIDsKnown
<1>1. SessionInv /\ CalmInv => ServerIDsKnown
  <2> SUFFICES ASSUME SessionInv, CalmInv, NEW s \in Users, NEW r \in RoomIds,
                      s \in members[r], scene[s] = "GAME",
                      NEW d \in members[r], d # s
               PROVE  serverID[s][gameID[d]] = d
    BY DEF ServerIDsKnown
  <2>1. InMatch(s, r)
    <3>1. Stations(s, r)
      BY MemberStation
    <3> QED
      BY <3>1 DEF Stations, Waiting, Starting, Enters, Joining, InRoom, Loading, Loads
  <2>2. CalmMember(s, r)
    BY DEF CalmInv, CalmRoom
  <2>3. KnowsOf(s, d)
    BY <2>1, <2>2 DEF CalmMember, MustKnow, InMatch
  <2>4. ~Hears(s, "READY")
    BY <2>1, <2>2 DEF CalmMember, RightNews, InMatch, Tidings, Hears
  <2> QED
    BY <2>3, <2>4 DEF KnowsOf, WillHear, Hears
<1> QED
  BY <1>1, CalmAlways, PTL

-----------------------------------------------------------------------------
(* Players at any pace: the marks a client shows are never more than what  *)
(* the server has counted.                                                 *)

\* Outside of rooms, and on the way into one, nobody is shown as ready.
Unmarked(s) == ~connect[s] \/ lobby[s] \/ Hears(s, "JOINED") => shown[s] = {}

\* The heroes put on the map clear the marks, and none comes after that.
Forgets(s) ==
    \/ shown[s] = {} /\ ~Hears(s, "READY")
    \/ \E i \in DOMAIN s2c[s] :
          /\ s2c[s][i].t = "PUT"
          /\ \A j \in DOMAIN s2c[s] : i < j => s2c[s][j].t # "READY"

PressRoom(r) ==
    /\ status[r] \in {"JOINABLE", "FULL"} => Cardinality(MarkedIn(r)) <= readycount[r]
    /\ status[r] = "INGAME" /\ members[r] \subseteq accepted[r] =>
          \A s \in members[r] : Forgets(s)

PressInv == (\A s \in Users : Unmarked(s)) /\ \A r \in RoomIds : PressRoom(r)

LEMMA PressKept ==
    ASSUME TypeOK, NEW r \in RoomIds, PressRoom(r),
           members'[r] = members[r], status'[r] = status[r], readycount'[r] = readycount[r],
           members[r] \subseteq accepted'[r] => members[r] \subseteq accepted[r],
           \A e \in members[r] : /\ status[r] # "INGAME" /\ Marked(e)' => Marked(e)
                                 /\ status[r] = "INGAME" /\ Forgets(e) => Forgets(e)'
    PROVE  PressRoom(r)'
<1>1. MarkedIn(r) \in SUBSET Users /\ readycount[r] \in Nat
  <2>1. members[r] \in SUBSET Users /\ readycount \in [RoomIds -> Byte]
    BY DEF TypeOK
  <2> QED
    BY <2>1 DEF MarkedIn, Byte
<1>2. ASSUME status[r] \in {"JOINABLE", "FULL"}
      PROVE  Cardinality(MarkedIn(r)') <= readycount[r]
  <2>1. MarkedIn(r)' \in SUBSET MarkedIn(r)
    BY <1>2 DEF MarkedIn
  <2>2. MarkedIn(r)' \in SUBSET Users
    BY <1>1, <2>1
  <2>3. Cardinality(MarkedIn(r)') <= Cardinality(MarkedIn(r))
    BY ONLY <1>1, <2>1, CountSubset
  <2>4. Cardinality(MarkedIn(r)') \in Nat /\ Cardinality(MarkedIn(r)) \in Nat
    BY ONLY <1>1, <2>2, SubsetOfUsers
  <2> QED
    BY <1>1, <1>2, <2>3, <2>4 DEF PressRoom
<1>3. status[r] = "INGAME" /\ members[r] \subseteq accepted'[r] =>
          \A e \in members[r] : Forgets(e)'
  BY DEF PressRoom
<1> QED
  BY <1>2, <1>3 DEF PressRoom

LEMMA PressUntouched ==
    ASSUME NEW d, Untouched(d)
    PROVE  (Marked(d)' <=> Marked(d)) /\ (Forgets(d) => Forgets(d)') /\ (Unmarked(d) => Unmarked(d)')
<1>1. \A t : Hears(d, t)' <=> Hears(d, t)
  BY DEF Untouched, SameClient, Hears
<1> QED
  BY <1>1, UntouchedKept DEF Untouched, SameClient, SameSlot, Forgets, Unmarked

\* Only the rooms X notice the step.
LEMMA PressFar ==
    ASSUME SessionInv, PressInv, NEW X \in SUBSET RoomIds,
           \A d \in Users : Unmarked(d)', \A r \in X : PressRoom(r)',
           \A r \in RoomIds \ X :
               /\ members'[r] = members[r] /\ status'[r] = status[r]
               /\ accepted'[r] = accepted[r] /\ readycount'[r] = readycount[r]
               /\ \A e \in members[r] : Untouched(e)
    PROVE  PressInv'
<1>1. ASSUME NEW r \in RoomIds \ X PROVE PressRoom(r)'
  <2>1. TypeOK /\ PressRoom(r)
    BY DEF SessionInv, Base, PressInv
  <2>2. \A e \in members[r] : (Marked(e)' => Marked(e)) /\ (Forgets(e) => Forgets(e)')
    BY PressUntouched
  <2> QED
    BY <2>1, <2>2, PressKept
<1> QED
  BY <1>1 DEF PressInv

\* A click or a frame of s that no mark depends on
LEMMA PressQuiet ==
    ASSUME SessionInv, PressInv, NEW s \in Users,
           UNCHANGED <<s2c, connect, lobby, status, members, accepted, readycount>>,
           UNCHANGED <<myGame, shown>>,
           \A d \in Users : d # s => c2s'[d] = c2s[d],
           \A r \in RoomIds : s \in members[r] => status[r] = "INGAME" \/ c2s'[s] = c2s[s]
    PROVE  PressInv'
<1>1. \A d \in Users : Unmarked(d)'
  BY DEF PressInv, Unmarked, Hears
<1>2. ASSUME NEW r \in RoomIds PROVE PressRoom(r)'
  <2>1. TypeOK /\ PressRoom(r) /\ \A e \in members[r] : e \in Users
    BY DEF SessionInv, Base, TypeOK, PressInv
  <2>2. \A e \in members[r] : status[r] # "INGAME" /\ Marked(e)' => Marked(e)
    BY <2>1 DEF Marked, Hears, PressOnWay
  <2>3. \A e \in members[r] : Forgets(e) => Forgets(e)'
    BY DEF Forgets, Hears
  <2> QED
    BY <2>1, <2>2, <2>3, PressKept
<1> QED
  BY <1>1, <1>2 DEF PressInv

\* Whatever s sends, and whether or not its player waits for others
LEMMA PressOwn ==
    ASSUME SessionInv, PressInv, NEW s \in Users,
           \/ ClickMake(s) \/ ClickJoin(s) \/ Build(s) \/ ShowEnding(s) \/ ClickConfirm(s)
    PROVE  PressInv'
<1>1. SessionTypeOK /\ Knows(s) /\ OneRoom
  BY DEF SessionInv, Orderly
<1>2. /\ UNCHANGED <<s2c, connect, lobby, status, members, accepted, readycount>>
      /\ UNCHANGED <<myGame, shown>>
      /\ \A d \in Users : d # s => c2s'[d] = c2s[d]
  <2>1. UNCHANGED <<vars, s2c, myGame, shown>> /\ \A d \in Users : d # s => c2s'[d] = c2s[d]
    <3>1. CASE ClickMake(s)
      BY <1>1, <3>1 DEF ClickMake, Sends, SessionTypeOK
    <3>2. CASE ClickJoin(s)
      BY <1>1, <3>2 DEF ClickJoin, Sends, SessionTypeOK, clientState
    <3>3. CASE Build(s)
      BY <1>1, <3>3 DEF Build, Sends, SessionTypeOK
    <3>4. CASE ShowEnding(s)
      BY <1>1, <3>4 DEF ShowEnding
    <3>5. CASE ClickConfirm(s)
      BY <1>1, <3>5 DEF ClickConfirm, Sends, SessionTypeOK
    <3> QED
      BY <3>1, <3>2, <3>3, <3>4, <3>5
  <2> QED
    BY <2>1 DEF vars
<1>3. ASSUME NEW r \in RoomIds, s \in members[r]
      PROVE  status[r] = "INGAME" \/ c2s'[s] = c2s[s]
  <2>1. Stations(s, r)
    BY <1>3, MemberStation
  <2>2. CASE ClickMake(s) \/ ClickJoin(s)
    <3>1. scene[s] = "LOBBY" /\ Settled(s)
      BY <2>2 DEF ClickMake, ClickJoin, MayClick
    <3>2. lobby[s]
      BY <1>1, <3>1, SettledStation
    <3> QED
      BY <1>3, <3>2, MemberStation
  <2>3. CASE Build(s)
    <3>1. building[s]
      BY <2>3 DEF Build
    <3> QED
      BY <2>1, <3>1 DEF Stations, Waiting, Starting, Enters, Loading, Loads, InMatch
  <2>4. CASE ShowEnding(s)
    BY <2>4 DEF ShowEnding
  <2>5. CASE ClickConfirm(s)
    <3>1. scene[s] = "ENDING"
      BY <2>5 DEF ClickConfirm
    <3> QED
      BY <2>1, <3>1 DEF Stations, Waiting, Starting, Enters, Joining, InRoom, Loading, Loads, InMatch
  <2> QED
    BY <2>2, <2>3, <2>4, <2>5
<1> QED
  BY <1>2, <1>3, PressQuiet

\* The press shows a mark, but the server has still to hear of it.
LEMMA PressClick ==
    ASSUME SessionInv, PressInv, NEW s \in Users, ClickReady(s)
    PROVE  PressInv'
<1>1. SessionTypeOK /\ Knows(s) /\ OneRoom /\ Settled(s)
  BY DEF SessionInv, Orderly, ClickReady, MayClick
<1>2. PICK r \in RoomIds : s \in members[r] /\ Waiting(s, r) /\ InRoom(s, r) /\ connect[s] /\ ~lobby[s]
  BY <1>1, SettledStation DEF ClickReady
<1> DEFINE p == [t |-> "READY", r |-> myRoom[s]]
<1>3. p \in ToServer /\ p.t = "READY" /\ Sends(s, <<p>>)
  BY <1>2 DEF ToServer, InRoom, Copied, ClickReady
<1> HIDE DEF p
<1>4. <<p>> \in Seq(ToServer) /\ 1 \in DOMAIN <<p>> /\ <<p>>[1] = p
  BY <1>3
<1>5. c2s'[s] = <<p>>
  BY <1>1, <1>3, <1>4, NothingYet DEF Sends, Settled, SessionTypeOK
<1>6. PressOnWay(s)'
  BY <1>3, <1>4, <1>5 DEF PressOnWay
<1>7. /\ UNCHANGED <<s2c, connect, lobby, gameID, status, members, accepted, readycount, myGame>>
      /\ \A d \in Users : d # s => Untouched(d)
  <2>1. /\ UNCHANGED <<vars, s2c, scene, building, result, myRoom, myGame, serverID>>
        /\ \A d \in Users : d # s => c2s'[d] = c2s[d] /\ shown'[d] = shown[d]
    BY <1>1, <1>3 DEF Sends, ClickReady, SessionTypeOK
  <2>2. UNCHANGED <<connect, lobby, gameID, status, members, accepted, readycount>>
    BY <2>1 DEF vars
  <2> QED
    BY <2>1, <2>2 DEF Untouched, SameClient, SameSlot
<1>8. \A d \in Users : Unmarked(d)'
  <2>1. Unmarked(s)'
    BY <1>2, <1>7 DEF Unmarked, InRoom, Hears
  <2> QED
    BY <1>7, <2>1, PressUntouched DEF PressInv
<1>9. PressRoom(r)'
  <2>1. TypeOK /\ PressRoom(r) /\ status[r] # "INGAME" /\ \A e \in members[r] : e \in Users
    BY <1>2 DEF SessionInv, Base, TypeOK, PressInv, Waiting
  <2>2. \A e \in members[r] : Marked(e)' => Marked(e)
    BY <1>6, <1>7, <2>1, PressUntouched DEF Marked
  <2> QED
    BY <1>7, <2>1, <2>2, PressKept
<1>10. \A q \in RoomIds \ {r} : \A e \in members[q] : Untouched(e)
  BY <1>1, <1>2, <1>7 DEF OneRoom, SessionInv, Base, TypeOK
<1> QED
  <2>1. {r} \in SUBSET RoomIds /\ \A q \in {r} : PressRoom(q)'
    BY <1>9
  <2> QED
    BY <1>7, <1>8, <1>10, <2>1, PressFar

\* What a member reads, whatever pace the players have
LEMMA NextOfAny ==
    ASSUME SessionInv, NEW r \in RoomIds, NEW s \in members[r], NEW p, Reads(s, p)
    PROVE  /\ p.t # "JOINED" => ~Hears(s, "JOINED")
           /\ status[r] # "INGAME" => p.t \in {"JOINED", "ENTER", "READY"}
<1>1. s \in Users /\ Stations(s, r) /\ SessionTypeOK
  BY MemberStation DEF SessionInv
<1>2. /\ 1 \in DOMAIN s2c[s] /\ p = s2c[s][1]
      /\ \A K : Tidings(s, K) => p.t \in K
  BY <1>1, ReadStream
<1>3. Enters(s, r) /\ p.t # "JOINED" => ~Hears(s, "JOINED")
  BY <1>2 DEF Enters, Joining, InRoom
<1>4. CASE Waiting(s, r)
  BY <1>2, <1>3, <1>4 DEF Waiting
<1>5. CASE Starting(s, r)
  BY <1>3, <1>5 DEF Starting
<1>6. CASE Loading(s, r) \/ Loads(s, r) \/ InMatch(s, r)
  BY <1>6 DEF Loading, Loads, InMatch, Tidings, Hears
<1> QED
  BY <1>1, <1>4, <1>5, <1>6 DEF Stations

\* Once all have loaded, the marks that come are older than the heroes.
LEMMA ForgetsRead ==
    ASSUME SessionTypeOK, NEW s \in Users, Receive(s), Forgets(s)
    PROVE  Forgets(s)'
<1> DEFINE p == Head(s2c[s])
<1>1. Reads(s, p)
  BY ReceiveReads
<1>2. /\ p.t \in {"ENTER", "PUT"} => shown'[s] = {}
      /\ p.t \notin {"ENTER", "PUT", "READY"} => shown'[s] = shown[s]
  BY ReceiveMarks
<1> HIDE DEF p
<1>3. /\ 1 \in DOMAIN s2c[s] /\ p = s2c[s][1]
      /\ \A i \in DOMAIN s2c'[s] : /\ i \in Nat /\ i >= 1 /\ i + 1 \in DOMAIN s2c[s]
                                   /\ s2c'[s][i] = s2c[s][i + 1]
  BY <1>1, ReadStream
<1>4. \A i \in DOMAIN s2c[s] :
          i \in Nat /\ (i = 1 \/ (i - 1 \in DOMAIN s2c'[s] /\ s2c'[s][i - 1] = s2c[s][i]))
  BY <1>1, ReadShift
<1>5. CASE shown[s] = {} /\ ~Hears(s, "READY")
  <2>1. p.t # "READY" /\ ~Hears(s, "READY")'
    BY <1>3, <1>5 DEF Hears
  <2> QED
    BY <1>2, <1>5, <2>1 DEF Forgets
<1>6. ASSUME NEW i \in DOMAIN s2c[s], s2c[s][i].t = "PUT",
             \A j \in DOMAIN s2c[s] : i < j => s2c[s][j].t # "READY"
      PROVE  Forgets(s)'
  <2>1. \A j \in DOMAIN s2c'[s] : i < j + 1 => s2c'[s][j].t # "READY"
    BY <1>3, <1>6
  <2>2. CASE i = 1
    <3>1. shown'[s] = {} /\ ~Hears(s, "READY")'
      BY <1>2, <1>3, <1>6, <2>1, <2>2 DEF Hears
    <3> QED
      BY <3>1 DEF Forgets
  <2>3. CASE i # 1
    <3>1. i \in Nat /\ i - 1 \in DOMAIN s2c'[s] /\ s2c'[s][i - 1].t = "PUT"
      BY <1>4, <1>6, <2>3
    <3>2. \A j \in DOMAIN s2c'[s] : i - 1 < j => s2c'[s][j].t # "READY"
      BY <1>3, <2>1, <3>1
    <3> QED
      BY <3>1, <3>2 DEF Forgets
  <2> QED
    BY <2>2, <2>3
<1> QED
  BY <1>5, <1>6 DEF Forgets

\* No packet marks its own reader: the click did that.
LEMMA PressReceive ==
    ASSUME SessionInv, PressInv, NEW s \in Users, Receive(s)
    PROVE  PressInv'
<1> DEFINE p == Head(s2c[s])
<1>1. SessionTypeOK /\ TypeOK /\ OneRoom /\ Unmarked(s)
  BY DEF SessionInv, Base, Orderly, PressInv
<1>2. Reads(s, p)
  BY <1>1, ReceiveReads
<1>3. /\ \A d \in Users : d # s => shown'[d] = shown[d] /\ serverID'[d] = serverID[d]
      /\ p.t \in {"ENTER", "PUT"} => shown'[s] = {}
      /\ p.t = "READY" /\ p.g # myGame[s] => shown'[s] = shown[s] \cup {p.g}
      /\ p.t = "READY" /\ p.g = myGame[s] => shown'[s] = shown[s]
      /\ p.t \notin {"ENTER", "PUT", "READY"} => shown'[s] = shown[s]
  BY <1>1, ReceiveMarks
<1> HIDE DEF p
<1>4. /\ UNCHANGED <<connect, lobby, gameID, status, members, accepted, readycount, c2s>>
      /\ p.t # "JOINED" => myGame'[s] = myGame[s]
      /\ \A d \in Users : d # s => Untouched(d)
  BY <1>1, <1>2, <1>3, ReadRest DEF Untouched, SameSlot
<1>5. /\ 1 \in DOMAIN s2c[s] /\ p = s2c[s][1] /\ Hears(s, p.t)
      /\ \A t : Hears(s, t)' => Hears(s, t)
      /\ \A t : Hears(s, t) /\ p.t # t => Hears(s, t)'
  <2>1. /\ 1 \in DOMAIN s2c[s] /\ p = s2c[s][1]
        /\ \A t : Hears(s, t)' => Hears(s, t)
        /\ \A t : Hears(s, t) /\ p.t # t => Hears(s, t)'
    BY <1>1, <1>2, ReadStream
  <2> QED
    BY <2>1 DEF Hears
<1>6. p.t = "JOINED" => shown[s] = {} /\ shown'[s] = {}
  BY <1>1, <1>3, <1>5 DEF Unmarked
<1>7. CASE \E r \in RoomIds : s \in members[r]
  <2>1. PICK r \in RoomIds : s \in members[r]
    BY <1>7
  <2>2. /\ p.t # "JOINED" => ~Hears(s, "JOINED")
        /\ status[r] # "INGAME" => p.t \in {"JOINED", "ENTER", "READY"}
    BY <1>2, <2>1, NextOfAny
  <2>3. connect[s] /\ ~lobby[s]
    BY <2>1, MemberStation
  <2>4. Unmarked(s)'
    BY <1>4, <1>5, <1>6, <2>2, <2>3 DEF Unmarked
  <2>5. status[r] # "INGAME" /\ Marked(s)' => Marked(s)
    <3> SUFFICES ASSUME status[r] # "INGAME", Marked(s)' PROVE Marked(s)
      OBVIOUS
    <3>1. p.t = "READY" /\ myGame'[s] \in shown'[s]
      BY <1>3, <1>6, <2>2 DEF Marked
    <3>2. myGame[s] \in shown[s]
      BY <1>3, <1>4, <3>1
    <3>3. ~Hears(s, "ENTER") /\ ~PressOnWay(s)
      BY <1>4, <1>5, <3>1 DEF Marked, PressOnWay
    <3> QED
      BY <3>2, <3>3 DEF Marked
  <2>6. Forgets(s) => Forgets(s)'
    BY <1>1, ForgetsRead
  <2>7. \A e \in members[r] : /\ status[r] # "INGAME" /\ Marked(e)' => Marked(e)
                              /\ Forgets(e) => Forgets(e)'
    BY <1>1, <1>4, <2>5, <2>6, PressUntouched DEF TypeOK
  <2>8. PressRoom(r)'
    BY <1>1, <1>4, <2>7, PressKept DEF PressInv
  <2>9. \A d \in Users : Unmarked(d)'
    BY <1>4, <2>4, PressUntouched DEF PressInv
  <2>10. \A q \in RoomIds \ {r} : \A e \in members[q] : Untouched(e)
    BY <1>1, <1>4, <2>1 DEF OneRoom, TypeOK
  <2>11. {r} \in SUBSET RoomIds /\ \A q \in {r} : PressRoom(q)'
    BY <2>8
  <2> QED
    BY <1>4, <2>9, <2>10, <2>11, PressFar
<1>8. CASE \A r \in RoomIds : s \notin members[r]
  <2>1. InLobby(s)
    BY <1>2, <1>8 DEF SessionInv, Knows, Reads
  <2>2. p.t \in {"ID", "FAIL"}
    <3>1. <<IDPacket>>[1].t = "ID" /\ <<FailPacket>>[1].t = "FAIL"
      BY DEF IDPacket, FailPacket
    <3> QED
      BY <1>5, <2>1, <3>1 DEF InLobby
  <2>3. Unmarked(s)'
    BY <1>1, <1>3, <1>4, <1>5, <2>2 DEF Unmarked
  <2>4. \A d \in Users : Unmarked(d)'
    BY <1>4, <2>3, PressUntouched DEF PressInv
  <2>5. \A q \in RoomIds : \A e \in members[q] : Untouched(e)
    BY <1>1, <1>4, <1>8 DEF TypeOK
  <2>6. {} \in SUBSET RoomIds /\ \A q \in {} : PressRoom(q)'
    OBVIOUS
  <2> QED
    BY <1>4, <2>4, <2>5, <2>6, PressFar
<1> QED
  BY <1>7, <1>8

LEMMA PressConnect ==
    ASSUME SessionInv, PressInv, NEW s \in Users, Connect(s)
    PROVE  PressInv'
<1>1. SessionTypeOK /\ TypeOK
  BY DEF SessionInv, Base
<1>2. /\ UNCHANGED <<gameID, status, members, accepted, readycount, c2s, over, clientState>>
      /\ ~connect[s]
      /\ \A d \in Users : d # s => connect'[d] = connect[d] /\ lobby'[d] = lobby[d]
  BY <1>1 DEF Connect, Accept, roomVars, TypeOK
<1>3. \A d \in Users : d # s => s2c'[d] = s2c[d]
  BY DEF Connect, SendTo, Answer
<1>4. \A d \in Users : d # s => Untouched(d)
  BY <1>2, <1>3 DEF Untouched, SameClient, SameSlot, clientState
<1>5. \A d \in Users : Unmarked(d)'
  <2>1. Unmarked(s)'
    BY <1>2 DEF PressInv, Unmarked, clientState
  <2> QED
    BY <1>4, <2>1, PressUntouched DEF PressInv
<1>6. \A r \in RoomIds : \A e \in members[r] : Untouched(e)
  BY <1>1, <1>2, <1>4 DEF SessionInv, Orderly, NobodyGone, TypeOK
<1> QED
  <2>1. {} \in SUBSET RoomIds /\ \A r \in {} : PressRoom(r)'
    OBVIOUS
  <2> QED
    BY <1>2, <1>5, <1>6, <2>1, PressFar

\* The notices of the result come after the heroes and mark nobody.
LEMMA PressEndMatch ==
    ASSUME SessionInv, PressInv, NEW r \in RoomIds, EndMatch(r)
    PROVE  PressInv'
<1>1. SessionTypeOK /\ TypeOK /\ OneRoom /\ ResultPacket \in ToClient /\ ResultPacket.t = "RESULT"
  BY DEF SessionInv, Base, Orderly, ResultPacket, ToClient
<1> DEFINE m == <<ResultPacket>>
<1>2. m \in Seq(ToClient) /\ \A i \in DOMAIN m : m[i].t \in {"PUT", "RESULT"}
  BY <1>1
<1>3. /\ UNCHANGED <<vars, c2s, clientState>> /\ status[r] = "INGAME"
      /\ UNCHANGED <<connect, lobby, gameID, status, members, accepted, readycount>>
  BY DEF EndMatch, vars, roomVars
<1>4. s2c' = [d \in Users |-> IF d \in members[r] THEN s2c[d] \o m ELSE s2c[d]]
  BY DEF EndMatch, SendTo
<1> HIDE DEF m
<1>5. ASSUME NEW d \in members[r] PROVE KeptStream(d) /\ Unmarked(d)' /\ (Forgets(d) => Forgets(d)')
  <2>1. d \in Users /\ s2c'[d] = s2c[d] \o m /\ s2c[d] \in Seq(ToClient)
    BY <1>1, <1>4 DEF TypeOK, SessionTypeOK
  <2>2. KeptStream(d)
    BY <1>2, <2>1, ToldKept
  <2>3. (Hears(d, "JOINED")' => Hears(d, "JOINED")) /\ (Hears(d, "READY")' => Hears(d, "READY"))
    BY <2>2, KeptNews
  <2>4. Unmarked(d)'
    BY <1>3, <2>1, <2>3 DEF PressInv, Unmarked, clientState
  <2>5. Forgets(d) => Forgets(d)'
    <3>1. shown'[d] = shown[d]
      BY <1>3 DEF clientState
    <3> QED
      BY <2>2, <2>3, <3>1 DEF Forgets, KeptStream
  <2> QED
    BY <2>2, <2>4, <2>5
<1>6. PressRoom(r)'
  BY <1>1, <1>3, <1>5, PressKept DEF PressInv
<1>7. \A d \in Users : d \notin members[r] => Untouched(d)
  BY <1>3, <1>4 DEF Untouched, SameClient, SameSlot, clientState
<1>8. \A d \in Users : Unmarked(d)'
  BY <1>5, <1>7, PressUntouched DEF PressInv
<1>9. \A q \in RoomIds \ {r} : \A e \in members[q] : Untouched(e)
  BY <1>1, <1>7 DEF OneRoom, TypeOK
<1> QED
  <2>1. {r} \in SUBSET RoomIds /\ \A q \in {r} : PressRoom(q)'
    BY <1>6
  <2> QED
    BY <1>3, <1>8, <1>9, <2>1, PressFar

LEMMA PressMake ==
    ASSUME SessionInv, PressInv, NEW s \in Users, Handles(s),
           Head(c2s[s]).t = "MAKE", HandleMake(s)
    PROVE  PressInv'
<1>1. PICK r \in RoomIds :
          /\ \A q \in RoomIds : s \notin members[q]
          /\ members'[r] = {s} /\ status'[r] = "JOINABLE" /\ readycount'[r] = 0
          /\ lobby[s] /\ UNCHANGED <<shown, accepted>>
          /\ \A d \in Users : d # s => Untouched(d)
          /\ \A q \in RoomIds \ {r} : /\ members'[q] = members[q] /\ status'[q] = status[q]
                                      /\ readycount'[q] = readycount[q]
  BY MakesRoom
<1>2. shown'[s] = {}
  BY <1>1 DEF PressInv, Unmarked
<1>3. \A d \in Users : Unmarked(d)'
  <2>1. Unmarked(s)'
    BY <1>2 DEF Unmarked
  <2> QED
    BY <1>1, <2>1, PressUntouched DEF PressInv
<1>4. PressRoom(r)'
  <2>1. MarkedIn(r)' = {}
    BY <1>1, <1>2 DEF MarkedIn, Marked
  <2> QED
    BY <1>1, <2>1, FS_EmptySet DEF PressRoom
<1>5. \A q \in RoomIds : \A e \in members[q] : Untouched(e)
  BY <1>1 DEF SessionInv, Base, TypeOK
<1> QED
  <2>1. {r} \in SUBSET RoomIds /\ \A q \in {r} : PressRoom(q)'
    BY <1>4
  <2> QED
    BY <1>1, <1>3, <1>5, <2>1, PressFar

LEMMA PressFail ==
    ASSUME SessionInv, PressInv, NEW s \in Users, Handles(s),
           Head(c2s[s]).t \in {"JOIN", "QUICK"}, UNCHANGED vars,
           SendTo(Answer(s, FailPacket))
    PROVE  PressInv'
<1>1. SessionTypeOK /\ TypeOK /\ OneRoom /\ lobby[s]
  BY NextFromLobby DEF SessionInv, Base, Orderly, Handles
<1>2. \A d \in Users : d # s => s2c'[d] = s2c[d]
  BY DEF SendTo, Answer
<1>3. /\ \A d \in Users : d # s => c2s'[d] = c2s[d]
      /\ UNCHANGED <<scene, building, result, myRoom, myGame, shown, serverID>>
      /\ UNCHANGED <<connect, lobby, gameID, status, members, accepted, readycount>>
  BY <1>1, HandlesRest DEF vars
<1>4. \A d \in Users : d # s => Untouched(d)
  BY <1>2, <1>3 DEF Untouched, SameClient, SameSlot
<1>5. \A d \in Users : Unmarked(d)'
  <2>1. Unmarked(s)'
    BY <1>1, <1>3 DEF PressInv, Unmarked
  <2> QED
    BY <1>4, <2>1, PressUntouched DEF PressInv
<1>6. \A q \in RoomIds : \A e \in members[q] : Untouched(e)
  BY <1>1, <1>4 DEF OneRoom, TypeOK
<1> QED
  <2>1. {} \in SUBSET RoomIds /\ \A q \in {} : PressRoom(q)'
    OBVIOUS
  <2> QED
    BY <1>3, <1>5, <1>6, <2>1, PressFar

\* The count starts again at 0, and no mark outlasts SC_ENTER_NEWPLAYER.
LEMMA PressEnter ==
    ASSUME SessionInv, PressInv, NEW s \in Users, Handles(s),
           Head(c2s[s]).t \in {"JOIN", "QUICK"}, NEW r \in RoomIds,
           status[r] = "JOINABLE", Enter(s, r), Joined(s, r)
    PROVE  PressInv'
<1>1. /\ lobby[s] /\ \A q \in RoomIds : s \notin members[q]
      /\ members' = [members EXCEPT ![r] = @ \cup {s}]
      /\ members'[r] = members[r] \cup {s} /\ members[r] \subseteq Users
      /\ lobby' = [lobby EXCEPT ![s] = FALSE]
      /\ status'[r] \in {"JOINABLE", "FULL"} /\ readycount'[r] = 0
      /\ \A q \in RoomIds : q # r => status'[q] = status[q] /\ readycount'[q] = readycount[q]
      /\ UNCHANGED <<connect, accepted, shown>>
      /\ \A d \in members[r] :
            /\ Hears(d, "ENTER")'
            /\ \A i \in DOMAIN s2c'[d] :
                  \/ s2c'[d][i].t = "ENTER"
                  \/ i \in DOMAIN s2c[d] /\ s2c'[d][i] = s2c[d][i]
      /\ \A d \in Users : d # s /\ d \notin members[r] => Untouched(d)
  BY EntersRoom
<1>2. TypeOK /\ OneRoom
  BY DEF SessionInv, Base, Orderly
<1>3. shown'[s] = {}
  BY <1>1 DEF PressInv, Unmarked
<1>4. \A d \in Users : Unmarked(d)'
  <2>1. Unmarked(s)'
    BY <1>3 DEF Unmarked
  <2>2. ASSUME NEW d \in members[r] PROVE Unmarked(d)'
    <3>1. d \in Users /\ d # s /\ connect'[d] = connect[d] /\ lobby'[d] = lobby[d]
      BY <1>1, <1>2 DEF TypeOK
    <3>2. Hears(d, "JOINED")' => Hears(d, "JOINED")
      BY <1>1 DEF Hears
    <3> QED
      BY <1>1, <3>1, <3>2 DEF PressInv, Unmarked
  <2> QED
    BY <1>1, <2>1, <2>2, PressUntouched DEF PressInv
<1>5. PressRoom(r)'
  <2>1. MarkedIn(r)' = {}
    BY <1>1, <1>3 DEF MarkedIn, Marked
  <2> QED
    BY <1>1, <2>1, FS_EmptySet DEF PressRoom
<1>6. \A q \in RoomIds \ {r} :
           /\ members'[q] = members[q] /\ status'[q] = status[q]
           /\ accepted'[q] = accepted[q] /\ readycount'[q] = readycount[q]
           /\ \A e \in members[q] : Untouched(e)
  <2>1. \A q \in RoomIds \ {r} : \A e \in members[q] : e \in Users /\ e # s /\ e \notin members[r]
    BY <1>1, <1>2 DEF OneRoom, TypeOK
  <2> QED
    BY <1>1, <1>2, <2>1 DEF TypeOK
<1> QED
  <2>1. {r} \in SUBSET RoomIds /\ \A q \in {r} : PressRoom(q)'
    BY <1>5
  <2> QED
    BY <1>4, <1>6, <2>1, PressFar

\* The count grows with the press that the server handles, whose mark may
\* still be shown.
LEMMA PressHandled ==
    ASSUME SessionInv, PressInv, NEW s \in Users, Handles(s), Head(c2s[s]).t = "READY",
           HandleReady(s, Head(c2s[s]).r)
    PROVE  PressInv'
<1>1. PICK r \in RoomIds :
          /\ s \in members[r] /\ Head(c2s[s]).r = r
          /\ (Waiting(s, r) /\ InRoom(s, r)) \/ Starting(s, r) \/ Loading(s, r)
  BY NextFromRoom DEF Handles
<1>2. /\ SessionTypeOK /\ TypeOK /\ RoomCapacity /\ NobodyGone /\ ReadyBelowSize
      /\ LoadAccounting /\ OneRoom /\ PressRoom(r) /\ Ready(s, r)
      /\ SendTo([d \in members[r] |->
             <<ReadyPacket(s)>> \o IF AllReady(r) THEN <<AllReadyPacket>> ELSE <<>>])
  BY <1>1 DEF SessionInv, Base, Orderly, HandleReady, PressInv
<1>3. s \notin accepted[r]
  <2>1. CASE Waiting(s, r)
    <3>1. accepted[r] = {}
      BY <1>2, <2>1 DEF LoadAccounting, Waiting
    <3> QED
      BY <3>1
  <2>2. CASE Starting(s, r) \/ Loading(s, r)
    BY <2>2 DEF Starting, Loading
  <2> QED
    BY <1>1, <2>1, <2>2
<1> DEFINE start == AllReady(r)
<1>4. /\ readycount' = [readycount EXCEPT ![r] = IF start THEN 0 ELSE Inc(@)]
      /\ status' = [status EXCEPT ![r] = IF start THEN "INGAME" ELSE @]
      /\ UNCHANGED <<connect, lobby, gameID, members, accepted>>
  <2>1. ~Unreachable(r)
    BY <1>2 DEF NobodyGone, Unreachable
  <2> QED
    BY <1>2, <2>1 DEF Ready, clientVars
<1> HIDE DEF start
<1>5. /\ readycount'[r] = (IF start THEN 0 ELSE Inc(readycount[r]))
      /\ status'[r] = (IF start THEN "INGAME" ELSE status[r])
      /\ \A q \in RoomIds : q # r => readycount'[q] = readycount[q] /\ status'[q] = status[q]
  BY <1>2, <1>4 DEF TypeOK
<1>6. members[r] \in SUBSET Users /\ readycount[r] \in Nat
  <2>1. members[r] \in SUBSET Users /\ readycount \in [RoomIds -> Byte]
    BY <1>2 DEF TypeOK
  <2> QED
    BY <2>1 DEF Byte
<1>7. status[r] \in {"JOINABLE", "FULL"} => Inc(readycount[r]) = readycount[r] + 1
  <2> SUFFICES ASSUME status[r] \in {"JOINABLE", "FULL"}
               PROVE  Inc(readycount[r]) = readycount[r] + 1
    OBVIOUS
  <2>1. readycount[r] < Size(r) /\ Size(r) <= MaxGamer
    BY <1>2 DEF ReadyBelowSize, RoomCapacity
  <2>2. Size(r) \in Nat
    BY <1>6, SubsetOfUsers DEF Size
  <2> QED
    BY <1>6, <2>1, <2>2, RoomsAssumption DEF Inc
<1> DEFINE p == ReadyPacket(s)
           m == <<p>> \o IF AllReady(r) THEN <<AllReadyPacket>> ELSE <<>>
           msgs == [d \in members[r] |-> m]
<1>8. /\ p \in ToClient /\ p.t = "READY"
      /\ m \in Seq(ToClient) /\ m = IF AllReady(r) THEN <<p, AllReadyPacket>> ELSE <<p>>
      /\ AllReadyPacket \in ToClient /\ AllReadyPacket.t = "ALLREADY"
  BY <1>2, ReadyMessage DEF AllReadyPacket, ToClient
<1>9. SendTo(msgs)
  BY <1>2
<1>10. m \in Seq(ToClient) /\ (m = <<p, AllReadyPacket>> \/ m = <<p>>)
  BY <1>8
<1> HIDE DEF p
<1> HIDE DEF m
<1>11. \A i \in DOMAIN m : m[i].t \in {"READY", "ALLREADY"}
  <2>1. CASE m = <<p, AllReadyPacket>>
    <3>1. DOMAIN m = {1, 2} /\ m[1] = p /\ m[2] = AllReadyPacket
      BY <1>8, <2>1, TwoPackets
    <3> QED
      BY <1>8, <3>1
  <2>2. CASE m = <<p>>
    <3>1. DOMAIN m = {1} /\ m[1] = p
      BY <1>8, <2>2, OnePacket
    <3> QED
      BY <1>8, <3>1
  <2> QED
    BY <1>10, <2>1, <2>2
<1>12. DOMAIN msgs = members[r] /\ \A d \in members[r] : msgs[d] = m
  OBVIOUS
<1> HIDE DEF msgs
<1>13. /\ \A d \in members[r] : s2c'[d] = s2c[d] \o m
       /\ \A d \in Users : d \notin members[r] => s2c'[d] = s2c[d]
  BY <1>2, <1>6, <1>9, <1>10, <1>12, SendTyped
<1>14. /\ \A d \in Users : d # s => c2s'[d] = c2s[d]
       /\ UNCHANGED <<scene, building, result, myRoom, myGame, shown, serverID>>
  BY <1>2, HandlesRest
<1>15. ASSUME NEW d \in members[r]
       PROVE  /\ Hears(d, "ENTER") => Hears(d, "ENTER")'
              /\ Hears(d, "JOINED")' => Hears(d, "JOINED")
  <2> DEFINE q == s2c[d]
             c == q \o m
  <2>1. q \in Seq(ToClient) /\ s2c'[d] = c
    BY <1>2, <1>6, <1>13 DEF SessionTypeOK
  <2> HIDE DEF q
  <2>2. /\ \A i \in DOMAIN q : i \in DOMAIN c /\ c[i] = q[i]
        /\ \A i \in DOMAIN m : c[Len(q) + i] = m[i]
        /\ \A k \in DOMAIN c : k \in DOMAIN q \/ \E i \in DOMAIN m : k = Len(q) + i
    BY <1>10, <2>1, MoreSent
  <2> HIDE DEF c
  <2> QED
    BY <1>11, <2>1, <2>2 DEF Hears, q
<1>16. \A d \in Users : d \notin members[r] => Untouched(d)
  BY <1>1, <1>4, <1>13, <1>14 DEF Untouched, SameClient, SameSlot
<1>17. \A d \in Users : Unmarked(d)'
  <2>1. ASSUME NEW d \in members[r] PROVE Unmarked(d)'
    <3>1. d \in Users
      BY <1>6
    <3> QED
      BY <1>4, <1>14, <1>15, <3>1 DEF PressInv, Unmarked
  <2> QED
    BY <1>16, <2>1, PressUntouched DEF PressInv
<1>18. PressRoom(r)'
  <2>1. ~(members'[r] \subseteq accepted'[r])
    BY <1>1, <1>3, <1>4
  <2>2. ASSUME status'[r] \in {"JOINABLE", "FULL"}
        PROVE  Cardinality(MarkedIn(r)') <= readycount'[r]
    <3>1. /\ status[r] \in {"JOINABLE", "FULL"} /\ readycount'[r] = readycount[r] + 1
          /\ Cardinality(MarkedIn(r)) <= readycount[r]
      BY <1>2, <1>5, <1>7, <2>2 DEF PressRoom
    <3>2. MarkedIn(r)' \in SUBSET (MarkedIn(r) \cup {s})
      <4> SUFFICES ASSUME NEW d \in members[r], Marked(d)', d # s PROVE Marked(d)
        BY <1>4 DEF MarkedIn
      <4>1. d \in Users
        BY <1>6
      <4>2. myGame[d] \in shown[d] /\ ~Hears(d, "ENTER") /\ ~PressOnWay(d)
        BY <1>14, <1>15, <4>1 DEF Marked, PressOnWay
      <4> QED
        BY <4>2 DEF Marked
    <3>3. MarkedIn(r) \in SUBSET Users
      BY <1>6 DEF MarkedIn
    <3>4. /\ Cardinality(MarkedIn(r)) \in Nat
          /\ Cardinality(MarkedIn(r) \cup {s}) <= Cardinality(MarkedIn(r)) + 1
      BY <3>3, CountAdd, SubsetOfUsers
    <3>5. MarkedIn(r) \cup {s} \in SUBSET Users /\ MarkedIn(r)' \in SUBSET Users
      BY <3>2, <3>3
    <3>6. Cardinality(MarkedIn(r)') <= Cardinality(MarkedIn(r) \cup {s})
      BY ONLY <3>2, <3>5, CountSubset
    <3>7. Cardinality(MarkedIn(r)') \in Nat /\ Cardinality(MarkedIn(r) \cup {s}) \in Nat
      BY ONLY <3>5, SubsetOfUsers
    <3> QED
      BY <1>6, <3>1, <3>4, <3>6, <3>7
  <2> QED
    BY <2>1, <2>2 DEF PressRoom
<1>19. \A q \in RoomIds \ {r} :
           /\ members'[q] = members[q] /\ status'[q] = status[q]
           /\ accepted'[q] = accepted[q] /\ readycount'[q] = readycount[q]
           /\ \A e \in members[q] : Untouched(e)
  <2>1. \A q \in RoomIds \ {r} : \A e \in members[q] : e \in Users /\ e \notin members[r]
    BY <1>2 DEF OneRoom, TypeOK
  <2> QED
    BY <1>4, <1>5, <1>16, <2>1
<1> QED
  <2>1. {r} \in SUBSET RoomIds /\ \A q \in {r} : PressRoom(q)'
    BY <1>18
  <2> QED
    BY <1>17, <1>19, <2>1, PressFar

\* The heroes that are put on the map after the last report clear the marks.
LEMMA PutsForget ==
    ASSUME NEW d, NEW m \in Seq(ToClient), s2c[d] \in Seq(ToClient), s2c'[d] = s2c[d] \o m,
           1 \in DOMAIN m, \A i \in DOMAIN m : m[i].t = "PUT"
    PROVE  Forgets(d)'
<1> DEFINE q == s2c[d]
           c == q \o m
<1>1. q \in Seq(ToClient) /\ s2c'[d] = c
  OBVIOUS
<1> HIDE DEF q
<1>2. /\ \A i \in DOMAIN m : Len(q) + i \in DOMAIN c /\ c[Len(q) + i] = m[i]
      /\ \A k \in DOMAIN c : k \in DOMAIN q \/ \E i \in DOMAIN m : k = Len(q) + i
      /\ \A i \in DOMAIN q : i \in Nat /\ i <= Len(q)
      /\ Len(q) \in Nat
  BY <1>1, MoreSent
<1> HIDE DEF c
<1>3. Len(q) + 1 \in DOMAIN c /\ c[Len(q) + 1].t = "PUT"
  BY <1>2
<1>4. \A k \in DOMAIN c : Len(q) + 1 < k => c[k].t # "READY"
  BY <1>2
<1> QED
  BY <1>1, <1>3, <1>4 DEF Forgets

LEMMA PressLoaded ==
    ASSUME SessionInv, PressInv, NEW s \in Users, Handles(s), Head(c2s[s]).t = "LOADED",
           HandleLoaded(s, Head(c2s[s]).r)
    PROVE  PressInv'
<1>1. PICK r \in RoomIds :
          /\ s \in members[r] /\ Head(c2s[s]).r = r /\ Loading(s, r)
          /\ Tail(c2s[s]) = <<>>
  BY NextFromRoom DEF Handles
<1>2. /\ SessionTypeOK /\ TypeOK /\ RoomCapacity /\ LoadAccounting /\ OneRoom
      /\ HandleLoaded(s, r) /\ LoadComplete(s, r)
      /\ status[r] = "INGAME" /\ s \notin accepted[r]
  BY <1>1 DEF SessionInv, Base, Orderly, HandleLoaded, Loading
<1>3. /\ accepted' = [accepted EXCEPT ![r] = @ \cup {s}]
      /\ UNCHANGED <<connect, lobby, gameID, status, members, readycount>>
  BY <1>2 DEF LoadComplete, AcceptedWith, clientVars
<1>4. /\ accepted'[r] = accepted[r] \cup {s} /\ accepted'[r] \in SUBSET Users
      /\ \A q \in RoomIds : q # r => accepted'[q] = accepted[q]
      /\ AllLoaded(r) <=> members[r] \subseteq accepted'[r]
  BY <1>1, <1>2, <1>3, LastReport DEF TypeOK
<1>5. /\ \A d \in Users : d # s => c2s'[d] = c2s[d]
      /\ UNCHANGED <<scene, building, result, myRoom, myGame, shown, serverID>>
  BY <1>2, HandlesRest
<1>6. \A d \in members[r] : KeptStream(d) /\ (AllLoaded(r) => Forgets(d)')
  <2>1. CASE AllLoaded(r)
    <3>1. PICK m \in Seq(ToClient) :
             /\ \A d \in members[r] : s2c'[d] = s2c[d] \o m
             /\ 1 \in DOMAIN m /\ \A i \in DOMAIN m : m[i].t = "PUT"
      BY <1>2, <1>4, <2>1, PutsTold
    <3> TAKE d \in members[r]
    <3>2. s2c[d] \in Seq(ToClient) /\ s2c'[d] = s2c[d] \o m
      BY <1>2, <3>1 DEF TypeOK, SessionTypeOK
    <3>3. KeptStream(d)
      BY <3>1, <3>2, ToldKept
    <3>4. Forgets(d)'
      BY ONLY <3>1, <3>2, PutsForget
    <3> QED
      BY <3>3, <3>4
  <2>2. CASE ~AllLoaded(r)
    <3>1. UNCHANGED s2c
      BY <1>2, <2>2 DEF HandleLoaded
    <3> QED
      BY <2>2, <3>1 DEF KeptStream
  <2> QED
    BY <2>1, <2>2
<1>7. \A d \in Users : d \notin members[r] => Untouched(d)
  <2>1. \A d \in Users : d \notin members[r] => s2c'[d] = s2c[d]
    BY <1>2 DEF HandleLoaded, SendTo
  <2> QED
    BY <1>1, <1>3, <1>5, <2>1 DEF Untouched, SameClient, SameSlot
<1>8. \A d \in Users : Unmarked(d)'
  <2>1. ASSUME NEW d \in members[r] PROVE Unmarked(d)'
    <3>1. d \in Users /\ (Hears(d, "JOINED")' => Hears(d, "JOINED"))
      BY <1>2, <1>6, KeptNews DEF TypeOK
    <3> QED
      BY <1>3, <1>5, <3>1 DEF PressInv, Unmarked
  <2> QED
    BY <1>7, <2>1, PressUntouched DEF PressInv
<1>9. PressRoom(r)'
  BY <1>2, <1>3, <1>4, <1>6 DEF PressRoom
<1>10. \A q \in RoomIds \ {r} : \A e \in members[q] : Untouched(e)
  BY <1>2, <1>7 DEF OneRoom, TypeOK
<1> QED
  <2>1. {r} \in SUBSET RoomIds /\ \A q \in {r} : PressRoom(q)'
    BY <1>9
  <2> QED
    BY <1>3, <1>4, <1>8, <1>10, <2>1, PressFar

\* Whoever is back in the lobby has read everything, so it shows no marks.
LEMMA PressConfirm ==
    ASSUME SessionInv, PressInv, NEW s \in Users, Handles(s), Head(c2s[s]).t = "CONFIRM",
           HandleConfirm(s, Head(c2s[s]).r)
    PROVE  PressInv'
<1>1. PICK r \in RoomIds :
          s \in members[r] /\ Head(c2s[s]).r = r /\ InMatch(s, r) /\ AtTable(s, r)
  BY NextFromRoom DEF Handles
<1>2. /\ SessionTypeOK /\ TypeOK /\ OneRoom /\ PressRoom(r) /\ UNCHANGED s2c /\ s2c[s] = <<>>
      /\ ResultConfirm(s, r) /\ status[r] = "INGAME" /\ members[r] \subseteq accepted[r]
  BY <1>1 DEF SessionInv, Base, Orderly, PressInv, HandleConfirm, InMatch, AtTable
<1>3. /\ lobby' = [lobby EXCEPT ![s] = TRUE] /\ gameID' = [gameID EXCEPT ![s] = 0]
      /\ members' = [members EXCEPT ![r] = @ \ {s}] /\ UNCHANGED connect
  BY <1>2 DEF ResultConfirm, MembersWithout
<1>4. /\ members'[r] = members[r] \ {s}
      /\ status'[r] \in {"EMPTY", "INGAME"}
      /\ \A q \in RoomIds : q # r =>
            /\ members'[q] = members[q] /\ status'[q] = status[q]
            /\ accepted'[q] = accepted[q] /\ readycount'[q] = readycount[q]
  BY <1>2 DEF ResultConfirm, MembersWithout, TypeOK
<1>5. /\ \A d \in Users : d # s => c2s'[d] = c2s[d]
      /\ UNCHANGED <<scene, building, result, myRoom, myGame, shown, serverID>>
  BY <1>2, HandlesRest
<1>6. \A d \in Users : d # s => Untouched(d)
  BY <1>2, <1>3, <1>5 DEF Untouched, SameClient, SameSlot, TypeOK
<1>7. \A d \in Users : Unmarked(d)'
  <2>1. shown'[s] = {}
    BY <1>1, <1>2, <1>5 DEF PressRoom, Forgets
  <2>2. Unmarked(s)'
    BY <2>1 DEF Unmarked
  <2> QED
    BY <1>6, <2>2, PressUntouched DEF PressInv
<1>8. PressRoom(r)'
  <2>1. \A d \in members'[r] : Forgets(d)'
    BY <1>2, <1>4, <1>6, PressUntouched DEF PressRoom, TypeOK
  <2> QED
    BY <1>4, <2>1 DEF PressRoom
<1>9. \A q \in RoomIds \ {r} : \A e \in members[q] : Untouched(e)
  BY <1>1, <1>2, <1>6 DEF OneRoom, TypeOK
<1> QED
  <2>1. {r} \in SUBSET RoomIds /\ \A q \in {r} : PressRoom(q)'
    BY <1>8
  <2> QED
    BY <1>4, <1>7, <1>9, <2>1, PressFar

LEMMA PressServe ==
    ASSUME SessionInv, PressInv, NEW s \in Users, Serve(s)
    PROVE  PressInv'
<1> DEFINE p == Head(c2s[s])
<1>1. Handles(s)
  BY DEF Serve, Handles
<1>2. SessionTypeOK /\ TypeOK /\ p \in ToServer
  BY <1>1, OneRead DEF SessionInv, Base, SessionTypeOK, Handles
<1>3. CASE p.t = "MAKE" /\ HandleMake(s)
  BY <1>1, <1>3, PressMake
<1>4. ASSUME p.t \in {"JOIN", "QUICK"},
             \/ UNCHANGED vars /\ SendTo(Answer(s, FailPacket))
             \/ \E r \in RoomIds : status[r] = "JOINABLE" /\ Enter(s, r) /\ Joined(s, r)
      PROVE  PressInv'
  BY <1>1, <1>4, PressFail, PressEnter
<1>5. CASE p.t = "JOIN" /\ HandleJoin(s, p.r)
  <2>1. PICK r \in RoomIds : r = p.r
    BY <1>2, <1>5 DEF ToServer
  <2>2. JoinRoom(s, r) /\ IF status[r] \in Refused THEN SendTo(Answer(s, FailPacket))
                                                   ELSE Joined(s, r)
    BY <1>5, <2>1 DEF HandleJoin
  <2>3. \/ UNCHANGED vars /\ SendTo(Answer(s, FailPacket))
        \/ status[r] = "JOINABLE" /\ Enter(s, r) /\ Joined(s, r)
    BY <1>2, <2>2 DEF JoinRoom, Refused, TypeOK, Status
  <2> QED
    BY <1>4, <1>5, <2>3
<1>6. CASE p.t = "QUICK" /\ HandleQuick(s)
  <2>1. QuickJoin(s) /\ IF Joinable = {} THEN SendTo(Answer(s, FailPacket))
                                         ELSE Joined(s, FirstRoom(Joinable))
    BY <1>6 DEF HandleQuick
  <2>2. Joinable # {} => FirstRoom(Joinable) \in Joinable
    BY FirstRoomFound DEF Joinable
  <2>3. \/ UNCHANGED vars /\ SendTo(Answer(s, FailPacket))
        \/ \E r \in RoomIds : status[r] = "JOINABLE" /\ Enter(s, r) /\ Joined(s, r)
    BY <2>1, <2>2 DEF QuickJoin, Joinable
  <2> QED
    BY <1>4, <1>6, <2>3
<1>7. CASE p.t = "READY" /\ HandleReady(s, p.r)
  BY <1>1, <1>7, PressHandled
<1>8. CASE p.t = "LOADED" /\ HandleLoaded(s, p.r)
  BY <1>1, <1>8, PressLoaded
<1>9. CASE p.t = "CONFIRM" /\ HandleConfirm(s, p.r)
  BY <1>1, <1>9, PressConfirm
<1> QED
  BY <1>3, <1>5, <1>6, <1>7, <1>8, <1>9 DEF Serve

LEMMA PressStep ==
    ASSUME ~MayOverflow, SessionInv, PressInv, [SessionNext]_sessionVars
    PROVE  SessionInv' /\ PressInv'
<1>1. SessionInv'
  BY SessionStep
<1>2. CASE UNCHANGED sessionVars
  <2>1. UNCHANGED <<c2s, s2c, scene, building, result, myRoom, myGame, shown, serverID,
                    connect, lobby, gameID, status, members, accepted, readycount>>
    BY <1>2 DEF sessionVars, clientState, vars
  <2>2. \A d \in Users : Untouched(d)
    BY <2>1 DEF Untouched, SameClient, SameSlot
  <2>3. \A d \in Users : Unmarked(d)'
    BY <2>2, PressUntouched DEF PressInv
  <2>4. {} \in SUBSET RoomIds /\ \A q \in {} : PressRoom(q)'
    OBVIOUS
  <2>5. \A q \in RoomIds : \A e \in members[q] : Untouched(e)
    BY <2>2 DEF SessionInv, Base, TypeOK
  <2> QED
    BY <1>1, <2>1, <2>3, <2>4, <2>5, PressFar
<1>3. ASSUME NEW s \in Users, Connect(s) \/ Serve(s) \/ Receive(s) PROVE PressInv'
  BY <1>3, PressConnect, PressServe, PressReceive
<1>4. ASSUME NEW s \in Users,
             \/ ClickMake(s) \/ ClickJoin(s) \/ ClickReady(s)
             \/ Build(s) \/ ShowEnding(s) \/ ClickConfirm(s)
      PROVE  PressInv'
  BY <1>4, PressOwn, PressClick
<1>5. ASSUME NEW r \in RoomIds, EndMatch(r) PROVE PressInv'
  BY <1>5, PressEndMatch
<1> QED
  BY <1>1, <1>2, <1>3, <1>4, <1>5 DEF SessionNext

LEMMA PressAlways == ~MayOverflow /\ SessionSpec => [](SessionInv /\ PressInv)
<1>1. CASE ~MayOverflow
  <2>1. SessionInit => PressInv
    BY DEF SessionInit, Init, PressInv, Unmarked, PressRoom
  <2>2. SessionInv /\ PressInv /\ [SessionNext]_sessionVars => SessionInv' /\ PressInv'
    BY <1>1, PressStep
  <2>3. SessionSpec => [](SessionInv /\ PressInv)
    BY <2>1, <2>2, SessionStart, PTL DEF SessionSpec
  <2> QED
    BY <2>3
<1> QED
  BY <1>1

\* No press of the ready button is lost, at whatever pace the players click.
\* The server forgets the presses it has counted whenever somebody joins
\* (m_readycount = 0), and relies on SC_ENTER_NEWPLAYER to take the mark away
\* on every screen: its count is at every moment at least the number of members
\* who will still show themselves ready, so a quiet room in which all of them
\* do has started its game.
THEOREM NoPressIsLost == ~MayOverflow /\ SessionSpec => []NoLostReady
<1>1. SessionInv /\ PressInv => NoLostReady
  <2> SUFFICES ASSUME SessionInv, PressInv, NEW r \in RoomIds, members[r] # {},
                      \A s \in members[r] : Settled(s) /\ myGame[s] \in shown[s],
                      status[r] # "INGAME"
               PROVE  FALSE
    BY DEF NoLostReady
  <2>1. MarkedIn(r) = members[r]
    BY DEF MarkedIn, Marked, Settled, Hears, PressOnWay
  <2>2. status[r] \in {"JOINABLE", "FULL"}
    BY DEF SessionInv, Base, TypeOK, Status, StatusMatchesMembers
  <2>3. Size(r) <= readycount[r] /\ readycount[r] < Size(r)
    BY <2>1, <2>2 DEF PressInv, PressRoom, Size, SessionInv, Orderly, ReadyBelowSize
  <2>4. readycount[r] \in Nat /\ members[r] \in SUBSET Users
    <3>1. readycount \in [RoomIds -> Byte] /\ members[r] \in SUBSET Users
      BY DEF SessionInv, Base, TypeOK
    <3> QED
      BY <3>1 DEF Byte
  <2>5. Size(r) \in Nat
    BY <2>4, SubsetOfUsers DEF Size
  <2> QED
    BY <2>3, <2>4, <2>5
<1> QED
  BY <1>1, PressAlways, PTL
=============================================================================
