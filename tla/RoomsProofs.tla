---------------------------- MODULE RoomsProofs ----------------------------
(***************************************************************************)
(* The properties of Rooms for every number of slots, rooms, players per  *)
(* room and workers.  Rooms.tla states what each one means; the theorems  *)
(* below say under which faults it holds.                                  *)
(***************************************************************************)
EXTENDS Rooms, FiniteSetTheorems, WellFoundedInduction, TLAPS

-----------------------------------------------------------------------------
(* The operators the handlers are built from.                              *)

\* The members of a room are finitely many.
LEMMA SubsetOfUsers ==
    ASSUME NEW S \in SUBSET Users
    PROVE  IsFiniteSet(S) /\ Cardinality(S) \in Nat
<1>1. MaxUser - 1 \in Int
  BY RoomsAssumption
<1>2. IsFiniteSet(Users)
  BY <1>1, FS_Interval DEF Users
<1>3. IsFiniteSet(S)
  BY <1>2, FS_Subset
<1> QED
  BY <1>3, FS_CardinalityType

\* One player more, one player less.
LEMMA CountAdd ==
    ASSUME NEW S \in SUBSET Users, NEW s \in Users
    PROVE  Cardinality(S \cup {s}) =
               IF s \in S THEN Cardinality(S) ELSE Cardinality(S) + 1
  BY SubsetOfUsers, FS_AddElement

LEMMA CountRemove ==
    ASSUME NEW S \in SUBSET Users, NEW s \in S
    PROVE  Cardinality(S \ {s}) = Cardinality(S) - 1
  BY SubsetOfUsers, FS_RemoveElement

LEMMA CountZero ==
    ASSUME NEW S \in SUBSET Users
    PROVE  Cardinality(S) = 0 <=> S = {}
  BY SubsetOfUsers, FS_EmptySet

\* A set that is as large as one it is a part of is the same set.
LEMMA CountSubset ==
    ASSUME NEW S \in SUBSET Users, NEW T \in SUBSET S
    PROVE  /\ Cardinality(T) <= Cardinality(S)
           /\ Cardinality(T) = Cardinality(S) => T = S
<1>1. IsFiniteSet(S)
  BY SubsetOfUsers
<1> QED
  BY <1>1, FS_Subset

\* The scan "for (i = 0; i < MAX_ROOM; ++i) ... break;" finds a room of the
\* set it looks for whenever there is one.
LEMMA FirstRoomFound ==
    ASSUME NEW S \in SUBSET RoomIds, S # {}
    PROVE  FirstRoom(S) \in S
<1>1. RoomIds \subseteq Nat
  BY RoomsAssumption DEF RoomIds
<1>2. S \subseteq Nat
  BY <1>1
<1>3. PICK x \in S : \A y \in S : ~(<<y, x>> \in OpToRel(<, Nat))
  BY <1>2, NatLessThanWellFounded, WFMin
<1>4. \A y \in S : ~(y < x)
  BY <1>2, <1>3 DEF OpToRel
<1>5. \A y \in S : x <= y
  BY <1>2, <1>4
<1> QED
  BY <1>5 DEF FirstRoom

-----------------------------------------------------------------------------
(* Type correctness.                                                       *)

LEMMA TypeStep == TypeOK /\ [Next]_vars => TypeOK'
<1> SUFFICES ASSUME TypeOK, [Next]_vars PROVE TypeOK'
  OBVIOUS
<1> USE DEF TypeOK, roomVars, clientVars
<1>1. \A n \in Nat : Inc(n) \in Byte /\ NewGameID(n) \in Byte
  BY DEF Inc, NewGameID, Byte
<1>2. ASSUME NEW s \in Users, Accept(s) PROVE TypeOK'
  BY <1>2 DEF Accept
<1>3. ASSUME NEW s \in Users, Drop(s) PROVE TypeOK'
  BY <1>3 DEF Drop, DisconnectClient
<1>4. ASSUME NEW s \in Users, Make(s) PROVE TypeOK'
  <2>1. EmptyRooms # {} => FirstRoom(EmptyRooms) \in RoomIds
    <3>1. EmptyRooms \in SUBSET RoomIds
      BY DEF EmptyRooms
    <3> QED
      BY <3>1, FirstRoomFound
  <2>2. 0 \in Byte /\ "JOINABLE" \in Status
    BY DEF Byte, Status
  <2> QED
    BY <1>4, <2>1, <2>2 DEF Make, MakeRoom
<1>5. ASSUME NEW s \in Users, NEW r \in RoomIds, Enter(s, r) PROVE TypeOK'
  <2>1. Cardinality(members[r] \cup {s}) \in Nat
    BY SubsetOfUsers
  <2>2. \A n, old : EnteredStatus(n, old) \in {"FULL", old}
    BY DEF EnteredStatus
  <2>3. 0 \in Byte /\ "FULL" \in Status
    BY DEF Byte, Status
  <2> QED
    BY <1>1, <1>5, <2>1, <2>2, <2>3 DEF Enter
<1>6. ASSUME NEW s \in Users, Quick(s) PROVE TypeOK'
  <2>1. Joinable # {} => FirstRoom(Joinable) \in RoomIds
    <3>1. Joinable \in SUBSET RoomIds
      BY DEF Joinable
    <3> QED
      BY <3>1, FirstRoomFound
  <2> QED
    BY <1>5, <1>6, <2>1 DEF Quick, QuickJoin, vars
<1>7. ASSUME NEW s \in Users, NEW r \in RoomIds, Join(s, r) PROVE TypeOK'
  BY <1>5, <1>7 DEF Join, JoinRoom, vars
<1>8. ASSUME NEW s \in Users, NEW r \in RoomIds, PressReady(s, r) PROVE TypeOK'
  <2>1. Byte \subseteq Nat /\ 0 \in Byte /\ "INGAME" \in Status
    BY DEF Byte, Status
  <2> QED
    BY <1>1, <1>8, <2>1 DEF PressReady, Ready, AfterBroadcast
<1>9. ASSUME NEW s \in Users, NEW r \in RoomIds, Loaded(s, r) PROVE TypeOK'
  <2>1. Byte \subseteq Nat /\ 0 \in Byte
    BY DEF Byte
  <2> QED
    BY <1>1, <1>9, <2>1 DEF Loaded, LoadComplete, AcceptedWith, AfterBroadcast
<1>10. ASSUME NEW s \in Users, NEW r \in RoomIds, Confirm(s, r) PROVE TypeOK'
  <2>1. 0 \in Byte /\ "EMPTY" \in Status
    BY DEF Byte, Status
  <2> QED
    BY <1>10, <2>1 DEF Confirm, ResultConfirm, MembersWithout
<1>11. CASE UNCHANGED vars
  BY <1>11 DEF vars
<1> QED
  BY <1>2, <1>3, <1>4, <1>6, <1>7, <1>8, <1>9, <1>10, <1>11 DEF Next

\* Every variable keeps its type, whatever fails.
THEOREM TypeCorrect == Spec => []TypeOK
<1>1. Init => TypeOK
  BY RoomsAssumption DEF Init, TypeOK, Byte, Status, RoomIds
<1> QED
  BY <1>1, TypeStep, PTL DEF Spec

-----------------------------------------------------------------------------
(* Where the scans of the three ways into a room end.                      *)

\* CS_MAKE_ROOM takes a room without members, when there must be one.
LEMMA MakeEffect ==
    ASSUME TypeOK, ~MayOverflow, NEW s \in Users, Make(s)
    PROVE  \E r \in RoomIds :
              /\ members[r] = {}
              /\ Served(s) /\ lobby[s]
              /\ gameID' = [gameID EXCEPT ![s] = 0]
              /\ lobby' = [lobby EXCEPT ![s] = FALSE]
              /\ status' = [status EXCEPT ![r] = "JOINABLE"]
              /\ members' = [members EXCEPT ![r] = @ \cup {s}]
              /\ UNCHANGED <<connect, accepted, readycount, loadcount, hung>>
<1>1. EmptyRooms # {} /\ EmptyRooms \in SUBSET RoomIds
  BY DEF Make, EmptyRooms
<1>2. FirstRoom(EmptyRooms) \in EmptyRooms
  BY <1>1, FirstRoomFound
<1>3. FirstRoom(EmptyRooms) \in RoomIds /\ members[FirstRoom(EmptyRooms)] = {}
  BY <1>2 DEF EmptyRooms
<1> QED
  BY <1>1, <1>3 DEF Make, MakeRoom

\* Either join changes nothing or enters a room that is JOINABLE.
LEMMA JoinEffect ==
    ASSUME TypeOK, NEW s \in Users, Quick(s) \/ \E r \in RoomIds : Join(s, r)
    PROVE  \/ UNCHANGED vars
           \/ \E r \in RoomIds :
                 status[r] = "JOINABLE" /\ Served(s) /\ lobby[s] /\ Enter(s, r)
<1>1. CASE Quick(s)
  <2>1. Joinable # {} => FirstRoom(Joinable) \in Joinable
    <3>1. Joinable \in SUBSET RoomIds
      BY DEF Joinable
    <3> QED
      BY <3>1, FirstRoomFound
  <2> QED
    BY <1>1, <2>1 DEF Quick, QuickJoin, Joinable
<1>2. CASE \E r \in RoomIds : Join(s, r)
  <2>1. \A r \in RoomIds : status[r] \notin Refused => status[r] = "JOINABLE"
    BY DEF TypeOK, Refused, Status
  <2> QED
    BY <1>2, <2>1 DEF Join, JoinRoom
<1> QED
  BY <1>1, <1>2

-----------------------------------------------------------------------------
(* Status and member list of a room.                                       *)

LEMMA StatusStep == TypeOK /\ StatusMatchesMembers /\ [Next]_vars
                       => StatusMatchesMembers'
<1> SUFFICES ASSUME TypeOK, StatusMatchesMembers, [Next]_vars,
                    NEW q \in RoomIds
             PROVE  status'[q] = "EMPTY" <=> members'[q] = {}
  BY DEF StatusMatchesMembers
<1> USE DEF TypeOK, StatusMatchesMembers, roomVars, clientVars
<1>1. ASSUME NEW s \in Users, Accept(s) \/ Drop(s)
      PROVE  status'[q] = "EMPTY" <=> members'[q] = {}
  BY <1>1 DEF Accept, Drop, DisconnectClient
<1>2. ASSUME NEW s \in Users, Make(s)
      PROVE  status'[q] = "EMPTY" <=> members'[q] = {}
  BY <1>2 DEF Make, MakeRoom
<1>3. ASSUME NEW s \in Users, NEW r \in RoomIds, status[r] # "EMPTY", Enter(s, r)
      PROVE  status'[q] = "EMPTY" <=> members'[q] = {}
  <2>1. \A n, old : EnteredStatus(n, old) \in {"FULL", old}
    BY DEF EnteredStatus
  <2>2. CASE q = r
    BY <1>3, <2>1, <2>2 DEF Enter
  <2>3. CASE q # r
    BY <1>3, <2>3 DEF Enter
  <2> QED
    BY <2>2, <2>3
<1>4. ASSUME NEW s \in Users, Quick(s) \/ \E r \in RoomIds : Join(s, r)
      PROVE  status'[q] = "EMPTY" <=> members'[q] = {}
  BY <1>3, <1>4, JoinEffect DEF vars
<1>6. ASSUME NEW s \in Users, NEW r \in RoomIds, PressReady(s, r)
      PROVE  status'[q] = "EMPTY" <=> members'[q] = {}
  BY <1>6 DEF PressReady, Ready
<1>7. ASSUME NEW s \in Users, NEW r \in RoomIds, Loaded(s, r)
      PROVE  status'[q] = "EMPTY" <=> members'[q] = {}
  BY <1>7 DEF Loaded, LoadComplete
<1>8. ASSUME NEW s \in Users, NEW r \in RoomIds, Confirm(s, r)
      PROVE  status'[q] = "EMPTY" <=> members'[q] = {}
  BY <1>8 DEF Confirm, ResultConfirm
<1>9. CASE UNCHANGED vars
  BY <1>9 DEF vars
<1> QED
  BY <1>1, <1>2, <1>4, <1>6, <1>7, <1>8, <1>9 DEF Next

\* A room's status says EMPTY exactly when its list is empty, even with
\* players dropping and rooms made when none is free: the two fields that
\* CS_MAKE_ROOM and the joins look rooms up by agree.
THEOREM StatusAgrees == Spec => []StatusMatchesMembers
<1>1. Init => TypeOK /\ StatusMatchesMembers
  <2>1. Init => TypeOK
    BY RoomsAssumption DEF Init, TypeOK, Byte, Status, RoomIds
  <2> QED
    BY <2>1 DEF Init, StatusMatchesMembers
<1>2. TypeOK /\ StatusMatchesMembers /\ [Next]_vars
        => (TypeOK /\ StatusMatchesMembers)'
  BY TypeStep, StatusStep
<1> QED
  BY <1>1, <1>2, PTL DEF Spec

-----------------------------------------------------------------------------
(* Capacity, with players dropping.  CS_MAKE_ROOM must find an empty room: *)
(* otherwise it marks a full or running room JOINABLE.                     *)

LEMMA CapacityStep ==
    ASSUME ~MayOverflow
    PROVE  TypeOK /\ StatusMatchesMembers /\ RoomCapacity /\ [Next]_vars
              => RoomCapacity'
<1> SUFFICES ASSUME TypeOK, StatusMatchesMembers, RoomCapacity, [Next]_vars,
                    NEW q \in RoomIds
             PROVE  /\ status'[q] = "JOINABLE" => Cardinality(members'[q]) < MaxGamer
                    /\ status'[q] = "FULL" => Cardinality(members'[q]) = MaxGamer
                    /\ Cardinality(members'[q]) <= MaxGamer
  BY DEF RoomCapacity, Size
<1> DEFINE Good == /\ status'[q] = "JOINABLE" => Cardinality(members'[q]) < MaxGamer
                   /\ status'[q] = "FULL" => Cardinality(members'[q]) = MaxGamer
                   /\ Cardinality(members'[q]) <= MaxGamer
<1> USE DEF TypeOK, StatusMatchesMembers, roomVars, clientVars
<1>a. /\ status[q] = "JOINABLE" => Cardinality(members[q]) < MaxGamer
      /\ status[q] = "FULL" => Cardinality(members[q]) = MaxGamer
      /\ Cardinality(members[q]) <= MaxGamer
  BY DEF RoomCapacity, Size
<1>b. members[q] \in SUBSET Users /\ Cardinality(members[q]) \in Nat
  BY SubsetOfUsers
<1>c. MaxGamer \in Nat /\ MaxGamer >= 2
  BY RoomsAssumption
<1>1. ASSUME NEW s \in Users, Accept(s) \/ Drop(s)
      PROVE  Good
  BY <1>a, <1>1 DEF Accept, Drop, DisconnectClient
<1>2. ASSUME NEW s \in Users, Make(s)
      PROVE  Good
  <2>1. PICK r \in RoomIds :
           /\ members[r] = {}
           /\ status' = [status EXCEPT ![r] = "JOINABLE"]
           /\ members' = [members EXCEPT ![r] = @ \cup {s}]
    BY <1>2, MakeEffect
  <2>3. CASE q = r
    <3>2. members'[q] = {s}
      BY <2>1, <2>3
    <3>3. Cardinality({s}) = 1
      BY FS_Singleton
    <3>4. Cardinality(members'[q]) = 1
      BY <3>2, <3>3
    <3>5. status'[q] = "JOINABLE"
      BY <2>1, <2>3
    <3> QED
      BY <1>c, <3>4, <3>5
  <2>4. CASE q # r
    BY <1>a, <2>1, <2>4
  <2> QED
    BY <2>3, <2>4
<1>3. ASSUME NEW s \in Users, NEW r \in RoomIds, status[r] = "JOINABLE", Enter(s, r)
      PROVE  Good
  <2>1. CASE q = r
    <3>1. /\ members'[q] = members[q] \cup {s}
          /\ status'[q] = EnteredStatus(Cardinality(members[q] \cup {s}), "JOINABLE")
      BY <1>3, <2>1 DEF Enter
    <3>2. Cardinality(members[q] \cup {s}) \in {Cardinality(members[q]), Cardinality(members[q]) + 1}
      BY <1>b, CountAdd
    <3>3. Cardinality(members[q]) < MaxGamer
      BY <1>a, <1>3, <2>1
    <3> QED
      BY <1>b, <1>c, <3>1, <3>2, <3>3 DEF EnteredStatus
  <2>2. CASE q # r
    BY <1>a, <1>3, <2>2 DEF Enter
  <2> QED
    BY <2>1, <2>2
<1>4. ASSUME NEW s \in Users, Quick(s) \/ \E r \in RoomIds : Join(s, r)
      PROVE  Good
  <2>1. UNCHANGED vars => Good
    BY <1>a DEF vars
  <2> QED
    BY <1>3, <1>4, <2>1, JoinEffect
<1>6. ASSUME NEW s \in Users, NEW r \in RoomIds, PressReady(s, r)
      PROVE  Good
  BY <1>a, <1>6 DEF PressReady, Ready
<1>7. ASSUME NEW s \in Users, NEW r \in RoomIds, Loaded(s, r)
      PROVE  Good
  BY <1>a, <1>7 DEF Loaded, LoadComplete
<1>8. ASSUME NEW s \in Users, NEW r \in RoomIds, Confirm(s, r)
      PROVE  Good
  <2>1. CASE q = r
    <3>1. /\ status[q] = "INGAME"
          /\ s \in members[q]
          /\ members'[q] = members[q] \ {s}
          /\ status'[q] \in {"EMPTY", "INGAME"}
      BY <1>8, <2>1 DEF Confirm, ResultConfirm, MembersWithout
    <3>2. Cardinality(members'[q]) = Cardinality(members[q]) - 1
      BY <1>b, <3>1, CountRemove
    <3> QED
      BY <1>a, <1>b, <1>c, <3>1, <3>2
  <2>2. CASE q # r
    BY <1>a, <1>8, <2>2 DEF Confirm, ResultConfirm
  <2> QED
    BY <2>1, <2>2
<1>9. CASE UNCHANGED vars
  BY <1>a, <1>9 DEF vars
<1> QED
  BY <1>1, <1>2, <1>4, <1>6, <1>7, <1>8, <1>9 DEF Next

\* As long as CS_MAKE_ROOM finds an empty room, no room ever holds more than
\* MAX_GAMER players and one that is offered to the joins has a place left,
\* whoever drops and whichever slot is used again.
THEOREM CapacityKept == ~MayOverflow /\ Spec => []RoomCapacity
<1>0. CASE ~MayOverflow
  <2> DEFINE I == TypeOK /\ StatusMatchesMembers /\ RoomCapacity
  <2>1. Init => I
    <3>1. Init => TypeOK
      BY RoomsAssumption DEF Init, TypeOK, Byte, Status, RoomIds
    <3>2. Init => StatusMatchesMembers
      BY DEF Init, StatusMatchesMembers
    <3>3. Init => RoomCapacity
      BY RoomsAssumption, FS_EmptySet DEF Init, RoomCapacity, Size
    <3> QED
      BY <3>1, <3>2, <3>3
  <2>2. I /\ [Next]_vars => I'
    BY <1>0, TypeStep, StatusStep, CapacityStep
  <2>3. I => RoomCapacity
    OBVIOUS
  <2> HIDE DEF I
  <2> QED
    BY <2>1, <2>2, <2>3, PTL DEF Spec
<1>1. CASE MayOverflow
  BY <1>1
<1> QED
  BY <1>0, <1>1

-----------------------------------------------------------------------------
(* A running game.                                                         *)

\* While a game runs nobody enters its room, and the room is offered again
\* only after the last player has left, as long as CS_MAKE_ROOM finds an
\* empty room.
THEOREM GameStaysClosed == ~MayOverflow /\ Spec => GameClosed
<1>0. CASE ~MayOverflow
  <2> DEFINE I == TypeOK /\ StatusMatchesMembers
             Closed == \A r \in RoomIds : status[r] = "INGAME" =>
                          /\ members'[r] \subseteq members[r]
                          /\ status'[r] = "INGAME" \/ members'[r] = {}
  <2>1. Init => I
    <3>1. Init => TypeOK
      BY RoomsAssumption DEF Init, TypeOK, Byte, Status, RoomIds
    <3> QED
      BY <3>1 DEF Init, StatusMatchesMembers
  <2>2. I /\ [Next]_vars => I'
    BY TypeStep, StatusStep
  <2>3. I /\ [Next]_vars => [Closed]_vars
    <3> SUFFICES ASSUME TypeOK, StatusMatchesMembers, Next,
                        NEW q \in RoomIds, status[q] = "INGAME"
                 PROVE  /\ members'[q] \subseteq members[q]
                        /\ status'[q] = "INGAME" \/ members'[q] = {}
      OBVIOUS
    <3> DEFINE Good == /\ members'[q] \subseteq members[q]
                       /\ status'[q] = "INGAME" \/ members'[q] = {}
    <3> USE DEF TypeOK, roomVars, clientVars
    <3>1. ASSUME NEW s \in Users, Accept(s) \/ Drop(s) PROVE Good
      BY <3>1 DEF Accept, Drop, DisconnectClient
    <3>2. ASSUME NEW s \in Users, Make(s) PROVE Good
      <4>1. PICK r \in RoomIds :
               /\ members[r] = {}
               /\ status' = [status EXCEPT ![r] = "JOINABLE"]
               /\ members' = [members EXCEPT ![r] = @ \cup {s}]
        BY <1>0, <3>2, MakeEffect
      <4>2. q # r
        BY <4>1 DEF StatusMatchesMembers
      <4> QED
        BY <4>1, <4>2
    <3>3. ASSUME NEW s \in Users, NEW r \in RoomIds, status[r] = "JOINABLE",
                 Enter(s, r)
          PROVE  Good
      BY <3>3 DEF Enter
    <3>4. ASSUME NEW s \in Users, Quick(s) \/ \E r \in RoomIds : Join(s, r)
          PROVE  Good
      BY <3>3, <3>4, JoinEffect DEF vars
    <3>6. ASSUME NEW s \in Users, NEW r \in RoomIds, PressReady(s, r) PROVE Good
      BY <3>6 DEF PressReady, Ready
    <3>7. ASSUME NEW s \in Users, NEW r \in RoomIds, Loaded(s, r) PROVE Good
      BY <3>7 DEF Loaded, LoadComplete
    <3>8. ASSUME NEW s \in Users, NEW r \in RoomIds, Confirm(s, r) PROVE Good
      BY <3>8 DEF Confirm, ResultConfirm, MembersWithout
    <3> QED
      BY <3>1, <3>2, <3>4, <3>6, <3>7, <3>8 DEF Next
  <2> HIDE DEF I
  <2> QED
    BY <2>1, <2>2, <2>3, PTL DEF Spec, GameClosed
<1>1. CASE MayOverflow
  BY <1>1
<1> QED
  BY <1>0, <1>1

-----------------------------------------------------------------------------
(* Without faults.  The four remaining properties hold when nobody drops   *)
(* and CS_MAKE_ROOM finds an empty room; none of them is inductive alone.  *)
(* A join may give out size() - 1 because the ids in a waiting room are    *)
(* below its size, which holds because nobody leaves a waiting room and no *)
(* player is in two rooms; a game starts with an empty                     *)
(* m_AcceptLoading_list because the last player to leave reset it.         *)

NobodyGone ==
    /\ hung = {}
    /\ \A r \in RoomIds : \A s \in members[r] : connect[s]

EmptyIsReset ==
    \A r \in RoomIds : status[r] = "EMPTY" =>
        accepted[r] = {} /\ readycount[r] = 0 /\ loadcount[r] = 0

IdsBelowSize ==
    \A r \in RoomIds : status[r] \in {"JOINABLE", "FULL"} =>
        \A s \in members[r] : gameID[s] < Size(r)

Orderly ==
    /\ NobodyGone /\ OneRoom
    /\ EmptyIsReset /\ IdsBelowSize /\ DistinctGameIDs
    /\ ReadyBelowSize /\ LoadAccounting

Base == TypeOK /\ StatusMatchesMembers /\ RoomCapacity

LEMMA BaseStep ==
    ASSUME ~MayOverflow
    PROVE  Base /\ [Next]_vars => Base'
  BY TypeStep, StatusStep, CapacityStep DEF Base

\* size() - 1 fits m_GameID as long as a room holds at most 256 players.
LEMMA IdOfCount ==
    ASSUME NEW k \in Nat, k < 256
    PROVE  NewGameID(k + 1) = k
  BY DEF NewGameID

LEMMA OrderlyAccept ==
    ASSUME Base, Orderly, NEW s \in Users, Accept(s)
    PROVE  Orderly'
<1> USE DEF Base, Orderly, TypeOK, Accept, roomVars, Size
<1>1. NobodyGone'
  BY DEF NobodyGone
<1>2. OneRoom'
  <2>1. \A r \in RoomIds : s \notin members[r]
    BY DEF NobodyGone
  <2> QED
    BY <2>1 DEF OneRoom
<1>3. EmptyIsReset' /\ IdsBelowSize' /\ DistinctGameIDs'
  BY DEF EmptyIsReset, IdsBelowSize, DistinctGameIDs
<1>4. ReadyBelowSize' /\ LoadAccounting'
  BY DEF ReadyBelowSize, LoadAccounting
<1> QED
  BY <1>1, <1>2, <1>3, <1>4

LEMMA OrderlyMake ==
    ASSUME Base, Orderly, ~MayOverflow, NEW s \in Users, Make(s)
    PROVE  Orderly'
<1> USE DEF Base, Orderly
<1>1. PICK r \in RoomIds :
         /\ members[r] = {}
         /\ Served(s) /\ lobby[s]
         /\ gameID' = [gameID EXCEPT ![s] = 0]
         /\ lobby' = [lobby EXCEPT ![s] = FALSE]
         /\ status' = [status EXCEPT ![r] = "JOINABLE"]
         /\ members' = [members EXCEPT ![r] = @ \cup {s}]
         /\ UNCHANGED <<connect, accepted, readycount, loadcount, hung>>
  BY MakeEffect
<1>2. members'[r] = {s} /\ status'[r] = "JOINABLE" /\ Cardinality(members'[r]) = 1
  <2>1. members'[r] = {s} /\ status'[r] = "JOINABLE"
    BY <1>1 DEF TypeOK
  <2> QED
    BY <2>1, FS_Singleton
<1>3. \A q \in RoomIds : q # r => members'[q] = members[q] /\ status'[q] = status[q]
  BY <1>1 DEF TypeOK
<1>4. \A q \in RoomIds : s \notin members[q]
  BY <1>1 DEF OneRoom
<1>5. accepted[r] = {} /\ readycount[r] = 0 /\ loadcount[r] = 0
  BY <1>1 DEF EmptyIsReset, StatusMatchesMembers
<1>6. gameID'[s] = 0 /\ ~lobby'[s] /\ \A t \in Users : t # s =>
          gameID'[t] = gameID[t] /\ lobby'[t] = lobby[t]
  BY <1>1 DEF TypeOK
<1>7. members \in [RoomIds -> SUBSET Users]
  BY DEF TypeOK
<1>8. NobodyGone'
  BY <1>1, <1>2, <1>3 DEF NobodyGone, Served
<1>9. OneRoom'
  BY <1>2, <1>3, <1>4, <1>6, <1>7 DEF OneRoom
<1>10. EmptyIsReset'
  BY <1>1, <1>2, <1>3 DEF EmptyIsReset
<1>11. IdsBelowSize'
  <2> SUFFICES ASSUME NEW q \in RoomIds, status'[q] \in {"JOINABLE", "FULL"},
                      NEW t \in members'[q]
               PROVE  gameID'[t] < Cardinality(members'[q])
    BY DEF IdsBelowSize, Size
  <2>1. CASE q = r
    <3>1. gameID'[t] = 0
      BY <1>2, <1>6, <2>1
    <3> QED
      BY <1>2, <2>1, <3>1
  <2>2. CASE q # r
    <3>1. t \in Users /\ t # s /\ t \in members[q]
      BY <1>3, <1>4, <1>7, <2>2
    <3> QED
      BY <1>3, <1>6, <2>2, <3>1 DEF IdsBelowSize, Size
  <2> QED
    BY <2>1, <2>2
<1>12. DistinctGameIDs'
  BY <1>2, <1>3, <1>4, <1>6, <1>7 DEF DistinctGameIDs
<1>13. ReadyBelowSize'
  BY <1>1, <1>2, <1>3, <1>5 DEF ReadyBelowSize, Size
<1>14. LoadAccounting'
  BY <1>1, <1>2, <1>3, <1>5 DEF LoadAccounting, Size
<1> QED
  BY <1>8, <1>9, <1>10, <1>11, <1>12, <1>13, <1>14

LEMMA OrderlyEnter ==
    ASSUME Base, Orderly, NEW s \in Users, NEW r \in RoomIds,
           status[r] = "JOINABLE", Served(s), lobby[s], Enter(s, r)
    PROVE  Orderly'
<1> USE DEF Base, Orderly
<1>1. members \in [RoomIds -> SUBSET Users] /\ gameID \in [Users -> Byte]
  BY DEF TypeOK
<1>2. \A q \in RoomIds : s \notin members[q]
  BY DEF OneRoom
<1> DEFINE n == Cardinality(members[r])
<1>3. n \in Nat /\ 0 < n /\ n < MaxGamer /\ MaxGamer <= 255
  <2>1. n \in Nat
    BY <1>1, SubsetOfUsers
  <2>2. n # 0
    BY <1>1, CountZero DEF StatusMatchesMembers
  <2>3. n < MaxGamer
    BY DEF RoomCapacity, Size
  <2> QED
    BY <2>1, <2>2, <2>3, RoomsAssumption
<1>4. members'[r] = members[r] \cup {s} /\ Cardinality(members[r] \cup {s}) = n + 1
  BY <1>1, <1>2, CountAdd DEF Enter
<1>5. NewGameID(n + 1) = n
  <2> HIDE DEF n
  <2>1. n \in Nat /\ n < 256
    BY <1>3, RoomsAssumption
  <2> QED
    BY <2>1, IdOfCount
<1>6. /\ gameID'[s] = n /\ ~lobby'[s]
      /\ \A t \in Users : t # s => gameID'[t] = gameID[t] /\ lobby'[t] = lobby[t]
  BY <1>4, <1>5 DEF Enter, TypeOK
<1>7. /\ status'[r] \in {"JOINABLE", "FULL"} /\ readycount'[r] = 0
      /\ \A q \in RoomIds : q # r =>
            /\ members'[q] = members[q] /\ status'[q] = status[q]
            /\ readycount'[q] = readycount[q]
      /\ UNCHANGED <<connect, accepted, loadcount>>
  BY DEF Enter, EnteredStatus, TypeOK
<1>8. NobodyGone'
  <2>1. hung' = {}
    BY <1>1 DEF Enter, NobodyGone
  <2> QED
    BY <1>4, <1>7, <2>1 DEF NobodyGone, Served
<1>9. OneRoom'
  BY <1>1, <1>2, <1>4, <1>6, <1>7 DEF OneRoom
<1>10. EmptyIsReset'
  BY <1>7 DEF EmptyIsReset
<1>11. \A t \in members[r] : gameID[t] < n /\ gameID[t] \in Nat
  <2>1. \A t \in Users : gameID[t] \in Nat
    BY <1>1 DEF Byte
  <2> QED
    BY <1>1, <2>1 DEF IdsBelowSize, Size
<1>12. IdsBelowSize'
  <2> SUFFICES ASSUME NEW q \in RoomIds, status'[q] \in {"JOINABLE", "FULL"},
                      NEW t \in members'[q]
               PROVE  gameID'[t] < Cardinality(members'[q])
    BY DEF IdsBelowSize, Size
  <2>1. CASE q = r
    <3>1. gameID'[t] < n + 1
      BY <1>1, <1>3, <1>4, <1>6, <1>11, <2>1
    <3> QED
      BY <1>4, <2>1, <3>1
  <2>2. CASE q # r
    <3>1. t \in Users /\ t # s /\ t \in members[q]
      BY <1>1, <1>2, <1>7, <2>2
    <3> QED
      BY <1>6, <1>7, <2>2, <3>1 DEF IdsBelowSize, Size
  <2> QED
    BY <2>1, <2>2
<1>13. DistinctGameIDs'
  BY <1>1, <1>2, <1>3, <1>4, <1>6, <1>7, <1>11 DEF DistinctGameIDs
<1>14. ReadyBelowSize'
  <2>1. readycount'[r] < Cardinality(members'[r])
    <3> HIDE DEF n
    <3>1. Cardinality(members'[r]) = n + 1
      BY <1>4
    <3> QED
      BY <1>3, <1>7, <3>1
  <2> QED
    BY <1>7, <2>1 DEF ReadyBelowSize, Size
<1>15. LoadAccounting'
  BY <1>7 DEF LoadAccounting, Size
<1> QED
  BY <1>8, <1>9, <1>10, <1>12, <1>13, <1>14, <1>15

LEMMA OrderlyReady ==
    ASSUME Base, Orderly, NEW s \in Users, NEW r \in RoomIds, PressReady(s, r)
    PROVE  Orderly'
<1> USE DEF Base, Orderly
<1>1. ~Unreachable(r) /\ hung = {}
  BY DEF Unreachable, NobodyGone
<1>2. UNCHANGED <<connect, lobby, gameID, members, accepted, loadcount, hung>>
  BY <1>1 DEF PressReady, Ready, AfterBroadcast, clientVars
<1>3. \A q \in RoomIds : q # r =>
         status'[q] = status[q] /\ readycount'[q] = readycount[q]
  BY DEF PressReady, Ready, TypeOK
<1>4. members[r] \in SUBSET Users /\ Cardinality(members[r]) \in Nat
  BY SubsetOfUsers DEF TypeOK
<1>5. CASE status[r] = "INGAME"
  <2>1. status' = status
    BY <1>5 DEF PressReady, Ready, TypeOK
  <2>2. NobodyGone' /\ OneRoom' /\ EmptyIsReset'
    BY <1>2, <1>3, <1>5, <2>1 DEF NobodyGone, OneRoom, EmptyIsReset
  <2>3. IdsBelowSize' /\ DistinctGameIDs' /\ LoadAccounting'
    BY <1>2, <2>1 DEF IdsBelowSize, DistinctGameIDs, LoadAccounting, Size
  <2>4. ReadyBelowSize'
    BY <1>2, <1>3, <1>5, <2>1 DEF ReadyBelowSize, Size
  <2> QED
    BY <2>2, <2>3, <2>4
<1>6. CASE status[r] \in {"JOINABLE", "FULL"}
  <2>5. Inc(readycount[r]) = readycount[r] + 1 /\ readycount[r] + 1 <= Size(r)
    <3>1. readycount[r] \in Nat /\ readycount[r] < Size(r) /\ Size(r) <= MaxGamer
      BY <1>6 DEF PressReady, ReadyBelowSize, RoomCapacity, TypeOK, Byte
    <3>2. MaxGamer <= 255 /\ Size(r) \in Nat /\ MaxGamer \in Nat
      BY <1>4, RoomsAssumption DEF Size
    <3> QED
      BY <3>1, <3>2 DEF Inc
  <2>6. CASE readycount[r] + 1 = Size(r)
    <3>1. status'[r] = "INGAME" /\ readycount'[r] = 0
      BY <1>1, <2>5, <2>6 DEF PressReady, Ready, AllReady, TypeOK
    <3>2. accepted[r] = {} /\ loadcount[r] = 0 /\ members[r] # {}
      BY <1>6 DEF PressReady, LoadAccounting
    <3>3. LoadAccounting'
      BY <1>2, <1>3, <3>1, <3>2, FS_EmptySet DEF LoadAccounting, Size
    <3>4. NobodyGone' /\ OneRoom' /\ EmptyIsReset'
      BY <1>2, <1>3, <3>1 DEF NobodyGone, OneRoom, EmptyIsReset
    <3>5. IdsBelowSize' /\ DistinctGameIDs' /\ ReadyBelowSize'
      BY <1>2, <1>3, <3>1 DEF IdsBelowSize, DistinctGameIDs, ReadyBelowSize, Size
    <3> QED
      BY <3>3, <3>4, <3>5
  <2>7. CASE readycount[r] + 1 # Size(r)
    <3>1. status' = status /\ readycount'[r] = readycount[r] + 1
      BY <1>1, <2>5, <2>7 DEF PressReady, Ready, AllReady, TypeOK
    <3>2. readycount'[r] < Size(r)
      BY <1>4, <2>5, <2>7, <3>1 DEF Size, TypeOK, Byte
    <3>4. NobodyGone' /\ OneRoom' /\ EmptyIsReset'
      BY <1>2, <1>3, <3>1, <1>6 DEF NobodyGone, OneRoom, EmptyIsReset
    <3>5. IdsBelowSize' /\ DistinctGameIDs'
      BY <1>2, <3>1 DEF IdsBelowSize, DistinctGameIDs, Size
    <3>6. ReadyBelowSize'
      BY <1>2, <1>3, <3>1, <3>2 DEF ReadyBelowSize, Size
    <3>7. LoadAccounting'
      BY <1>2, <3>1 DEF LoadAccounting, Size
    <3> QED
      BY <3>4, <3>5, <3>6, <3>7
  <2> QED
    BY <2>6, <2>7
<1>7. status[r] # "EMPTY" /\ status[r] \in Status
  BY DEF PressReady, StatusMatchesMembers, TypeOK
<1> QED
  BY <1>5, <1>6, <1>7 DEF Status

LEMMA OrderlyLoaded ==
    ASSUME Base, Orderly, NEW s \in Users, NEW r \in RoomIds, Loaded(s, r)
    PROVE  Orderly'
<1> USE DEF Base, Orderly
<1>1. ~Unreachable(r) /\ hung = {}
  BY DEF Unreachable, NobodyGone
<1>2. UNCHANGED <<connect, lobby, gameID, status, members, readycount, hung>>
  BY <1>1 DEF Loaded, LoadComplete, AfterBroadcast, clientVars
<1>3. accepted'[r] = accepted[r] \cup {s} /\ \A q \in RoomIds : q # r =>
         accepted'[q] = accepted[q] /\ loadcount'[q] = loadcount[q]
  BY DEF Loaded, LoadComplete, AcceptedWith, TypeOK
<1> DEFINE n == Cardinality(accepted[r])
<1>4. /\ status[r] = "INGAME" /\ s \in members[r] \ accepted[r]
      /\ accepted[r] \subseteq members[r] /\ loadcount[r] = n
  BY DEF Loaded, LoadAccounting
<1>5. /\ members[r] \in SUBSET Users /\ accepted[r] \in SUBSET Users
      /\ n \in Nat /\ Size(r) \in Nat
  BY SubsetOfUsers DEF TypeOK, Size
<1>6. Cardinality(accepted[r] \cup {s}) = n + 1
  BY <1>4, <1>5, CountAdd
<1>7. n + 1 <= Size(r) /\ (n + 1 = Size(r) => accepted[r] \cup {s} = members[r])
  <2>1. accepted[r] \cup {s} \in SUBSET members[r]
    BY <1>4
  <2> QED
    BY <1>5, <1>6, <2>1, CountSubset DEF Size
<1>8. Inc(n) = n + 1
  <2> HIDE DEF n
  <2>1. n + 1 <= MaxGamer /\ MaxGamer <= 255 /\ MaxGamer \in Nat
    BY <1>5, <1>7, RoomsAssumption DEF RoomCapacity
  <2> QED
    BY <1>5, <2>1 DEF Inc
<1>9. NobodyGone' /\ OneRoom' /\ EmptyIsReset'
  BY <1>2, <1>3, <1>4 DEF NobodyGone, OneRoom, EmptyIsReset
<1>10. IdsBelowSize' /\ DistinctGameIDs' /\ ReadyBelowSize'
  BY <1>2 DEF IdsBelowSize, DistinctGameIDs, ReadyBelowSize, Size
<1>11. loadcount'[r] = IF n + 1 = Size(r) THEN 0 ELSE n + 1
  BY <1>4, <1>8 DEF Loaded, LoadComplete, AllLoaded, TypeOK
<1>12. LoadAccounting'
  <2>1. CASE n + 1 = Size(r)
    <3>1. accepted'[r] = members[r] /\ loadcount'[r] = 0
      BY <1>3, <1>7, <1>11, <2>1
    <3> QED
      BY <1>2, <1>3, <1>4, <3>1 DEF LoadAccounting
  <2>2. CASE n + 1 # Size(r)
    <3>1. /\ accepted'[r] \subseteq members[r] /\ accepted'[r] # members[r]
          /\ loadcount'[r] = Cardinality(accepted'[r])
      BY <1>3, <1>4, <1>6, <1>11, <2>2 DEF Size
    <3> QED
      BY <1>2, <1>3, <1>4, <3>1 DEF LoadAccounting
  <2> QED
    BY <2>1, <2>2
<1> QED
  BY <1>9, <1>10, <1>12

LEMMA OrderlyConfirm ==
    ASSUME Base, Orderly, NEW s \in Users, NEW r \in RoomIds, Confirm(s, r)
    PROVE  Orderly'
<1> USE DEF Base, Orderly
<1>1. /\ s \in members[r] /\ status[r] = "INGAME"
      /\ members[r] \subseteq accepted[r]
      /\ UNCHANGED <<connect, hung>>
  BY DEF Confirm, ResultConfirm
<1>2. /\ members \in [RoomIds -> SUBSET Users]
      /\ members'[r] = members[r] \ {s}
      /\ \A q \in RoomIds : q # r => members'[q] = members[q]
  BY DEF Confirm, ResultConfirm, MembersWithout, TypeOK
<1>3. /\ lobby'[s] = TRUE /\ gameID'[s] = 0
      /\ \A t \in Users : t # s => lobby'[t] = lobby[t] /\ gameID'[t] = gameID[t]
  BY DEF Confirm, ResultConfirm, TypeOK
<1>4. \A q \in RoomIds : q # r =>
         /\ status'[q] = status[q] /\ accepted'[q] = accepted[q]
         /\ readycount'[q] = readycount[q] /\ loadcount'[q] = loadcount[q]
  BY DEF Confirm, ResultConfirm, TypeOK
<1>5. \/ /\ status'[r] = "EMPTY" /\ members'[r] = {}
         /\ accepted'[r] = {} /\ readycount'[r] = 0 /\ loadcount'[r] = 0
      \/ UNCHANGED <<status, accepted, readycount, loadcount>>
  BY DEF Confirm, ResultConfirm, MembersWithout, TypeOK
<1>6. \A q \in RoomIds : q # r => s \notin members[q]
  BY <1>1 DEF OneRoom
<1>7. loadcount[r] = 0
  BY <1>1 DEF LoadAccounting
<1>8. NobodyGone'
  BY <1>1, <1>2 DEF NobodyGone
<1>9. OneRoom'
  BY <1>2, <1>3, <1>6 DEF OneRoom
<1>10. EmptyIsReset'
  BY <1>1, <1>4, <1>5 DEF EmptyIsReset
<1>11. IdsBelowSize'
  <2> SUFFICES ASSUME NEW q \in RoomIds, status'[q] \in {"JOINABLE", "FULL"},
                      NEW t \in members'[q]
               PROVE  gameID'[t] < Cardinality(members'[q])
    BY DEF IdsBelowSize, Size
  <2>1. q # r
    BY <1>1, <1>5
  <2>2. t \in Users /\ t # s /\ t \in members[q] /\ status'[q] = status[q]
    BY <1>2, <1>4, <1>6, <2>1
  <2>3. gameID[t] < Cardinality(members[q])
    BY <2>2 DEF IdsBelowSize, Size
  <2> QED
    BY <1>2, <1>3, <2>1, <2>2, <2>3
<1>12. DistinctGameIDs'
  BY <1>2, <1>3, <1>6 DEF DistinctGameIDs
<1>13. ReadyBelowSize'
  <2> SUFFICES ASSUME NEW q \in RoomIds, status'[q] \in {"JOINABLE", "FULL"}
               PROVE  readycount'[q] < Cardinality(members'[q])
    BY DEF ReadyBelowSize, Size
  <2>1. q # r
    BY <1>1, <1>5
  <2> QED
    BY <1>2, <1>4, <2>1 DEF ReadyBelowSize, Size
<1>14. LoadAccounting'
  <2>1. CASE status'[r] = "EMPTY"
    BY <1>2, <1>4, <2>1 DEF LoadAccounting
  <2>2. CASE UNCHANGED <<status, accepted, readycount, loadcount>>
    BY <1>1, <1>2, <1>7, <2>2 DEF LoadAccounting
  <2> QED
    BY <1>5, <2>1, <2>2
<1> QED
  BY <1>8, <1>9, <1>10, <1>11, <1>12, <1>13, <1>14

LEMMA OrderlyStep ==
    ASSUME ~MayDrop, ~MayOverflow
    PROVE  Base /\ Orderly /\ [Next]_vars => Orderly'
<1> SUFFICES ASSUME Base, Orderly, [Next]_vars PROVE Orderly'
  OBVIOUS
<1>1. TypeOK
  BY DEF Base
<1>2. CASE UNCHANGED vars
  BY <1>2 DEF vars, Orderly, NobodyGone, OneRoom, EmptyIsReset, IdsBelowSize,
              DistinctGameIDs, ReadyBelowSize, LoadAccounting, Size
<1>3. ASSUME NEW s \in Users, Accept(s) PROVE Orderly'
  BY <1>3, OrderlyAccept
<1>4. ASSUME NEW s \in Users, Drop(s) PROVE Orderly'
  BY <1>4 DEF Drop
<1>5. ASSUME NEW s \in Users, Make(s) PROVE Orderly'
  BY <1>5, OrderlyMake
<1>6. ASSUME NEW s \in Users, Quick(s) \/ \E r \in RoomIds : Join(s, r)
      PROVE  Orderly'
  BY <1>1, <1>2, <1>6, JoinEffect, OrderlyEnter
<1>7. ASSUME NEW s \in Users, NEW r \in RoomIds, PressReady(s, r) PROVE Orderly'
  BY <1>7, OrderlyReady
<1>8. ASSUME NEW s \in Users, NEW r \in RoomIds, Loaded(s, r) PROVE Orderly'
  BY <1>8, OrderlyLoaded
<1>9. ASSUME NEW s \in Users, NEW r \in RoomIds, Confirm(s, r) PROVE Orderly'
  BY <1>9, OrderlyConfirm
<1> QED
  BY <1>2, <1>3, <1>4, <1>5, <1>6, <1>7, <1>8, <1>9 DEF Next

LEMMA OrderlyAlways == ~MayDrop /\ ~MayOverflow /\ Spec => [](Base /\ Orderly)
<1>0. CASE ~MayDrop /\ ~MayOverflow
  <2> DEFINE I == Base /\ Orderly
  <2>1. Init => I
    <3>1. Init => TypeOK
      BY RoomsAssumption DEF Init, TypeOK, Byte, Status, RoomIds
    <3>2. Init => StatusMatchesMembers /\ RoomCapacity
      BY RoomsAssumption, FS_EmptySet
      DEF Init, StatusMatchesMembers, RoomCapacity, Size
    <3>3. Init => Orderly
      BY DEF Init, Orderly, NobodyGone, OneRoom, EmptyIsReset, IdsBelowSize,
             DistinctGameIDs, ReadyBelowSize, LoadAccounting
    <3> QED
      BY <3>1, <3>2, <3>3 DEF Base
  <2>2. I /\ [Next]_vars => I'
    BY <1>0, BaseStep, OrderlyStep
  <2> HIDE DEF I
  <2>3. Spec => []I
    BY <2>1, <2>2, PTL DEF Spec
  <2> QED
    BY <2>3 DEF I
<1> QED
  BY <1>0

\* No player is in two rooms, or in a room and the lobby at once.
THEOREM OneRoomEach == ~MayDrop /\ ~MayOverflow /\ Spec => []OneRoom
<1>1. Base /\ Orderly => OneRoom
  BY DEF Orderly
<1> QED
  BY <1>1, OrderlyAlways, PTL

\* No two players of a room share a GameID, although the server computes it
\* as size() - 1 and never again.
THEOREM GameIDsDistinct == ~MayDrop /\ ~MayOverflow /\ Spec => []DistinctGameIDs
<1>1. Base /\ Orderly => DistinctGameIDs
  BY DEF Orderly
<1> QED
  BY <1>1, OrderlyAlways, PTL

\* The ready count of a waiting room never reaches its size without starting
\* the game, so the equality test of CS_READY is not stepped over.
THEOREM ReadyCountBelowSize == ~MayDrop /\ ~MayOverflow /\ Spec => []ReadyBelowSize
<1>1. Base /\ Orderly => ReadyBelowSize
  BY DEF Orderly
<1> QED
  BY <1>1, OrderlyAlways, PTL

\* m_loadcount counts m_AcceptLoading_list exactly, from the first player
\* loaded to the last player gone.
THEOREM LoadCountExact == ~MayDrop /\ ~MayOverflow /\ Spec => []LoadAccounting
<1>1. Base /\ Orderly => LoadAccounting
  BY DEF Orderly
<1> QED
  BY <1>1, OrderlyAlways, PTL

=============================================================================
