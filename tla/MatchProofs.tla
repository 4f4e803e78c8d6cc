---------------------------- MODULE MatchProofs ----------------------------
(***************************************************************************)
(* The properties of Match for every set of players, health, damage and    *)
(* number of kills a verdict takes.  Match.tla states what each one means. *)
(***************************************************************************)
EXTENDS Match, FiniteSetTheorems, SequenceTheorems, TLAPS

-----------------------------------------------------------------------------
(* Players, their slots and their ids.                                     *)

\* The constants as the proofs use them.
LEMMA Constants ==
    /\ Players \in SUBSET Nat /\ IsFiniteSet(Players) /\ Players \subseteq Users
    /\ MaxGamer \in Nat \ {0} /\ Cardinality(Players) \in 1 .. MaxGamer
    /\ 0 \in Users /\ 0 \in Ids /\ Ids \subseteq Nat
    /\ MaxHp \in Nat \ {0} /\ Damage \subseteq Nat \ {0}
    /\ ResultDeath \in Nat \ {0} /\ Room \in Nat
    /\ Idle \notin Kill
<1>1. Cardinality(Players) \in Nat
  BY MatchAssumption, FS_CardinalityType
<1>2. MaxGamer \in Nat \ {0}
  BY <1>1, MatchAssumption
<1>3. Idle \notin Kill
  BY DEF Idle, Kill
<1> QED
  BY <1>2, <1>3, MatchAssumption DEF Users, Ids

\* Every player has an id below their number, and no two have the same.
LEMMA SeatBelowSize ==
    ASSUME NEW s \in Players
    PROVE  /\ Seat(s) \in 0 .. Cardinality(Players) - 1
           /\ Seat(s) \in Ids
<1> DEFINE S == {t \in Players : t < s}
<1>1. S \subseteq Players \ {s}
  BY Constants
<1>2. /\ IsFiniteSet(Players \ {s})
      /\ Cardinality(Players \ {s}) = Cardinality(Players) - 1
  BY Constants, FS_RemoveElement
<1>3. IsFiniteSet(S) /\ Cardinality(S) <= Cardinality(Players) - 1
  BY <1>1, <1>2, FS_Subset
<1>4. Cardinality(S) \in Nat
  BY <1>3, FS_CardinalityType
<1> QED
  BY <1>3, <1>4, Constants DEF Seat, Ids

LEMMA SeatsDiffer ==
    ASSUME NEW s \in Players, NEW t \in Players, Seat(s) = Seat(t)
    PROVE  s = t
<1>1. \A a, b \in Players : a < b => Seat(a) < Seat(b)
  <2> SUFFICES ASSUME NEW a \in Players, NEW b \in Players, a < b
               PROVE  Seat(a) < Seat(b)
    OBVIOUS
  <2> DEFINE A == {u \in Players : u < a}
             B == {u \in Players : u < b}
  <2>1. A \subseteq B /\ a \in B /\ a \notin A
    <3>1. \A u \in Players : u \in Nat
      BY Constants
    <3>2. \A u \in Nat : u < a => u < b
      BY <3>1
    <3> QED
      BY <3>1, <3>2
  <2>2. IsFiniteSet(A) /\ IsFiniteSet(B)
    BY Constants, FS_Subset
  <2>3. Cardinality(A) <= Cardinality(B) /\ Cardinality(A) # Cardinality(B)
    <3> HIDE DEF A, B
    <3> QED
      BY <2>1, <2>2, FS_Subset
  <2>4. Cardinality(A) \in Nat /\ Cardinality(B) \in Nat
    BY <2>2, FS_CardinalityType
  <2> QED
    BY <2>3, <2>4 DEF Seat
<1>2. Seat(s) \in Nat /\ Seat(t) \in Nat
  BY SeatBelowSize, Constants DEF Ids
<1> QED
  BY <1>1, <1>2, Constants

\* The ids below the number of players are all taken: the server id the client
\* sends with a hit is that of the player whose id it is.
LEMMA EveryIdTaken ==
    ASSUME NEW g \in Ids, Taken(g)
    PROVE  ServerID(g) \in Players /\ Seat(ServerID(g)) = g
<1> DEFINE N == Cardinality(Players)
           f == [s \in Players |-> Seat(s)]
<1>1. N \in Nat /\ g \in 0 .. N - 1
  BY Constants DEF Taken, Ids
<1>2. f \in Injection(Players, 0 .. N - 1)
  BY SeatBelowSize, SeatsDiffer DEF Injection, IsInjective
<1>3. IsFiniteSet(0 .. N - 1) /\ Cardinality(0 .. N - 1) = N
  BY <1>1, FS_Interval
<1>4. f \in Surjection(Players, 0 .. N - 1)
  <2> HIDE DEF N, f
  <2> QED
    BY <1>2, <1>3, FS_Injection DEF N
<1>5. \E s \in Players : Seat(s) = g
  BY <1>1, <1>4 DEF Surjection
<1> QED
  BY <1>5 DEF ServerID
-----------------------------------------------------------------------------
(* What the handlers send.                                                 *)

\* A verdict names one winner.
LEMMA OneWinner ==
    /\ Verdict = <<>> \/ \E b \in BOOLEAN : Verdict = <<b>>
    /\ Verdict \in Seq(BOOLEAN)
<1>1. <<>> \in Seq(BOOLEAN) /\ <<TRUE>> \in Seq(BOOLEAN) /\ <<FALSE>> \in Seq(BOOLEAN)
  OBVIOUS
<1> QED
  BY <1>1 DEF Verdict

\* The packets about a kill: its SC_CHAR_DIE comes first and is the only one.
LEMMA AnnouncementIs ==
    ASSUME TypeOK, NEW c \in Players, busy[c] # Idle
    PROVE  /\ Announcement(c) \in Seq(ToClient)
           /\ Announcement(c) # <<>>
           /\ Announcement(c)[1] = [t |-> "DIE", id |-> busy[c].id]
           /\ \A i \in 2 .. Len(Announcement(c)) :
                  Announcement(c)[i].t \in {"RESULT", "ROW"}
<1> DEFINE die == [t |-> "DIE", id |-> busy[c].id]
           results == [i \in DOMAIN Verdict |-> [t |-> "RESULT", aWon |-> Verdict[i]]]
           table == IF Verdict = <<>> THEN <<>> ELSE EndingRows(c)
           Others == {m \in ToClient : m.t \in {"RESULT", "ROW"}}
<1>1. die \in ToClient
  BY DEF TypeOK, RoomTypeOK, Kill, ToClient
<1>2. results \in Seq(Others)
  <2>1. CASE Verdict = <<>>
    BY <2>1
  <2>2. ASSUME NEW b \in BOOLEAN, Verdict = <<b>> PROVE results \in Seq(Others)
    <3>1. results = <<[t |-> "RESULT", aWon |-> b]>>
      BY <2>2
    <3>2. [t |-> "RESULT", aWon |-> b] \in Others
      BY DEF ToClient
    <3> QED
      BY <3>1, <3>2
  <2> QED
    BY <2>1, <2>2, OneWinner
<1>3. table \in Seq(Others)
  <2>1. Cardinality(Players) \in Nat
    BY Constants
  <2>2. ASSUME NEW i \in 1 .. Cardinality(Players)
        PROVE  RowPacket(ServerID(i - 1)) \in Others
    <3>1. ServerID(i - 1) \in Users
      BY Constants DEF ServerID
    <3> QED
      BY <3>1 DEF RowPacket, TypeOK, HeroTypeOK, ToClient, Row
  <2> QED
    BY <2>1, <2>2 DEF EndingRows
<1>4. results \o table \in Seq(Others)
  BY <1>2, <1>3
<1>5. Announcement(c) = <<die>> \o (results \o table)
  <2>1. Announcement(c) = (<<die>> \o results) \o table
    BY DEF Announcement
  <2> HIDE DEF die, results, table, Others
  <2>2. /\ <<die>> \in Seq(ToClient \cup Others)
        /\ results \in Seq(ToClient \cup Others)
        /\ table \in Seq(ToClient \cup Others)
    BY <1>1, <1>2, <1>3
  <2> QED
    BY <2>1, <2>2, ConcatAssociative
<1> QED
  <2> HIDE DEF die, results, table
  <2>1. <<die>> \in Seq(ToClient) /\ results \o table \in Seq(ToClient)
    BY <1>1, <1>4
  <2> QED
    BY <1>4, <1>5, <2>1 DEF die
-----------------------------------------------------------------------------
(* Type correctness.                                                       *)

\* The packets of a swing.
LEMMA VolleyType ==
    ASSUME NEW c \in Players, NEW hits \in Ascending(Enemies(c)), NEW d \in Damage
    PROVE  [i \in DOMAIN hits |->
               [t |-> "HIT", hit |-> ServerID(hits[i]), id |-> hits[i], damage |-> d]]
               \o <<[t |-> "DONE"]>> \in Seq(ToServer)
<1>1. Enemies(c) \in SUBSET Ids
  BY DEF Enemies
<1>2. IsFiniteSet(Enemies(c))
  <2>1. IsFiniteSet(Ids)
    BY Constants, FS_Interval DEF Ids
  <2> QED
    BY <1>1, <2>1, FS_Subset
<1>3. PICK n \in 1 .. Cardinality(Enemies(c)) : hits \in [1 .. n -> Enemies(c)]
  BY DEF Ascending
<1>4. n \in Nat
  BY <1>2, FS_CardinalityType
<1>5. ASSUME NEW g \in Enemies(c)
      PROVE  [t |-> "HIT", hit |-> ServerID(g), id |-> g, damage |-> d] \in ToServer
  <2>1. ServerID(g) \in Users
    BY Constants DEF ServerID
  <2> QED
    BY <1>1, <2>1 DEF ToServer
<1>6. [i \in 1 .. n |->
          [t |-> "HIT", hit |-> ServerID(hits[i]), id |-> hits[i], damage |-> d]]
          \in Seq(ToServer)
  BY <1>3, <1>4, <1>5
<1>7. [t |-> "DONE"] \in ToServer
  BY DEF ToServer
<1>8. DOMAIN hits = 1 .. n
  BY <1>3
<1> QED
  BY <1>6, <1>7, <1>8

\* What a handler or a client takes from its queue.
LEMMA HeadTyped ==
    ASSUME NEW S, NEW q \in Seq(S), q # <<>>
    PROVE  Head(q) \in S /\ Tail(q) \in Seq(S)
  BY HeadTailProperties

\* A strike, once the packet has been taken apart: hero v, with id g in the
\* packet, loses health d, and is killed or not.
Wounded(v, d) ==
    /\ hp[v] - d > 0
    /\ hp' = [hp EXCEPT ![v] = @ - d]
    /\ UNCHANGED <<killcount, deathcount, roomNumber, fallen, busy>>
Killed(c, v, g) ==
    /\ hp' = [hp EXCEPT ![v] = 0]
    /\ killcount' = [killcount EXCEPT ![c] = @ + 1]
    /\ deathcount' = [deathcount EXCEPT ![v] = @ + 1]
    /\ roomNumber' = [roomNumber EXCEPT ![v] = Room]
    /\ fallen' = [fallen EXCEPT ![Team(g)] = @ + 1]
    /\ busy' = [busy EXCEPT ![c] = [killed |-> {v}, id |-> g]]
Hit(c, v, g, d) ==
    /\ Free /\ busy[c] = Idle /\ c2s[c] # <<>>
    /\ Head(c2s[c]) = [t |-> "HIT", hit |-> v, id |-> g, damage |-> d]
    /\ c2s' = [c2s EXCEPT ![c] = Tail(@)]
    /\ Wounded(v, d) \/ Killed(c, v, g)
    /\ UNCHANGED <<gameID, members, timers, verdicts, s2c>>
    /\ UNCHANGED clientVars

LEMMA StrikeIs ==
    ASSUME TypeOK, NEW c \in Players, Strike(c)
    PROVE  \E v \in Users, g \in Ids, d \in Damage : Hit(c, v, g, d)
<1> DEFINE p == Head(c2s[c])
<1>1. p \in ToServer /\ p.t = "HIT"
  BY HeadTyped DEF Strike, TypeOK, NetworkTypeOK
<1>2. PICK v \in Users, g \in Ids, d \in Damage :
         p = [t |-> "HIT", hit |-> v, id |-> g, damage |-> d]
  BY <1>1 DEF ToServer
<1>3. Hit(c, v, g, d)
  BY <1>2 DEF Strike, Hit, Wounded, Killed, StillStanding, Fallen
<1> QED
  BY <1>3

LEMMA NextTimer ==
    ASSUME TypeOK, timers # <<>>
    PROVE  Head(timers).s \in Users /\ Tail(timers) \in Seq(Timer)
<1>1. timers \in Seq(Timer)
  BY DEF TypeOK, RoomTypeOK
<1>2. Head(timers) \in Timer /\ Tail(timers) \in Seq(Timer)
  BY <1>1, HeadTyped
<1> QED
  BY <1>2 DEF Timer

LEMMA HeroTypeStep == TypeOK /\ [Next]_vars => HeroTypeOK'
<1> SUFFICES ASSUME TypeOK, [Next]_vars PROVE HeroTypeOK'
  OBVIOUS
<1> USE DEF HeroTypeOK
<1>1. HeroTypeOK
  BY DEF TypeOK
<1>2. ASSUME NEW c \in Players, Strike(c) PROVE HeroTypeOK'
  <2>1. PICK v \in Users, g \in Ids, d \in Damage : Hit(c, v, g, d)
    BY <1>2, StrikeIs
  <2>2. c \in Users /\ d \in Nat /\ MaxHp \in Nat
    BY Constants
  <2>3. \A h \in 0 .. MaxHp : h - d > 0 => h - d \in 0 .. MaxHp
    BY <2>2
  <2>4. CASE Wounded(v, d)
    BY <1>1, <2>1, <2>3, <2>4 DEF Hit, Wounded
  <2>5. CASE Killed(c, v, g)
    BY <1>1, <2>1, <2>2, <2>5 DEF Hit, Killed
  <2> QED
    BY <2>1, <2>4, <2>5 DEF Hit
<1>3. CASE Respawn
  <2>1. Head(timers).s \in Users
    BY <1>3, NextTimer DEF Respawn
  <2> QED
    BY <1>1, <1>3, <2>1, Constants DEF Respawn
<1>4. ASSUME NEW c \in Players, LobbyReset(c) PROVE HeroTypeOK'
  BY <1>1, <1>4, Constants DEF LobbyReset
<1>5. ASSUME NEW c \in Players, Judge(c) \/ SkillDone(c) \/ Receive(c) \/ Swing(c)
                                \/ ShowEnding(c) \/ Confirm(c)
      PROVE  HeroTypeOK'
  BY <1>1, <1>5 DEF Judge, SkillDone, Receive, GotDie, GotRespawn, GotSkillDone,
                    GotResult, GotRow, Receives, Swing, ShowEnding, Confirm, serverVars
<1>6. CASE UNCHANGED vars
  BY <1>1, <1>6 DEF vars, serverVars
<1> QED
  BY <1>2, <1>3, <1>4, <1>5, <1>6 DEF Next, Handle

LEMMA RoomTypeStep == TypeOK /\ [Next]_vars => RoomTypeOK'
<1> SUFFICES ASSUME TypeOK, [Next]_vars PROVE RoomTypeOK'
  OBVIOUS
<1> USE DEF RoomTypeOK
<1>1. RoomTypeOK
  BY DEF TypeOK
<1>2. ASSUME NEW c \in Players, Strike(c) PROVE RoomTypeOK'
  <2>1. PICK v \in Users, g \in Ids, d \in Damage : Hit(c, v, g, d)
    BY <1>2, StrikeIs
  <2>2. [killed |-> {v}, id |-> g] \in Kill /\ Team(g) \in {"A", "B"}
    BY DEF Kill, Team
  <2>3. CASE Wounded(v, d)
    BY <1>1, <2>1, <2>3 DEF Hit, Wounded
  <2>4. CASE Killed(c, v, g)
    BY <1>1, <2>1, <2>2, <2>4 DEF Hit, Killed
  <2> QED
    BY <2>1, <2>3, <2>4 DEF Hit
<1>3. ASSUME NEW c \in Players, Judge(c) PROVE RoomTypeOK'
  <2>1. busy[c] \in Kill
    BY <1>1, <1>3 DEF Judge
  <2>2. ASSUME NEW v \in busy[c].killed PROVE NewTimers(v, Verdict) \in Seq(Timer)
    <3>1. v \in Users
      BY <2>1 DEF Kill
    <3>2. [s |-> v, room |-> Room, late |-> verdicts # <<>>] \in Timer
      BY <3>1 DEF Timer
    <3> QED
      BY <1>1, <3>2 DEF NewTimers
  <2>3. timers' \in Seq(Timer)
    BY <1>3, <2>2 DEF Judge
  <2>4. verdicts \o Verdict \in Seq(BOOLEAN)
    BY <1>1, OneWinner
  <2> QED
    BY <1>1, <1>3, <2>3, <2>4 DEF Judge
<1>4. CASE Respawn
  <2>1. Tail(timers) \in Seq(Timer)
    BY <1>1, <1>4, HeadTyped DEF Respawn
  <2> QED
    BY <1>1, <1>4, <2>1 DEF Respawn
<1>5. ASSUME NEW c \in Players, LobbyReset(c) PROVE RoomTypeOK'
  BY <1>1, <1>5 DEF LobbyReset
<1>6. ASSUME NEW c \in Players, SkillDone(c) \/ Receive(c) \/ Swing(c)
                                \/ ShowEnding(c) \/ Confirm(c)
      PROVE  RoomTypeOK'
  BY <1>1, <1>6 DEF SkillDone, Receive, GotDie, GotRespawn, GotSkillDone,
                    GotResult, GotRow, Receives, Swing, ShowEnding, Confirm, serverVars
<1>7. CASE UNCHANGED vars
  BY <1>1, <1>7 DEF vars, serverVars
<1> QED
  BY <1>2, <1>3, <1>4, <1>5, <1>6, <1>7 DEF Next, Handle

LEMMA NetworkTypeStep == TypeOK /\ [Next]_vars => NetworkTypeOK'
<1> SUFFICES ASSUME TypeOK, [Next]_vars PROVE NetworkTypeOK'
  OBVIOUS
<1> USE DEF NetworkTypeOK
<1>1. NetworkTypeOK
  BY DEF TypeOK
<1>2. ASSUME NEW c \in Players, Strike(c) \/ SkillDone(c) \/ LobbyReset(c)
      PROVE  NetworkTypeOK'
  <2>1. Tail(c2s[c]) \in Seq(ToServer)
    BY <1>1, <1>2, HeadTyped DEF Strike, SkillDone, LobbyReset
  <2>2. [t |-> "DONE"] \in ToClient
    BY DEF ToClient
  <2>3. Append(s2c[c], [t |-> "DONE"]) \in Seq(ToClient)
    BY <1>1, <2>2
  <2> QED
    BY <1>1, <1>2, <2>1, <2>3 DEF Strike, SkillDone, LobbyReset
<1>3. ASSUME NEW ps \in Seq(ToClient), Broadcast(ps)
      PROVE  s2c' \in [Players -> Seq(ToClient)]
  BY <1>1, <1>3 DEF Broadcast
<1>4. ASSUME NEW c \in Players, Judge(c) PROVE NetworkTypeOK'
  BY <1>1, <1>3, <1>4, AnnouncementIs DEF Judge
<1>5. CASE Respawn
  <2>1. Head(timers).s \in Users
    BY <1>5, NextTimer DEF Respawn
  <2>2. [t |-> "RESPAWN", id |-> gameID[Head(timers).s]] \in ToClient
    BY <2>1 DEF ToClient, TypeOK, HeroTypeOK
  <2>3. <<[t |-> "RESPAWN", id |-> gameID[Head(timers).s]]>> \in Seq(ToClient)
    BY <2>2
  <2> QED
    BY <1>1, <1>3, <1>5, <2>3 DEF Respawn
<1>6. ASSUME NEW c \in Players, Receive(c) PROVE NetworkTypeOK'
  <2>1. PICK t : Receives(c, t)
    BY <1>6 DEF Receive, GotDie, GotRespawn, GotSkillDone, GotResult, GotRow
  <2>2. Tail(s2c[c]) \in Seq(ToClient)
    BY <1>1, <2>1, HeadTyped DEF Receives
  <2> QED
    BY <1>1, <2>1, <2>2 DEF Receives
<1>7. ASSUME NEW c \in Players, Swing(c) PROVE NetworkTypeOK'
  <2>1. PICK hits \in Ascending(Enemies(c)), d \in Damage :
             c2s' = [c2s EXCEPT ![c] = @ \o [i \in DOMAIN hits |->
                        [t |-> "HIT", hit |-> ServerID(hits[i]), id |-> hits[i],
                         damage |-> d]] \o <<[t |-> "DONE"]>>]
    BY <1>7 DEF Swing
  <2> DEFINE volley == [i \in DOMAIN hits |->
                 [t |-> "HIT", hit |-> ServerID(hits[i]), id |-> hits[i], damage |-> d]]
  <2>2. volley \in Seq(ToServer) /\ <<[t |-> "DONE"]>> \in Seq(ToServer)
    BY VolleyType
  <2>3. c2s' = [c2s EXCEPT ![c] = @ \o volley \o <<[t |-> "DONE"]>>]
    BY <2>1
  <2> HIDE DEF volley
  <2>4. c2s' \in [Players -> Seq(ToServer)]
    BY <1>1, <2>2, <2>3
  <2> QED
    BY <1>1, <1>7, <2>4 DEF Swing
<1>8. ASSUME NEW c \in Players, Confirm(c) PROVE NetworkTypeOK'
  <2>1. [t |-> "CONFIRM"] \in ToServer
    BY DEF ToServer
  <2>2. Append(c2s[c], [t |-> "CONFIRM"]) \in Seq(ToServer)
    BY <1>1, <2>1
  <2> QED
    BY <1>1, <1>8, <2>2 DEF Confirm
<1>9. ASSUME NEW c \in Players, ShowEnding(c) PROVE NetworkTypeOK'
  BY <1>1, <1>9 DEF ShowEnding
<1>10. CASE UNCHANGED vars
  BY <1>1, <1>10 DEF vars
<1> QED
  BY <1>2, <1>4, <1>5, <1>6, <1>7, <1>8, <1>9, <1>10 DEF Next, Handle

LEMMA ClientTypeStep == TypeOK /\ [Next]_vars => ClientTypeOK'
<1> SUFFICES ASSUME TypeOK, [Next]_vars PROVE ClientTypeOK'
  OBVIOUS
<1> USE DEF ClientTypeOK
<1>1. ClientTypeOK
  BY DEF TypeOK
<1>2. CASE UNCHANGED clientVars
  BY <1>1, <1>2 DEF clientVars
<1>3. ASSUME NEW c \in Players, Receive(c) PROVE ClientTypeOK'
  <2> DEFINE p == Head(s2c[c])
  <2>1. s2c[c] # <<>> /\ UNCHANGED scene
    BY <1>3 DEF Receive, Receives, GotDie, GotRespawn, GotSkillDone, GotResult, GotRow
  <2>2. p \in ToClient
    BY <2>1, HeadTyped DEF TypeOK, NetworkTypeOK
  <2>3. CASE GotDie(c)
    <3>1. p.id \in Ids /\ Team(p.id) \in {"A", "B"}
      BY <2>2, <2>3 DEF GotDie, Receives, ToClient, Team
    <3> QED
      BY <1>1, <2>1, <2>3, <3>1 DEF GotDie
  <2>4. CASE GotRespawn(c)
    BY <1>1, <2>1, <2>4 DEF GotRespawn, StillDead
  <2>5. CASE GotSkillDone(c)
    BY <1>1, <2>1, <2>5 DEF GotSkillDone
  <2>6. CASE GotResult(c)
    <3>1. win' \in [Players -> BOOLEAN] /\ lose' \in [Players -> BOOLEAN]
      BY <1>1, <2>6, Zenon DEF GotResult
    <3> QED
      BY <1>1, <2>1, <2>6, <3>1 DEF GotResult
  <2>7. CASE GotRow(c)
    <3>1. p.id \in Ids /\ p.row \in Row
      BY <2>2, <2>7 DEF GotRow, Receives, ToClient
    <3> QED
      BY <1>1, <2>1, <2>7, <3>1 DEF GotRow
  <2> QED
    BY <1>3, <2>3, <2>4, <2>5, <2>6, <2>7 DEF Receive
<1>4. ASSUME NEW c \in Players, Swing(c) \/ Confirm(c) PROVE ClientTypeOK'
  <2>1. CASE Swing(c)
    BY <1>1, <2>1 DEF Swing
  <2>2. CASE Confirm(c)
    <3>1. [A |-> 0, B |-> 0] \in [{"A", "B"} -> Nat]
      OBVIOUS
    <3> QED
      BY <1>1, <2>2, <3>1 DEF Confirm
  <2> QED
    BY <1>4, <2>1, <2>2
<1>5. ASSUME NEW c \in Players, ShowEnding(c) PROVE ClientTypeOK'
  <2>1. win' \in [Players -> BOOLEAN] /\ lose' \in [Players -> BOOLEAN]
    BY <1>1, <1>5, Zenon DEF ShowEnding
  <2> QED
    BY <1>1, <1>5, <2>1 DEF ShowEnding
<1> QED
  BY <1>2, <1>3, <1>4, <1>5 DEF Next, Handle, Strike, Judge, Respawn, SkillDone,
                          LobbyReset, vars

LEMMA TypeStep == TypeOK /\ [Next]_vars => TypeOK'
  BY HeroTypeStep, RoomTypeStep, NetworkTypeStep, ClientTypeStep DEF TypeOK

\* Every variable keeps its type, whoever is hit.
THEOREM TypeCorrect == Spec => []TypeOK
<1>1. Init => TypeOK
  <2>1. \A s \in Users : s \in Players => Seat(s) \in Ids
    BY SeatBelowSize
  <2> QED
    BY <2>1, Constants DEF Init, TypeOK, HeroTypeOK, RoomTypeOK, NetworkTypeOK,
                           ClientTypeOK, Row
<1> QED
  BY <1>1, TypeStep, PTL DEF Spec

-----------------------------------------------------------------------------
(* Nobody is left lying.                                                   *)

\* The invariant is RespawnUnderWay itself: a kill hands its victim to its
\* handler, the handler to the timer queue or to a verdict, and the timer that
\* leaves the queue gives health back.
LEMMA RespawnStep == TypeOK /\ RespawnUnderWay /\ [Next]_vars => RespawnUnderWay'
<1> SUFFICES ASSUME TypeOK, RespawnUnderWay, [Next]_vars,
                    NEW s \in members', hp'[s] = 0, verdicts' = <<>>
             PROVE  \/ \E i \in DOMAIN timers' : timers'[i].s = s
                    \/ \E c \in Players : s \in busy'[c].killed
  BY DEF RespawnUnderWay
<1> DEFINE Waiting == \E i \in DOMAIN timers : timers[i].s = s
           Falling == \E c \in Players : s \in busy[c].killed
<1>0. s \in members => hp[s] # 0 \/ verdicts # <<>> \/ Waiting \/ Falling
  BY DEF RespawnUnderWay
<1>1. /\ timers \in Seq(Timer) /\ busy \in [Players -> {Idle} \cup Kill]
      /\ hp \in [Users -> 0 .. MaxHp] /\ verdicts \in Seq(BOOLEAN)
  BY DEF TypeOK, HeroTypeOK, RoomTypeOK
<1>2. s \in members /\ s \in Users
  <2>1. members' \subseteq members
    BY DEF Next, Handle, Strike, Judge, Respawn, SkillDone, LobbyReset, Receive, GotDie,
           GotRespawn, GotSkillDone, GotResult, GotRow, Receives, Swing, ShowEnding,
           Confirm, vars, serverVars
  <2> QED
    BY <2>1, Constants DEF TypeOK, RoomTypeOK
<1>3. ASSUME NEW c \in Players, Strike(c)
      PROVE  (\E i \in DOMAIN timers' : timers'[i].s = s)
             \/ (\E d \in Players : s \in busy'[d].killed)
  <2>1. PICK v \in Users, g \in Ids, d \in Damage : Hit(c, v, g, d)
    BY <1>3, StrikeIs
  <2>2. CASE Wounded(v, d)
    <3>1. hp[s] = 0
      BY <1>1, <1>2, <2>1, <2>2, Constants DEF Hit, Wounded
    <3> QED
      BY <1>0, <1>2, <2>1, <2>2, <3>1 DEF Hit, Wounded
  <2>3. CASE Killed(c, v, g)
    <3>1. CASE v = s
      BY <1>1, <2>3, <3>1 DEF Killed
    <3>2. CASE v # s
      <4>1. hp[s] = 0
        BY <1>1, <1>2, <2>3, <3>2 DEF Killed
      <4>2. \A d2 \in Players : s \in busy[d2].killed => s \in busy'[d2].killed
        BY <1>1, <2>1, <2>3 DEF Hit, Killed, Idle
      <4> QED
        BY <1>0, <1>2, <2>1, <4>1, <4>2 DEF Hit
    <3> QED
      BY <3>1, <3>2
  <2> QED
    BY <2>1, <2>2, <2>3 DEF Hit
<1>4. ASSUME NEW c \in Players, Judge(c)
      PROVE  (\E i \in DOMAIN timers' : timers'[i].s = s)
             \/ (\E d \in Players : s \in busy'[d].killed)
  <2>1. verdicts = <<>> /\ Verdict = <<>>
    BY <1>1, <1>4, OneWinner DEF Judge
  <2>2. PICK v \in busy[c].killed :
           timers' = Append(timers, [s |-> v, room |-> Room, late |-> verdicts # <<>>])
    BY <1>4, <2>1 DEF Judge, NewTimers
  <2>3. Waiting => \E i \in DOMAIN timers' : timers'[i].s = s
    <3>1. \A i \in DOMAIN timers : i \in DOMAIN timers' /\ timers'[i] = timers[i]
      BY <1>1, <2>2
    <3> QED
      BY <3>1
  <2>4. v = s => \E i \in DOMAIN timers' : timers'[i].s = s
    <3>1. timers'[Len(timers) + 1].s = v /\ Len(timers) + 1 \in DOMAIN timers'
      BY <1>1, <2>2
    <3> QED
      BY <3>1
  <2>5. ASSUME NEW d \in Players, s \in busy[d].killed
        PROVE  s = v \/ s \in busy'[d].killed
    <3>1. CASE d = c
      BY <1>1, <1>4, <2>2, <2>5, <3>1 DEF Judge, Kill
    <3>2. CASE d # c
      BY <1>1, <1>4, <2>5, <3>2 DEF Judge
    <3> QED
      BY <3>1, <3>2
  <2>6. hp[s] = 0
    BY <1>4 DEF Judge
  <2> QED
    BY <1>0, <1>2, <2>1, <2>3, <2>4, <2>5, <2>6
<1>5. ASSUME Respawn
      PROVE  (\E i \in DOMAIN timers' : timers'[i].s = s)
             \/ (\E d \in Players : s \in busy'[d].killed)
  <2>1. timers # <<>> /\ timers' = Tail(timers)
        /\ hp' = [hp EXCEPT ![Head(timers).s] = MaxHp]
    BY <1>5 DEF Respawn
  <2>2. Head(timers).s # s /\ hp[s] = 0
    BY <1>1, <1>2, <2>1, Constants
  <2>3. ASSUME NEW i \in DOMAIN timers, timers[i].s = s
        PROVE  \E j \in DOMAIN timers' : timers'[j].s = s
    <3>1. i \in 2 .. Len(timers)
      BY <1>1, <2>1, <2>2, <2>3
    <3>2. i - 1 \in DOMAIN timers' /\ timers'[i - 1] = timers[i]
      BY <1>1, <2>1, <3>1, HeadTailProperties
    <3> QED
      BY <2>3, <3>2
  <2>4. UNCHANGED <<busy, verdicts>>
    BY <1>5 DEF Respawn
  <2> QED
    BY <1>0, <1>2, <2>2, <2>3, <2>4
<1>6. ASSUME UNCHANGED <<hp, verdicts, timers, busy>>
      PROVE  (\E i \in DOMAIN timers' : timers'[i].s = s)
             \/ (\E d \in Players : s \in busy'[d].killed)
  BY <1>0, <1>2, <1>6
<1>7. ASSUME NEW c \in Players, SkillDone(c) \/ LobbyReset(c) \/ Receive(c) \/ Swing(c)
                                \/ ShowEnding(c) \/ Confirm(c)
      PROVE  UNCHANGED <<hp, verdicts, timers, busy>>
  BY <1>7 DEF SkillDone, LobbyReset, Receive, GotDie, GotRespawn, GotSkillDone,
              GotResult, GotRow, Receives, Swing, ShowEnding, Confirm, serverVars
<1>8. CASE UNCHANGED vars
  BY <1>6, <1>8 DEF vars, serverVars
<1> QED
  BY <1>3, <1>4, <1>5, <1>6, <1>7, <1>8 DEF Next, Handle

\* While a match is open a hero without health has a respawn under way,
\* however many handlers work at a time and whoever is hit.
THEOREM RespawnAlwaysUnderWay == Spec => []RespawnUnderWay
<1>1. Init => RespawnUnderWay
  <2>1. Players \subseteq Users /\ MaxHp # 0
    BY Constants
  <2> QED
    BY <2>1 DEF Init, RespawnUnderWay
<1> QED
  BY <1>1, RespawnStep, TypeCorrect, PTL DEF Spec

-----------------------------------------------------------------------------
(* One handler at a time.                                                  *)

\* A worker that is free finds no kill half handled.
LEMMA FreeMeansIdle ==
    ASSUME Handlers = 1, Free, NEW c \in Players
    PROVE  busy[c] = Idle
<1> DEFINE S == {d \in Players : busy[d] # Idle}
<1>1. IsFiniteSet(S) /\ Cardinality(S) \in Nat /\ Cardinality(S) < 1
  <2>1. IsFiniteSet(S)
    BY Constants, FS_Subset
  <2> QED
    BY <2>1, FS_CardinalityType DEF Free
<1>2. S = {}
  BY <1>1, FS_EmptySet
<1> QED
  BY <1>2

\* A side's count is compared with the number for a verdict after every kill.
\* It stops at that number only while the kill that took it there is handled:
\* a count that could pass it between two comparisons would never match again.
BelowVerdict ==
    verdicts = <<>> =>
        \A k \in {"A", "B"} :
            /\ fallen[k] <= ResultDeath
            /\ (\A c \in Players : busy[c] = Idle) => fallen[k] < ResultDeath

LEMMA BelowVerdictStep ==
    ASSUME Handlers = 1, TypeOK, BelowVerdict, [Next]_vars
    PROVE  BelowVerdict'
<1> SUFFICES ASSUME verdicts' = <<>>, NEW k \in {"A", "B"}
             PROVE  /\ fallen'[k] <= ResultDeath
                    /\ (\A c \in Players : busy'[c] = Idle) => fallen'[k] < ResultDeath
  BY DEF BelowVerdict
<1>1. /\ verdicts \in Seq(BOOLEAN) /\ busy \in [Players -> {Idle} \cup Kill]
      /\ fallen \in [{"A", "B"} -> Nat]
  BY DEF TypeOK, RoomTypeOK
<1>2. ASSUME NEW c \in Players, Strike(c)
      PROVE  /\ fallen'[k] <= ResultDeath
             /\ (\A e \in Players : busy'[e] = Idle) => fallen'[k] < ResultDeath
  <2>1. PICK v \in Users, g \in Ids, d \in Damage : Hit(c, v, g, d)
    BY <1>2, StrikeIs
  <2>2. (\A e \in Players : busy[e] = Idle) /\ verdicts = <<>>
    BY <2>1, FreeMeansIdle DEF Hit
  <2>3. fallen[k] < ResultDeath /\ fallen[k] \in Nat /\ ResultDeath \in Nat
    BY <1>1, <2>2, Constants DEF BelowVerdict
  <2>4. CASE Wounded(v, d)
    BY <2>3, <2>4 DEF Wounded
  <2>5. CASE Killed(c, v, g)
    <3>1. fallen'[k] <= fallen[k] + 1
      BY <1>1, <2>3, <2>5 DEF Killed
    <3>2. fallen'[k] \in Nat
      BY <1>1, <2>3, <2>5 DEF Killed
    <3>3. busy'[c] # Idle
      BY <1>1, <2>5, Constants DEF Killed, Idle
    <3> QED
      BY <2>3, <3>1, <3>2, <3>3
  <2> QED
    BY <2>1, <2>4, <2>5 DEF Hit
<1>3. ASSUME NEW c \in Players, Judge(c)
      PROVE  fallen'[k] <= ResultDeath /\ fallen'[k] < ResultDeath
  <2>1. verdicts = <<>> /\ Verdict = <<>> /\ fallen' = fallen
    BY <1>1, <1>3, OneWinner DEF Judge
  <2>2. fallen.A # ResultDeath /\ fallen.B # ResultDeath
    BY <2>1 DEF Verdict
  <2>3. fallen[k] <= ResultDeath /\ fallen[k] \in Nat /\ ResultDeath \in Nat
    BY <1>1, <2>1, Constants DEF BelowVerdict
  <2> QED
    BY <2>1, <2>2, <2>3
<1>4. ASSUME NEW c \in Players, LobbyReset(c)
      PROVE  /\ fallen'[k] <= ResultDeath
             /\ (\A e \in Players : busy'[e] = Idle) => fallen'[k] < ResultDeath
  <2>1. UNCHANGED <<busy, verdicts>>
        /\ (fallen' = fallen \/ fallen' = [A |-> 0, B |-> 0])
    BY <1>4 DEF LobbyReset
  <2>2. fallen' = [A |-> 0, B |-> 0] => fallen'[k] = 0
    OBVIOUS
  <2> QED
    BY <2>1, <2>2, Constants DEF BelowVerdict
<1>5. ASSUME UNCHANGED <<fallen, verdicts, busy>>
      PROVE  /\ fallen'[k] <= ResultDeath
             /\ (\A e \in Players : busy'[e] = Idle) => fallen'[k] < ResultDeath
  BY <1>5 DEF BelowVerdict
<1>6. ASSUME NEW c \in Players, Respawn \/ SkillDone(c) \/ Receive(c) \/ Swing(c)
                                \/ ShowEnding(c) \/ Confirm(c)
      PROVE  UNCHANGED <<fallen, verdicts, busy>>
  BY <1>6 DEF Respawn, SkillDone, Receive, GotDie, GotRespawn, GotSkillDone,
              GotResult, GotRow, Receives, Swing, ShowEnding, Confirm, serverVars
<1>7. CASE Respawn
  BY <1>5, <1>7 DEF Respawn
<1>8. CASE UNCHANGED vars
  BY <1>5, <1>8 DEF vars, serverVars
<1> QED
  BY <1>2, <1>3, <1>4, <1>5, <1>6, <1>7, <1>8 DEF Next, Handle

\* With one handler at a time a side that has lost enough heroes has lost the
\* match, for every number of players and of kills.
THEOREM VerdictAlwaysGiven ==
    ASSUME Handlers = 1
    PROVE  Spec => []VerdictGiven
<1>1. Init => BelowVerdict
  BY Constants DEF Init, BelowVerdict
<1>2. TypeOK /\ BelowVerdict /\ [Next]_vars => BelowVerdict'
  BY BelowVerdictStep
<1>3. TypeOK /\ BelowVerdict => VerdictGiven
  <2> SUFFICES ASSUME TypeOK, BelowVerdict, verdicts = <<>>,
                      \A c \in Players : busy[c] = Idle,
                      NEW k \in {"A", "B"}
               PROVE  ~(fallen[k] >= ResultDeath)
    BY DEF VerdictGiven
  <2>1. fallen[k] < ResultDeath /\ fallen[k] \in Nat /\ ResultDeath \in Nat
    BY Constants DEF BelowVerdict, TypeOK, RoomTypeOK
  <2> QED
    BY <2>1
<1> QED
  BY <1>1, <1>2, <1>3, TypeCorrect, PTL DEF Spec

-----------------------------------------------------------------------------
(* Sums of kills and deaths.                                               *)

\* A family of subsets of a finite set has one no other of them lies below.
LEMMA SmallestSubset ==
    ASSUME NEW S, IsFiniteSet(S), NEW F \in SUBSET (SUBSET S), F # {}
    PROVE  \E T \in F : \A U \in F : U \subseteq T => U = T
<1>1. F \subseteq FiniteSubsetsOf(S)
  BY FS_FiniteSubsetsOfFinite
<1>2. PICK T \in F : \A U \in F : ~(<<U, T>> \in StrictSubsetOrdering(S))
  BY <1>1, FS_StrictSubsetOrderingWellFounded, WFMin
<1>3. ASSUME NEW U \in F, U \subseteq T PROVE U = T
  BY <1>2, <1>3 DEF StrictSubsetOrdering
<1> QED
  BY <1>3

\* The recursion Total is made of: one member of the set after the other.
First(S) == CHOOSE x \in S : TRUE
IsSum(g, f, S) ==
    g = [s \in SUBSET S |-> IF s = {} THEN 0 ELSE f[First(s)] + g[s \ {First(s)}]]

LEMMA TotalIsSum ==
    ASSUME NEW f, NEW S
    PROVE  Total(f, S) = (CHOOSE g : IsSum(g, f, S))[S]
  BY DEF Total, MapThenSumSet, MapThenFoldSet, IsSum, First

LEMMA SumExists ==
    ASSUME NEW f, NEW S, IsFiniteSet(S)
    PROVE  \E g : IsSum(g, f, S)
<1> DEFINE D(n) == {u \in SUBSET S : Cardinality(u) <= n}
           Level(g, n) ==
               g = [s \in D(n) |-> IF s = {} THEN 0 ELSE f[First(s)] + g[s \ {First(s)}]]
           Bad == {n \in Nat : ~\E g : Level(g, n)}
<1>1. \A u \in SUBSET S : IsFiniteSet(u) /\ Cardinality(u) \in Nat
  BY FS_Subset, FS_CardinalityType
<1>2. \E g : Level(g, 0)
  <2>1. D(0) = {{}}
    BY <1>1, FS_EmptySet
  <2> DEFINE g == [s \in D(0) |-> 0]
  <2>2. Level(g, 0)
    BY <2>1
  <2> QED
    BY <2>2
<1>3. ASSUME NEW n \in Nat, NEW g, Level(g, n)
      PROVE  \E h : Level(h, n + 1)
  <2> DEFINE h == [s \in D(n + 1) |->
                      IF s = {} THEN 0 ELSE f[First(s)] + g[s \ {First(s)}]]
  <2>1. ASSUME NEW s \in D(n + 1), s # {}
        PROVE  s \ {First(s)} \in D(n) /\ s \ {First(s)} \in D(n + 1)
    <3>1. First(s) \in s
      BY <2>1 DEF First
    <3>2. Cardinality(s \ {First(s)}) = Cardinality(s) - 1
      BY <1>1, <3>1, FS_RemoveElement
    <3>3. Cardinality(s) \in Nat /\ Cardinality(s) <= n + 1 /\ s \ {First(s)} \in SUBSET S
      BY <1>1
    <3> QED
      BY <3>2, <3>3
  <2>2. ASSUME NEW s \in D(n), s \in D(n + 1) PROVE h[s] = g[s]
    <3>1. h[s] = IF s = {} THEN 0 ELSE f[First(s)] + g[s \ {First(s)}]
      BY <2>2
    <3>2. g[s] = IF s = {} THEN 0 ELSE f[First(s)] + g[s \ {First(s)}]
      BY <1>3
    <3> QED
      BY <3>1, <3>2
  <2>3. \A s \in D(n + 1) : s # {} => h[s \ {First(s)}] = g[s \ {First(s)}]
    <3> HIDE DEF h, D
    <3> QED
      BY <2>1, <2>2
  <2>4. h = [s \in D(n + 1) |->
                IF s = {} THEN 0 ELSE f[First(s)] + h[s \ {First(s)}]]
    <3>1. h = [s \in D(n + 1) |->
                 IF s = {} THEN 0 ELSE f[First(s)] + g[s \ {First(s)}]]
      OBVIOUS
    <3> HIDE DEF h, D
    <3> QED
      BY <2>3, <3>1
  <2>5. Level(h, n + 1)
    BY <2>4
  <2> QED
    BY <2>5
<1>4. Bad = {}
  <2> SUFFICES ASSUME Bad # {} PROVE FALSE
    OBVIOUS
  <2>1. PICK m \in Bad : \A k \in Bad : ~(<<k, m>> \in OpToRel(<, Nat))
    BY NatLessThanWellFounded, WFMin
  <2>2. m \in Nat /\ m # 0
    BY <1>2
  <2>3. m - 1 \in Nat /\ m - 1 < m /\ (m - 1) + 1 = m
    BY <2>2
  <2>4. m - 1 \notin Bad
    <3> HIDE DEF Bad
    <3> QED
      BY <2>1, <2>2, <2>3 DEF OpToRel
  <2>5. \E g : Level(g, m - 1)
    BY <2>3, <2>4
  <2>6. \E h : Level(h, (m - 1) + 1)
    BY <1>3, <2>3, <2>5
  <2> QED
    BY <2>3, <2>6
<1>5. PICK g : Level(g, Cardinality(S))
  BY <1>1, <1>4
<1>6. D(Cardinality(S)) = SUBSET S
  BY FS_Subset
<1> QED
  BY <1>5, <1>6 DEF IsSum


LEMMA SumUnique ==
    ASSUME NEW f, NEW S, IsFiniteSet(S), NEW T \in SUBSET S,
           NEW g, IsSum(g, f, S), NEW h, IsSum(h, f, T)
    PROVE  g[T] = h[T]
<1> DEFINE Bad == {u \in SUBSET T : g[u] # h[u]}
<1>1. ASSUME NEW u \in SUBSET T
      PROVE  /\ g[u] = IF u = {} THEN 0 ELSE f[First(u)] + g[u \ {First(u)}]
             /\ h[u] = IF u = {} THEN 0 ELSE f[First(u)] + h[u \ {First(u)}]
  <2>1. u \in SUBSET S
    OBVIOUS
  <2> QED
    BY <2>1 DEF IsSum
<1>2. Bad = {}
  <2> SUFFICES ASSUME Bad # {} PROVE FALSE
    OBVIOUS
  <2>1. Bad \in SUBSET (SUBSET T) /\ IsFiniteSet(T)
    BY FS_Subset
  <2>2. PICK u \in Bad : \A v \in Bad : v \subseteq u => v = u
    <3> HIDE DEF Bad
    <3> QED
      BY <2>1, SmallestSubset
  <2>3. u # {} /\ u \in SUBSET T
    BY <1>1
  <2>4. First(u) \in u
    BY <2>3 DEF First
  <2>5. u \ {First(u)} \notin Bad
    BY <2>2, <2>4
  <2>6. g[u \ {First(u)}] = h[u \ {First(u)}]
    BY <2>3, <2>5
  <2>7. g[u] = h[u]
    BY <1>1, <2>3, <2>6
  <2> QED
    BY <2>7
<1> QED
  BY <1>2

LEMMA TotalEmpty ==
    ASSUME NEW f
    PROVE  Total(f, {}) = 0
<1> DEFINE g == CHOOSE h : IsSum(h, f, {})
<1>1. IsSum(g, f, {})
  BY FS_EmptySet, SumExists
<1>2. Total(f, {}) = g[{}]
  BY TotalIsSum
<1> HIDE DEF g
<1> QED
  BY <1>1, <1>2 DEF IsSum

LEMMA TotalFirst ==
    ASSUME NEW f, NEW S, IsFiniteSet(S), S # {}
    PROVE  Total(f, S) = f[First(S)] + Total(f, S \ {First(S)})
<1> DEFINE T == S \ {First(S)}
           g == CHOOSE h : IsSum(h, f, S)
           k == CHOOSE h : IsSum(h, f, T)
<1>1. IsFiniteSet(T) /\ T \in SUBSET S
  BY FS_Subset
<1>2. IsSum(g, f, S) /\ IsSum(k, f, T)
  BY <1>1, SumExists
<1>3. Total(f, S) = g[S] /\ Total(f, T) = k[T]
  BY TotalIsSum
<1> HIDE DEF g, k
<1>4. g[T] = k[T]
  BY <1>1, <1>2, SumUnique
<1>5. g[S] = f[First(S)] + g[T]
  BY <1>2 DEF IsSum
<1> QED
  BY <1>3, <1>4, <1>5

\* A sum of naturals is one; it depends on what is summed alone; and it grows
\* by one with one of its summands.
LEMMA TotalType ==
    ASSUME NEW S, IsFiniteSet(S), NEW f, \A s \in S : f[s] \in Nat
    PROVE  Total(f, S) \in Nat
<1> DEFINE Bad == {u \in SUBSET S : Total(f, u) \notin Nat}
<1>1. Bad = {}
  <2> SUFFICES ASSUME Bad # {} PROVE FALSE
    OBVIOUS
  <2>1. PICK u \in Bad : \A v \in Bad : v \subseteq u => v = u
    <3>1. Bad \in SUBSET (SUBSET S)
      OBVIOUS
    <3> HIDE DEF Bad
    <3> QED
      BY <3>1, SmallestSubset
  <2>2. u # {} /\ u \in SUBSET S /\ IsFiniteSet(u)
    <3>1. Total(f, {}) \in Nat
      BY TotalEmpty
    <3> QED
      BY <3>1, FS_Subset
  <2>3. First(u) \in u
    BY <2>2 DEF First
  <2>4. u \ {First(u)} \notin Bad
    BY <2>1, <2>3
  <2>5. Total(f, u \ {First(u)}) \in Nat
    BY <2>2, <2>4
  <2>6. Total(f, u) = f[First(u)] + Total(f, u \ {First(u)})
    BY <2>2, TotalFirst
  <2> QED
    BY <2>2, <2>3, <2>5, <2>6
<1> QED
  BY <1>1

LEMMA TotalZero ==
    ASSUME NEW S, IsFiniteSet(S), NEW f, \A s \in S : f[s] = 0
    PROVE  Total(f, S) = 0
<1> DEFINE Bad == {u \in SUBSET S : Total(f, u) # 0}
<1>1. Bad = {}
  <2> SUFFICES ASSUME Bad # {} PROVE FALSE
    OBVIOUS
  <2>1. PICK u \in Bad : \A v \in Bad : v \subseteq u => v = u
    <3>1. Bad \in SUBSET (SUBSET S)
      OBVIOUS
    <3> HIDE DEF Bad
    <3> QED
      BY <3>1, SmallestSubset
  <2>2. u # {} /\ u \in SUBSET S /\ IsFiniteSet(u)
    <3>1. Total(f, {}) = 0
      BY TotalEmpty
    <3> QED
      BY <3>1, FS_Subset
  <2>3. First(u) \in u
    BY <2>2 DEF First
  <2>4. u \ {First(u)} \notin Bad
    BY <2>1, <2>3
  <2>5. Total(f, u \ {First(u)}) = 0
    BY <2>2, <2>4
  <2>6. Total(f, u) = f[First(u)] + Total(f, u \ {First(u)})
    BY <2>2, TotalFirst
  <2> QED
    BY <2>2, <2>3, <2>5, <2>6
<1> QED
  BY <1>1

LEMMA TotalSame ==
    ASSUME NEW S, IsFiniteSet(S), NEW f, NEW g, \A s \in S : f[s] = g[s]
    PROVE  Total(f, S) = Total(g, S)
<1> DEFINE Bad == {u \in SUBSET S : Total(f, u) # Total(g, u)}
<1>1. Bad = {}
  <2> SUFFICES ASSUME Bad # {} PROVE FALSE
    OBVIOUS
  <2>1. PICK u \in Bad : \A v \in Bad : v \subseteq u => v = u
    <3>1. Bad \in SUBSET (SUBSET S)
      OBVIOUS
    <3> HIDE DEF Bad
    <3> QED
      BY <3>1, SmallestSubset
  <2>2. u # {} /\ u \in SUBSET S /\ IsFiniteSet(u)
    BY TotalEmpty, FS_Subset
  <2>3. First(u) \in u
    BY <2>2 DEF First
  <2>4. u \ {First(u)} \notin Bad
    BY <2>1, <2>3
  <2>5. Total(f, u \ {First(u)}) = Total(g, u \ {First(u)})
    BY <2>2, <2>4
  <2>6. /\ Total(f, u) = f[First(u)] + Total(f, u \ {First(u)})
        /\ Total(g, u) = g[First(u)] + Total(g, u \ {First(u)})
    BY <2>2, TotalFirst
  <2> QED
    BY <2>2, <2>3, <2>5, <2>6
<1> QED
  BY <1>1

LEMMA TotalPlusOne ==
    ASSUME NEW S, IsFiniteSet(S), NEW f, NEW g, NEW x \in S,
           \A s \in S : f[s] \in Nat,
           g[x] = f[x] + 1, \A s \in S \ {x} : g[s] = f[s]
    PROVE  Total(g, S) = Total(f, S) + 1
<1> DEFINE Bad == {u \in SUBSET S : x \in u /\ Total(g, u) # Total(f, u) + 1}
<1>1. Bad = {}
  <2> SUFFICES ASSUME Bad # {} PROVE FALSE
    OBVIOUS
  <2>1. PICK u \in Bad : \A v \in Bad : v \subseteq u => v = u
    <3>1. Bad \in SUBSET (SUBSET S)
      OBVIOUS
    <3> HIDE DEF Bad
    <3> QED
      BY <3>1, SmallestSubset
  <2>2. x \in u /\ u \in SUBSET S /\ IsFiniteSet(u)
    BY FS_Subset
  <2> DEFINE p == First(u)
             v == u \ {p}
  <2>3. p \in u
    BY <2>2 DEF First
  <2>4. v \in SUBSET S /\ IsFiniteSet(v)
    BY <2>2, FS_Subset
  <2>5. Total(f, v) \in Nat /\ Total(g, v) \in Nat
    <3>1. \A s \in v : f[s] \in Nat /\ g[s] \in Nat
      BY <2>4
    <3> HIDE DEF v
    <3> QED
      BY <2>4, <3>1, TotalType
  <2>6. Total(f, u) = f[p] + Total(f, v) /\ Total(g, u) = g[p] + Total(g, v)
    BY <2>2, TotalFirst
  <2>7. CASE p = x
    <3>1. \A s \in v : f[s] = g[s]
      BY <2>4, <2>7
    <3>2. Total(f, v) = Total(g, v)
      <4> HIDE DEF v
      <4> QED
        BY <2>4, <3>1, TotalSame
    <3>3. f[p] \in Nat /\ g[p] = f[p] + 1
      BY <2>7
    <3>4. Total(g, u) = Total(f, u) + 1
      BY <2>5, <2>6, <3>2, <3>3
    <3> QED
      BY <3>4
  <2>8. CASE p # x
    <3>1. v \notin Bad /\ x \in v
      BY <2>1, <2>2, <2>3, <2>8
    <3>2. Total(g, v) = Total(f, v) + 1
      BY <2>4, <3>1
    <3>3. f[p] \in Nat /\ g[p] = f[p]
      BY <2>2, <2>3, <2>8
    <3>4. Total(g, u) = Total(f, u) + 1
      BY <2>5, <2>6, <3>2, <3>3
    <3> QED
      BY <3>4
  <2> QED
    BY <2>7, <2>8
<1> QED
  BY <1>1


-----------------------------------------------------------------------------
(* Hits that mean a player.                                                *)

\* As long as nobody fights where the heroes of empty seats stand, every hit
\* on its way, every kill being handled and every respawn to come is about a
\* player, under that player's id.
RealHit == {p \in ToServer : p.t = "HIT" => p.hit \in Players /\ p.id = Seat(p.hit)}
RealKill == {k \in Kill : \E v \in Players : k.killed = {v} /\ k.id = Seat(v)}
RealTimer == {e \in Timer : e.s \in Players}
HitsMeanPlayers ==
    /\ c2s \in [Players -> Seq(RealHit)]
    /\ busy \in [Players -> {Idle} \cup RealKill]
    /\ timers \in Seq(RealTimer)

LEMMA RealVolley ==
    ASSUME ~HitEmptySeats, NEW c \in Players,
           NEW hits \in Ascending(Enemies(c)), NEW d \in Damage
    PROVE  [i \in DOMAIN hits |->
               [t |-> "HIT", hit |-> ServerID(hits[i]), id |-> hits[i], damage |-> d]]
               \in Seq(RealHit)
<1>1. Enemies(c) \in SUBSET Ids /\ \A g \in Enemies(c) : Taken(g)
  BY DEF Enemies
<1>2. IsFiniteSet(Enemies(c))
  <2>1. IsFiniteSet(Ids)
    BY Constants, FS_Interval DEF Ids
  <2> QED
    BY <1>1, <2>1, FS_Subset
<1>3. PICK n \in 1 .. Cardinality(Enemies(c)) : hits \in [1 .. n -> Enemies(c)]
  BY DEF Ascending
<1>4. n \in Nat
  BY <1>2, FS_CardinalityType
<1>5. ASSUME NEW g \in Enemies(c)
      PROVE  [t |-> "HIT", hit |-> ServerID(g), id |-> g, damage |-> d] \in RealHit
  <2>1. ServerID(g) \in Players /\ Seat(ServerID(g)) = g
    BY <1>1, EveryIdTaken
  <2>2. ServerID(g) \in Users /\ g \in Ids
    BY <1>1, <2>1, Constants
  <2> QED
    BY <2>1, <2>2 DEF RealHit, ToServer
<1> QED
  BY <1>3, <1>4, <1>5

LEMMA RealStep ==
    ASSUME ~HitEmptySeats, TypeOK, HitsMeanPlayers, [Next]_vars
    PROVE  HitsMeanPlayers'
<1> USE DEF HitsMeanPlayers
<1>1. ASSUME NEW c \in Players, c2s[c] # <<>>
      PROVE  Head(c2s[c]) \in RealHit /\ Tail(c2s[c]) \in Seq(RealHit)
  BY <1>1, HeadTyped
<1>2. ASSUME NEW c \in Players, Strike(c) PROVE HitsMeanPlayers'
  <2>1. PICK v \in Users, g \in Ids, d \in Damage : Hit(c, v, g, d)
    BY <1>2, StrikeIs
  <2>2. v \in Players /\ g = Seat(v) /\ Tail(c2s[c]) \in Seq(RealHit)
    BY <1>1, <2>1 DEF Hit, RealHit
  <2>3. [killed |-> {v}, id |-> g] \in RealKill
    BY <2>2 DEF RealKill, Kill
  <2> QED
    BY <2>1, <2>2, <2>3 DEF Hit, Wounded, Killed
<1>3. ASSUME NEW c \in Players, Judge(c) PROVE HitsMeanPlayers'
  <2>1. busy[c] \in RealKill
    BY <1>3 DEF Judge
  <2>2. ASSUME NEW v \in busy[c].killed PROVE NewTimers(v, Verdict) \in Seq(RealTimer)
    <3>1. v \in Players /\ v \in Users
      BY <2>1, Constants DEF RealKill
    <3>2. [s |-> v, room |-> Room, late |-> verdicts # <<>>] \in RealTimer
      BY <3>1 DEF RealTimer, Timer
    <3> QED
      BY <3>2 DEF NewTimers
  <2> QED
    BY <1>3, <2>2 DEF Judge
<1>4. CASE Respawn
  <2>1. Tail(timers) \in Seq(RealTimer)
    BY <1>4, HeadTyped DEF Respawn
  <2> QED
    BY <1>4, <2>1 DEF Respawn
<1>5. ASSUME NEW c \in Players, SkillDone(c) \/ LobbyReset(c) PROVE HitsMeanPlayers'
  BY <1>1, <1>5 DEF SkillDone, LobbyReset, serverVars
<1>6. ASSUME NEW c \in Players, Receive(c) \/ ShowEnding(c) PROVE HitsMeanPlayers'
  BY <1>6 DEF Receive, GotDie, GotRespawn, GotSkillDone, GotResult, GotRow, Receives,
              ShowEnding, serverVars
<1>7. ASSUME NEW c \in Players, Swing(c) PROVE HitsMeanPlayers'
  <2>1. PICK hits \in Ascending(Enemies(c)), d \in Damage :
             c2s' = [c2s EXCEPT ![c] = @ \o [i \in DOMAIN hits |->
                        [t |-> "HIT", hit |-> ServerID(hits[i]), id |-> hits[i],
                         damage |-> d]] \o <<[t |-> "DONE"]>>]
    BY <1>7 DEF Swing
  <2> DEFINE volley == [i \in DOMAIN hits |->
                 [t |-> "HIT", hit |-> ServerID(hits[i]), id |-> hits[i], damage |-> d]]
  <2>2. volley \in Seq(RealHit) /\ [t |-> "DONE"] \in RealHit
    BY RealVolley DEF RealHit, ToServer
  <2>3. c2s' = [c2s EXCEPT ![c] = @ \o volley \o <<[t |-> "DONE"]>>]
    BY <2>1
  <2> HIDE DEF volley
  <2>4. c2s' \in [Players -> Seq(RealHit)]
    BY <2>2, <2>3
  <2> QED
    BY <1>7, <2>4 DEF Swing, serverVars
<1>8. ASSUME NEW c \in Players, Confirm(c) PROVE HitsMeanPlayers'
  <2>1. [t |-> "CONFIRM"] \in RealHit
    BY DEF RealHit, ToServer
  <2>2. Append(c2s[c], [t |-> "CONFIRM"]) \in Seq(RealHit)
    BY <2>1
  <2> QED
    BY <1>8, <2>2 DEF Confirm, serverVars
<1>9. CASE UNCHANGED vars
  BY <1>9 DEF vars, serverVars
<1> QED
  BY <1>2, <1>3, <1>4, <1>5, <1>6, <1>7, <1>8, <1>9 DEF Next, Handle

\* Until somebody leaves, the slots hold the ids they started with, and those
\* who are to be respawned are marked as members of the room.
SlotsKept ==
    members = Players =>
        /\ \A s \in Players : gameID[s] = Seat(s)
        /\ \A i \in DOMAIN timers : roomNumber[timers[i].s] = Room
        /\ \A c \in Players : \A v \in busy[c].killed : roomNumber[v] = Room

LEMMA NobodyLeft ==
    ASSUME TypeOK, [Next]_vars, members' = Players
    PROVE  /\ members = Players
           /\ \A c \in Players : ~LobbyReset(c)
<1>1. \A c \in Players : ~LobbyReset(c)
  BY DEF LobbyReset
<1> QED
  BY <1>1 DEF Next, Handle, Strike, Judge, Respawn, SkillDone, Receive, GotDie,
           GotRespawn, GotSkillDone, GotResult, GotRow, Receives, Swing, ShowEnding,
           Confirm, vars, serverVars

LEMMA SlotsStep ==
    ASSUME ~HitEmptySeats, TypeOK, HitsMeanPlayers, SlotsKept, [Next]_vars
    PROVE  SlotsKept'
<1> SUFFICES ASSUME members' = Players
             PROVE  /\ \A s \in Players : gameID'[s] = Seat(s)
                    /\ \A i \in DOMAIN timers' : roomNumber'[timers'[i].s] = Room
                    /\ \A c \in Players : \A v \in busy'[c].killed : roomNumber'[v] = Room
  BY DEF SlotsKept
<1> DEFINE Marked == /\ \A i \in DOMAIN timers' : roomNumber'[timers'[i].s] = Room
                     /\ \A c \in Players : \A v \in busy'[c].killed : roomNumber'[v] = Room
<1>1. /\ members = Players
      /\ \A s \in Players : gameID[s] = Seat(s)
      /\ \A i \in DOMAIN timers : roomNumber[timers[i].s] = Room
      /\ \A c \in Players : \A v \in busy[c].killed : roomNumber[v] = Room
      /\ \A c \in Players : ~LobbyReset(c)
  BY NobodyLeft DEF SlotsKept
<1>2. /\ timers \in Seq(RealTimer) /\ busy \in [Players -> {Idle} \cup RealKill]
      /\ roomNumber \in [Users -> {0, Room}]
      /\ Players \subseteq Users
  BY Constants DEF HitsMeanPlayers, TypeOK, HeroTypeOK
<1>3. gameID' = gameID
  BY <1>1 DEF Next, Handle, Strike, Judge, Respawn, SkillDone, Receive, GotDie,
           GotRespawn, GotSkillDone, GotResult, GotRow, Receives, Swing, ShowEnding,
           Confirm, vars, serverVars
<1>4. ASSUME NEW c \in Players, Strike(c) PROVE Marked
  <2>1. PICK v \in Users, g \in Ids, d \in Damage : Hit(c, v, g, d)
    BY <1>4, StrikeIs
  <2>2. CASE Wounded(v, d)
    BY <1>1, <2>1, <2>2 DEF Hit, Wounded
  <2>3. CASE Killed(c, v, g)
    BY <1>1, <1>2, <2>1, <2>3 DEF Hit, Killed, Idle
  <2> QED
    BY <2>1, <2>2, <2>3 DEF Hit
<1>5. ASSUME NEW c \in Players, Judge(c) PROVE Marked
  <2>1. PICK v \in busy[c].killed : timers' = NewTimers(v, Verdict)
    BY <1>5 DEF Judge
  <2>2. roomNumber' = roomNumber /\ busy' = [busy EXCEPT ![c] = Idle]
    BY <1>5 DEF Judge
  <2>3. \A i \in DOMAIN timers' : timers'[i].s = v \/ (i \in DOMAIN timers /\ timers'[i] = timers[i])
    BY <1>2, <2>1 DEF NewTimers
  <2>4. \A i \in DOMAIN timers' : roomNumber'[timers'[i].s] = Room
    BY <1>1, <2>1, <2>2, <2>3
  <2>5. \A e \in Players : \A u \in busy'[e].killed : roomNumber'[u] = Room
    BY <1>1, <1>2, <2>2 DEF Idle
  <2> QED
    BY <2>4, <2>5
<1>6. ASSUME Respawn PROVE Marked
  <2>1. timers # <<>> /\ timers' = Tail(timers) /\ UNCHANGED <<busy, roomNumber>>
    BY <1>6 DEF Respawn
  <2>2. \A i \in DOMAIN timers' : i + 1 \in DOMAIN timers /\ timers'[i] = timers[i + 1]
    BY <1>2, <2>1, HeadTailProperties
  <2> QED
    BY <1>1, <2>1, <2>2
<1>7. ASSUME NEW c \in Players, SkillDone(c) \/ Receive(c) \/ Swing(c) \/ ShowEnding(c)
                                \/ Confirm(c)
      PROVE  Marked
  <2>1. UNCHANGED <<timers, busy, roomNumber>>
    BY <1>7 DEF SkillDone, Receive, GotDie, GotRespawn, GotSkillDone, GotResult, GotRow,
                Receives, Swing, ShowEnding, Confirm, serverVars
  <2> QED
    BY <1>1, <2>1
<1>8. ASSUME UNCHANGED vars PROVE Marked
  BY <1>1, <1>8 DEF vars, serverVars
<1> QED
  BY <1>1, <1>3, <1>4, <1>5, <1>6, <1>7, <1>8 DEF Next, Handle


-----------------------------------------------------------------------------
(* The scores.                                                             *)

LEMMA ScoresStep ==
    ASSUME ~HitEmptySeats, TypeOK, HitsMeanPlayers, SlotsKept, ScoresAgree, [Next]_vars
    PROVE  ScoresAgree'
<1> SUFFICES ASSUME members' = Players
             PROVE  /\ Total(killcount', Players) = fallen'.A + fallen'.B
                    /\ \A k \in {"A", "B"} :
                          fallen'[k] = Total(deathcount',
                                             {s \in Players : Team(gameID'[s]) = k})
  BY DEF ScoresAgree
<1> DEFINE Side(k) == {s \in Players : Team(gameID[s]) = k}
<1>1. /\ members = Players
      /\ \A s \in Players : gameID[s] = Seat(s)
      /\ Total(killcount, Players) = fallen.A + fallen.B
      /\ \A k \in {"A", "B"} : fallen[k] = Total(deathcount, Side(k))
      /\ \A c \in Players : ~LobbyReset(c)
  BY NobodyLeft DEF SlotsKept, ScoresAgree
<1>2. /\ killcount \in [Users -> Nat] /\ deathcount \in [Users -> Nat]
      /\ fallen \in [{"A", "B"} -> Nat] /\ Players \subseteq Users
      /\ IsFiniteSet(Players)
  BY Constants DEF TypeOK, HeroTypeOK, RoomTypeOK
<1>3. \A k \in {"A", "B"} : Side(k) \subseteq Players /\ IsFiniteSet(Side(k))
  BY <1>2, FS_Subset
<1>4. ASSUME UNCHANGED <<killcount, deathcount, fallen, gameID>>
      PROVE  /\ Total(killcount', Players) = fallen'.A + fallen'.B
             /\ \A k \in {"A", "B"} :
                   fallen'[k] = Total(deathcount', {s \in Players : Team(gameID'[s]) = k})
  BY <1>1, <1>4
<1>5. ASSUME NEW c \in Players, Strike(c)
      PROVE  /\ Total(killcount', Players) = fallen'.A + fallen'.B
             /\ \A k \in {"A", "B"} :
                   fallen'[k] = Total(deathcount', {s \in Players : Team(gameID'[s]) = k})
  <2>1. PICK v \in Users, g \in Ids, d \in Damage : Hit(c, v, g, d)
    BY <1>5, StrikeIs
  <2>2. gameID' = gameID
    BY <2>1 DEF Hit
  <2>3. v \in Players /\ g = Seat(v)
    <3>1. Head(c2s[c]) \in RealHit
      BY <2>1, HeadTyped DEF HitsMeanPlayers, Hit
    <3> QED
      BY <2>1, <3>1 DEF Hit, RealHit
  <2>4. CASE Wounded(v, d)
    BY <1>4, <2>2, <2>4 DEF Wounded
  <2>5. CASE Killed(c, v, g)
    <3>1. Team(g) \in {"A", "B"} /\ v \in Side(Team(g))
      BY <1>1, <2>3 DEF Team
    <3>2. Total(killcount', Players) = Total(killcount, Players) + 1
      <4>1. /\ killcount'[c] = killcount[c] + 1
            /\ \A s \in Players \ {c} : killcount'[s] = killcount[s]
            /\ \A s \in Players : killcount[s] \in Nat
        BY <1>2, <2>5 DEF Killed
      <4> QED
        BY <1>2, <4>1, TotalPlusOne
    <3>3. fallen'.A + fallen'.B = fallen.A + fallen.B + 1
      BY <1>2, <2>5, <3>1 DEF Killed
    <3>4. ASSUME NEW k \in {"A", "B"} PROVE fallen'[k] = Total(deathcount', Side(k))
      <4>1. /\ deathcount'[v] = deathcount[v] + 1
            /\ \A s \in Side(k) \ {v} : deathcount'[s] = deathcount[s]
            /\ \A s \in Side(k) : deathcount[s] \in Nat
        BY <1>2, <2>5 DEF Killed
      <4>2. CASE k = Team(g)
        <5>1. Total(deathcount', Side(k)) = Total(deathcount, Side(k)) + 1
          <6>1. v \in Side(k) /\ IsFiniteSet(Side(k))
            BY <1>3, <3>1, <4>2
          <6> HIDE DEF Side
          <6> QED
            BY <4>1, <6>1, TotalPlusOne
        <5>2. fallen'[k] = fallen[k] + 1
          BY <1>2, <2>5, <4>2 DEF Killed
        <5> QED
          BY <1>1, <5>1, <5>2
      <4>3. CASE k # Team(g)
        <5>1. Total(deathcount', Side(k)) = Total(deathcount, Side(k))
          <6>1. v \notin Side(k) /\ IsFiniteSet(Side(k))
            BY <1>1, <1>3, <2>3, <4>3
          <6> HIDE DEF Side
          <6> QED
            BY <4>1, <6>1, TotalSame
        <5>2. fallen'[k] = fallen[k]
          BY <1>2, <2>5, <4>3 DEF Killed
        <5> QED
          BY <1>1, <5>1, <5>2
      <4> QED
        BY <4>2, <4>3
    <3> QED
      BY <1>1, <1>2, <2>2, <3>2, <3>3, <3>4
  <2> QED
    BY <2>1, <2>4, <2>5 DEF Hit
<1>6. ASSUME NEW c \in Players, Judge(c) \/ Respawn \/ SkillDone(c) \/ Receive(c)
                                \/ Swing(c) \/ ShowEnding(c) \/ Confirm(c)
      PROVE  UNCHANGED <<killcount, deathcount, fallen, gameID>>
  BY <1>6 DEF Judge, Respawn, SkillDone, Receive, GotDie, GotRespawn, GotSkillDone,
              GotResult, GotRow, Receives, Swing, ShowEnding, Confirm, serverVars
<1>7. CASE Respawn
  BY <1>4, <1>7 DEF Respawn
<1>8. CASE UNCHANGED vars
  BY <1>4, <1>8 DEF vars, serverVars
<1> QED
  BY <1>1, <1>4, <1>5, <1>6, <1>7, <1>8 DEF Next, Handle

LEMMA RealInit == Init => HitsMeanPlayers /\ SlotsKept /\ ScoresAgree
<1> SUFFICES ASSUME Init PROVE HitsMeanPlayers /\ SlotsKept /\ ScoresAgree
  OBVIOUS
<1>1. Players \subseteq Users /\ IsFiniteSet(Players)
  BY Constants
<1>2. HitsMeanPlayers
  BY DEF Init, HitsMeanPlayers
<1>3. SlotsKept
  BY <1>1 DEF Init, SlotsKept, Idle
<1>4. Total(killcount, Players) = 0
  BY <1>1, TotalZero DEF Init
<1>5. ASSUME NEW S \in SUBSET Players PROVE Total(deathcount, S) = 0
  <2>1. IsFiniteSet(S) /\ \A s \in S : deathcount[s] = 0
    BY <1>1, FS_Subset DEF Init
  <2> QED
    BY <2>1, TotalZero
<1>6. ScoresAgree
  <2>1. \A k \in {"A", "B"} : fallen[k] = 0
    BY DEF Init
  <2>2. \A k : Total(deathcount, {s \in Players : Team(gameID[s]) = k}) = 0
    BY <1>5
  <2> QED
    BY <1>4, <2>1, <2>2 DEF ScoresAgree
<1> QED
  BY <1>2, <1>3, <1>6

\* Whatever the delays, and however many handlers work at a time, the counts
\* of the room and of its members tell the same story, as long as nobody
\* fights where the heroes of empty seats stand.
THEOREM ScoresAlwaysAgree ==
    ASSUME ~HitEmptySeats
    PROVE  Spec => []ScoresAgree
<1> DEFINE Inv == HitsMeanPlayers /\ SlotsKept /\ ScoresAgree
<1>1. Init => Inv
  BY RealInit
<1>2. TypeOK /\ Inv /\ [Next]_vars => Inv'
  BY RealStep, SlotsStep, ScoresStep
<1>3. Inv => ScoresAgree
  OBVIOUS
<1> HIDE DEF Inv
<1> QED
  BY <1>1, <1>2, <1>3, TypeCorrect, PTL DEF Spec


-----------------------------------------------------------------------------
(* What a client will show once it has read its queue.                     *)

\* Packet m tells of hero g; the queue q leaves a client that holds hero g for
\* dead, or not, with the belief that g is dead; the deaths q tells of.
Says(m, t, g) == m.t = t /\ m.id = g
TellsDead(q, g, held) ==
    \/ \E i \in DOMAIN q : /\ Says(q[i], "DIE", g)
                           /\ \A j \in DOMAIN q : j > i => ~Says(q[j], "RESPAWN", g)
    \/ held /\ \A j \in DOMAIN q : ~Says(q[j], "RESPAWN", g)
Deaths(q, k) == {i \in DOMAIN q : q[i].t = "DIE" /\ Team(q[i].id) = k}
DeathCount(q, k) == Cardinality(Deaths(q, k))

LEMMA DeathCountType ==
    ASSUME NEW q \in Seq(ToClient), NEW k
    PROVE  /\ IsFiniteSet(Deaths(q, k)) /\ DeathCount(q, k) \in Nat
           /\ Deaths(q, k) \subseteq 1 .. Len(q) /\ Len(q) \in Nat
<1>1. Deaths(q, k) \subseteq 1 .. Len(q) /\ Len(q) \in Nat
  BY DEF Deaths
<1>2. IsFiniteSet(1 .. Len(q))
  BY <1>1, FS_Interval
<1>3. IsFiniteSet(Deaths(q, k))
  BY <1>1, <1>2, FS_Subset
<1> QED
  BY <1>1, <1>3, FS_CardinalityType DEF DeathCount

\* Packets appended to a queue, the first of which may tell of a hero.
LEMMA QueueGrows ==
    ASSUME NEW q \in Seq(ToClient), NEW ps \in Seq(ToClient), ps # <<>>,
           \A i \in 2 .. Len(ps) : ps[i].t \notin {"DIE", "RESPAWN"}
    PROVE  /\ \A g, held :
                 TellsDead(q \o ps, g, held) <=>
                     \/ Says(ps[1], "DIE", g)
                     \/ TellsDead(q, g, held) /\ ~Says(ps[1], "RESPAWN", g)
           /\ \A k : DeathCount(q \o ps, k) =
                        IF ps[1].t = "DIE" /\ Team(ps[1].id) = k
                        THEN DeathCount(q, k) + 1 ELSE DeathCount(q, k)
<1> DEFINE n == Len(q)
           r == q \o ps
<1>1. /\ n \in Nat /\ Len(ps) \in Nat \ {0} /\ DOMAIN q = 1 .. n
      /\ DOMAIN r = 1 .. n + Len(ps)
      /\ \A i \in 1 .. n : r[i] = q[i]
      /\ \A i \in n + 1 .. n + Len(ps) : r[i] = ps[i - n]
  BY EmptySeq, LenProperties, ConcatProperties
<1>2. r[n + 1] = ps[1] /\ n + 1 \in DOMAIN r
  BY <1>1
<1>3. \A i \in n + 2 .. n + Len(ps) : r[i].t \notin {"DIE", "RESPAWN"}
  BY <1>1
<1>4. ASSUME NEW g, NEW held
      PROVE  TellsDead(r, g, held) <=> \/ Says(ps[1], "DIE", g)
                                       \/ TellsDead(q, g, held) /\ ~Says(ps[1], "RESPAWN", g)
  <2>1. CASE Says(ps[1], "DIE", g)
    <3>1. \A j \in DOMAIN r : j > n + 1 => ~Says(r[j], "RESPAWN", g)
      BY <1>1, <1>3 DEF Says
    <3> QED
      BY <1>2, <2>1, <3>1 DEF TellsDead
  <2>2. CASE ~Says(ps[1], "DIE", g)
    <3>1. \A i \in DOMAIN r : Says(r[i], "DIE", g) => i \in 1 .. n
      BY <1>1, <1>2, <1>3, <2>2 DEF Says
    <3>2. \A i \in DOMAIN r : Says(r[i], "RESPAWN", g) => i \in 1 .. n + 1
      BY <1>1, <1>3 DEF Says
    <3>3. Says(r[n + 1], "RESPAWN", g) <=> Says(ps[1], "RESPAWN", g)
      BY <1>2
    <3> HIDE DEF r, n
    <3>4. CASE Says(ps[1], "RESPAWN", g)
      <4>1. \A i \in DOMAIN r : Says(r[i], "DIE", g) => n + 1 > i
        BY <1>1, <3>1
      <4>2. ~TellsDead(r, g, held)
        BY <1>2, <3>3, <3>4, <4>1 DEF TellsDead
      <4> QED
        BY <2>2, <3>4, <4>2
    <3>5. CASE ~Says(ps[1], "RESPAWN", g)
      <4>1. \A j \in DOMAIN r : Says(r[j], "RESPAWN", g) => j \in 1 .. n
        BY <1>1, <3>2, <3>3, <3>5
      <4>2. TellsDead(r, g, held) => TellsDead(q, g, held)
        BY <1>1, <3>1, <4>1 DEF TellsDead
      <4>3. TellsDead(q, g, held) => TellsDead(r, g, held)
        BY <1>1, <3>1, <4>1 DEF TellsDead
      <4> QED
        BY <2>2, <3>5, <4>2, <4>3
    <3> QED
      BY <3>4, <3>5
  <2> QED
    BY <2>1, <2>2
<1>5. ASSUME NEW k
      PROVE  DeathCount(r, k) = IF ps[1].t = "DIE" /\ Team(ps[1].id) = k
                                THEN DeathCount(q, k) + 1 ELSE DeathCount(q, k)
  <2>1. Deaths(r, k) = IF ps[1].t = "DIE" /\ Team(ps[1].id) = k
                       THEN Deaths(q, k) \cup {n + 1} ELSE Deaths(q, k)
    BY <1>1, <1>2, <1>3 DEF Deaths
  <2>2. n + 1 \notin Deaths(q, k) /\ IsFiniteSet(Deaths(q, k))
    BY <1>1, DeathCountType
  <2> QED
    BY <2>1, <2>2, FS_AddElement DEF DeathCount
<1> QED
  BY <1>4, <1>5

\* The first packet of a queue is read.
LEMMA QueueShrinks ==
    ASSUME NEW q \in Seq(ToClient), q # <<>>
    PROVE  /\ \A g, held :
                 TellsDead(q, g, held) <=>
                     TellsDead(Tail(q), g, \/ Says(Head(q), "DIE", g)
                                           \/ held /\ ~Says(Head(q), "RESPAWN", g))
           /\ \A k : DeathCount(q, k) =
                        IF Head(q).t = "DIE" /\ Team(Head(q).id) = k
                        THEN DeathCount(Tail(q), k) + 1 ELSE DeathCount(Tail(q), k)
<1> DEFINE n == Len(q)
           r == Tail(q)
<1>1. /\ n \in Nat \ {0} /\ DOMAIN q = 1 .. n /\ DOMAIN r = 1 .. n - 1
      /\ \A i \in 1 .. n - 1 : r[i] = q[i + 1]
      /\ Head(q) = q[1] /\ r \in Seq(ToClient)
  BY EmptySeq, HeadTailProperties
<1>2. \A i \in 2 .. n : i - 1 \in 1 .. n - 1 /\ r[i - 1] = q[i]
  BY <1>1
<1> HIDE DEF n, r
<1>3. ASSUME NEW g, NEW held, NEW m, m = q[1]
      PROVE  TellsDead(q, g, held) <=>
                 TellsDead(r, g, \/ Says(m, "DIE", g)
                                 \/ held /\ ~Says(m, "RESPAWN", g))
  <2> DEFINE now == Says(m, "DIE", g) \/ (held /\ ~Says(m, "RESPAWN", g))
             NoneLater == \A j \in 2 .. n : ~Says(q[j], "RESPAWN", g)
             DieLater == \E i \in 2 .. n : /\ Says(q[i], "DIE", g)
                                           /\ \A j \in 2 .. n : j > i => ~Says(q[j], "RESPAWN", g)
  <2>1. NoneLater <=> \A j \in 1 .. n - 1 : ~Says(r[j], "RESPAWN", g)
    <3>1. \A j \in 1 .. n - 1 : j + 1 \in 2 .. n
      BY <1>1
    <3> QED
      BY <1>1, <1>2, <3>1
  <2>2. DieLater <=> \E i \in 1 .. n - 1 :
                        /\ Says(r[i], "DIE", g)
                        /\ \A j \in 1 .. n - 1 : j > i => ~Says(r[j], "RESPAWN", g)
    <3>1. ASSUME DieLater
          PROVE  \E i \in 1 .. n - 1 :
                        /\ Says(r[i], "DIE", g)
                        /\ \A j \in 1 .. n - 1 : j > i => ~Says(r[j], "RESPAWN", g)
      <4>1. PICK i \in 2 .. n : /\ Says(q[i], "DIE", g)
                                /\ \A j \in 2 .. n : j > i => ~Says(q[j], "RESPAWN", g)
        BY <3>1
      <4>2. i - 1 \in 1 .. n - 1 /\ Says(r[i - 1], "DIE", g)
        BY <1>2, <4>1
      <4>3. \A j \in 1 .. n - 1 : j > i - 1 => ~Says(r[j], "RESPAWN", g)
        <5>1. ASSUME NEW j \in 1 .. n - 1, j > i - 1 PROVE ~Says(r[j], "RESPAWN", g)
          <6>1. j + 1 \in 2 .. n /\ j + 1 > i
            BY <1>1, <5>1
          <6> QED
            BY <1>1, <4>1, <6>1
        <5> QED
          BY <5>1
      <4> QED
        BY <4>2, <4>3
    <3>2. ASSUME NEW i \in 1 .. n - 1, Says(r[i], "DIE", g),
                 \A j \in 1 .. n - 1 : j > i => ~Says(r[j], "RESPAWN", g)
          PROVE  DieLater
      <4>1. i + 1 \in 2 .. n /\ Says(q[i + 1], "DIE", g)
        BY <1>1, <3>2
      <4>2. \A j \in 2 .. n : j > i + 1 => ~Says(q[j], "RESPAWN", g)
        <5>1. ASSUME NEW j \in 2 .. n, j > i + 1 PROVE ~Says(q[j], "RESPAWN", g)
          <6>1. j - 1 \in 1 .. n - 1 /\ j - 1 > i
            BY <1>1, <5>1
          <6> QED
            BY <1>2, <3>2, <6>1
        <5> QED
          BY <5>1
      <4> QED
        BY <4>1, <4>2
    <3> QED
      BY <3>1, <3>2
  <2>3. TellsDead(r, g, now) <=> DieLater \/ (now /\ NoneLater)
    BY <1>1, <2>1, <2>2 DEF TellsDead
  <2>4. TellsDead(q, g, held) <=> DieLater \/ (now /\ NoneLater)
    <3>1. ASSUME TellsDead(q, g, held), ~DieLater PROVE now /\ NoneLater
      <4>1. CASE \E i \in 1 .. n : /\ Says(q[i], "DIE", g)
                                   /\ \A j \in 1 .. n : j > i => ~Says(q[j], "RESPAWN", g)
        <5>1. PICK i \in 1 .. n : /\ Says(q[i], "DIE", g)
                                  /\ \A j \in 1 .. n : j > i => ~Says(q[j], "RESPAWN", g)
          BY <4>1
        <5>2. \A j \in 2 .. n : j \in 1 .. n
          BY <1>1
        <5>3. i = 1
          BY <1>1, <3>1, <5>1, <5>2
        <5> QED
          BY <1>1, <1>3, <5>1, <5>2, <5>3
      <4>2. CASE held /\ \A j \in 1 .. n : ~Says(q[j], "RESPAWN", g)
        BY <1>1, <1>3, <4>2
      <4> QED
        BY <1>1, <3>1, <4>1, <4>2 DEF TellsDead
    <3>2. ASSUME DieLater PROVE TellsDead(q, g, held)
      BY <1>1, <3>2 DEF TellsDead
    <3>3. ASSUME now, NoneLater PROVE TellsDead(q, g, held)
      BY <1>1, <1>3, <3>3 DEF TellsDead, Says
    <3> QED
      BY <3>1, <3>2, <3>3
  <2> QED
    BY <2>3, <2>4
<1>4. ASSUME NEW k
      PROVE  DeathCount(q, k) = IF q[1].t = "DIE" /\ Team(q[1].id) = k
                                THEN DeathCount(r, k) + 1 ELSE DeathCount(r, k)
  <2> DEFINE D == Deaths(q, k) \ {1}
             f == [i \in D |-> i - 1]
  <2>1. IsFiniteSet(Deaths(q, k)) /\ DeathCount(r, k) \in Nat
    BY <1>1, DeathCountType
  <2>2. IsFiniteSet(D)
        /\ Cardinality(D) = IF 1 \in Deaths(q, k) THEN DeathCount(q, k) - 1
                                                  ELSE DeathCount(q, k)
    BY <2>1, FS_RemoveElement DEF DeathCount
  <2>3. \A i \in D : i \in 2 .. n /\ i - 1 \in Deaths(r, k)
    BY <1>1, <1>2 DEF Deaths
  <2>4. \A i \in Deaths(r, k) : i + 1 \in D /\ i \in Nat
    BY <1>1 DEF Deaths
  <2>5. f \in Bijection(D, Deaths(r, k))
    <3> HIDE DEF D
    <3>1. f \in Injection(D, Deaths(r, k))
      BY <1>1, <2>3 DEF Injection, IsInjective
    <3>2. f \in Surjection(D, Deaths(r, k))
      <4>1. \A y \in Deaths(r, k) : f[y + 1] = y
        BY <2>4
      <4> QED
        BY <2>3, <2>4, <4>1 DEF Surjection
    <3> QED
      BY <3>1, <3>2 DEF Bijection
  <2>6. Cardinality(D) = DeathCount(r, k)
    <3> HIDE DEF D, f
    <3> QED
      BY <2>2, <2>5, FS_Bijection DEF ExistsBijection, DeathCount
  <2>7. 1 \in Deaths(q, k) <=> q[1].t = "DIE" /\ Team(q[1].id) = k
    BY <1>1 DEF Deaths
  <2>8. DeathCount(q, k) \in Nat
    BY DeathCountType
  <2> HIDE DEF D
  <2> QED
    BY <2>1, <2>2, <2>6, <2>7, <2>8
<1> QED
  <2>1. ASSUME NEW g, NEW held
        PROVE  TellsDead(q, g, held) <=>
                   TellsDead(Tail(q), g, \/ Says(Head(q), "DIE", g)
                                         \/ held /\ ~Says(Head(q), "RESPAWN", g))
    <3>1. Head(q) = q[1]
      BY <1>1
    <3> QED
      BY <1>3, <3>1, Zenon DEF r
  <2>2. ASSUME NEW k
        PROVE  DeathCount(q, k) = IF Head(q).t = "DIE" /\ Team(Head(q).id) = k
                        THEN DeathCount(Tail(q), k) + 1 ELSE DeathCount(Tail(q), k)
    <3>1. Head(q) = q[1]
      BY <1>1
    <3> QED
      BY <1>4, <3>1, Zenon DEF r
  <2> QED
    BY <2>1, <2>2


-----------------------------------------------------------------------------
(* Clients follow the server.                                              *)

\* With one handler at a time one kill at most is counted and not yet told.
OneBusy == \A c, d \in Players : busy[c] # Idle /\ busy[d] # Idle => c = d
Pending(k) == IF \E d \in Players : busy[d] # Idle /\ Team(busy[d].id) = k
              THEN 1 ELSE 0
Falling(s) == \E d \in Players : s \in busy[d].killed

\* What a client in the game shows, what is on its way to it and what is about
\* to be sent make up what the server holds.
Follows(c) ==
    scene[c] = "GAME" =>
        /\ \A k \in {"A", "B"} :
              score[c][k] + DeathCount(s2c[c], k) + Pending(k) = fallen[k]
        /\ \A s \in Players :
              hp[s] = 0 <=> TellsDead(s2c[c], Seat(s), Seat(s) \in dead[c]) \/ Falling(s)
ClientsFollow == members = Players => \A c \in Players : Follows(c)

LEMMA OneBusyStep ==
    ASSUME Handlers = 1, TypeOK, OneBusy, [Next]_vars
    PROVE  OneBusy'
<1>1. busy \in [Players -> {Idle} \cup Kill]
  BY DEF TypeOK, RoomTypeOK
<1>2. ASSUME NEW c \in Players, Strike(c) PROVE OneBusy'
  <2>1. \A d \in Players : busy[d] = Idle
    BY <1>2, FreeMeansIdle DEF Strike
  <2>2. \A d \in Players \ {c} : busy'[d] = busy[d]
    BY <1>1, <1>2 DEF Strike
  <2> QED
    BY <2>1, <2>2 DEF OneBusy
<1>3. ASSUME NEW c \in Players, Judge(c) PROVE OneBusy'
  BY <1>1, <1>3 DEF Judge, OneBusy
<1>4. ASSUME UNCHANGED busy PROVE OneBusy'
  BY <1>4 DEF OneBusy
<1>5. ASSUME NEW c \in Players, Respawn \/ SkillDone(c) \/ LobbyReset(c) \/ Receive(c)
                                \/ Swing(c) \/ ShowEnding(c) \/ Confirm(c)
      PROVE  UNCHANGED busy
  BY <1>5 DEF Respawn, SkillDone, LobbyReset, Receive, GotDie, GotRespawn, GotSkillDone,
              GotResult, GotRow, Receives, Swing, ShowEnding, Confirm, serverVars
<1>6. CASE Respawn
  BY <1>4, <1>6 DEF Respawn
<1>7. CASE UNCHANGED vars
  BY <1>4, <1>7 DEF vars, serverVars
<1> QED
  BY <1>2, <1>3, <1>4, <1>5, <1>6, <1>7 DEF Next, Handle

\* Two players' heroes have different ids.
LEMMA SaysOfPlayer ==
    ASSUME NEW s \in Players, NEW v \in Players, NEW m, NEW t, m.id = Seat(v)
    PROVE  Says(m, t, Seat(s)) <=> m.t = t /\ s = v
  BY SeatsDiffer DEF Says

\* A kill is counted: it is told once its handler goes on.
LEMMA FollowsStrike ==
    ASSUME Handlers = 1, TypeOK, HitsMeanPlayers, members = Players,
           NEW c \in Players, Follows(c), NEW e \in Players, Strike(e)
    PROVE  Follows(c)'
<1> SUFFICES ASSUME scene[c] = "GAME" PROVE Follows(c)'
  BY DEF Strike, Follows, clientVars
<1>1. PICK v \in Users, g \in Ids, d \in Damage : Hit(e, v, g, d)
  BY StrikeIs
<1>2. v \in Players /\ g = Seat(v)
  <2>1. Head(c2s[e]) \in RealHit
    BY <1>1, HeadTyped DEF HitsMeanPlayers, Hit
  <2> QED
    BY <1>1, <2>1 DEF Hit, RealHit
<1>3. /\ UNCHANGED <<s2c, scene, score, dead>>
      /\ \A u \in Players : busy[u] = Idle
  BY <1>1, FreeMeansIdle DEF Hit, clientVars
<1>4. /\ \A k \in {"A", "B"} : score[c][k] + DeathCount(s2c[c], k) + Pending(k) = fallen[k]
      /\ \A s \in Players : hp[s] = 0 <=> TellsDead(s2c[c], Seat(s), Seat(s) \in dead[c])
                                          \/ Falling(s)
  BY DEF Follows
<1>5. (\A k : Pending(k) = 0) /\ (\A s : ~Falling(s))
  BY <1>3 DEF Pending, Falling, Idle
<1>6. /\ hp \in [Users -> 0 .. MaxHp] /\ fallen \in [{"A", "B"} -> Nat]
      /\ busy \in [Players -> {Idle} \cup Kill] /\ Players \subseteq Users /\ d # 0 /\ d \in Nat
      /\ score[c] \in [{"A", "B"} -> Nat] /\ MaxHp \in Nat
      /\ \A k \in {"A", "B"} : DeathCount(s2c[c], k) \in Nat
  BY Constants, DeathCountType
     DEF TypeOK, HeroTypeOK, RoomTypeOK, NetworkTypeOK, ClientTypeOK
<1>7. CASE Wounded(v, d)
  <2>1. \A s \in Players : hp'[s] = 0 <=> hp[s] = 0
    <3>1. hp[v] - d > 0 => hp[v] # 0
      BY <1>2, <1>6
    <3> QED
      BY <1>2, <1>6, <1>7, <3>1 DEF Wounded
  <2>2. UNCHANGED <<busy, fallen>>
    BY <1>7 DEF Wounded
  <2>3. \A k : Pending(k)' = Pending(k)
    BY <2>2 DEF Pending
  <2>4. \A s : Falling(s)' <=> Falling(s)
    BY <2>2 DEF Falling
  <2> QED
    BY <1>3, <1>4, <2>1, <2>2, <2>3, <2>4 DEF Follows
<1>8. CASE Killed(e, v, g)
  <2>1. /\ busy'[e] = [killed |-> {v}, id |-> g] /\ busy'[e] # Idle
        /\ \A u \in Players \ {e} : busy'[u] = Idle
    BY <1>3, <1>6, <1>8 DEF Killed, Idle
  <2>2. \A k : Pending(k)' = IF k = Team(g) THEN 1 ELSE 0
    BY <2>1 DEF Pending
  <2>3. \A s : Falling(s)' <=> s = v
    BY <2>1 DEF Falling, Idle
  <2>4. \A k \in {"A", "B"} : fallen'[k] = IF k = Team(g) THEN fallen[k] + 1 ELSE fallen[k]
    BY <1>6, <1>8 DEF Killed
  <2>5. \A s \in Players : hp'[s] = IF s = v THEN 0 ELSE hp[s]
    BY <1>6, <1>8 DEF Killed
  <2>6. ASSUME NEW k \in {"A", "B"}
        PROVE  score[c][k] + DeathCount(s2c[c], k) + Pending(k)' = fallen'[k]
    <3>1. score[c][k] \in Nat /\ DeathCount(s2c[c], k) \in Nat /\ fallen[k] \in Nat
      BY <1>6
    <3>2. score[c][k] + DeathCount(s2c[c], k) + 0 = fallen[k]
      BY <1>4, <1>5
    <3> HIDE DEF Pending
    <3> QED
      BY <2>2, <2>4, <3>1, <3>2
  <2>7. ASSUME NEW s \in Players
        PROVE  hp'[s] = 0 <=> TellsDead(s2c[c], Seat(s), Seat(s) \in dead[c]) \/ Falling(s)'
    BY <1>4, <1>5, <2>3, <2>5
  <2> QED
    BY <1>3, <2>6, <2>7 DEF Follows
<1> QED
  BY <1>1, <1>7, <1>8 DEF Hit

\* A kill is told: what the client will show catches up with it.
LEMMA FollowsJudge ==
    ASSUME TypeOK, HitsMeanPlayers, OneBusy, members = Players,
           NEW c \in Players, Follows(c), NEW e \in Players, Judge(e)
    PROVE  Follows(c)'
<1> SUFFICES ASSUME scene[c] = "GAME" PROVE Follows(c)'
  BY DEF Judge, Follows, clientVars
<1>1. busy[e] \in RealKill /\ busy[e] # Idle
  BY DEF Judge, HitsMeanPlayers
<1>2. PICK v \in Players : busy[e].killed = {v} /\ busy[e].id = Seat(v)
  BY <1>1 DEF RealKill
<1> DEFINE g == busy[e].id
           ps == Announcement(e)
<1>3. /\ ps \in Seq(ToClient) /\ ps # <<>> /\ ps[1] = [t |-> "DIE", id |-> g]
      /\ \A i \in 2 .. Len(ps) : ps[i].t \notin {"DIE", "RESPAWN"}
  BY <1>1, AnnouncementIs
<1>4. /\ UNCHANGED <<scene, score, dead, hp, fallen>>
      /\ s2c'[c] = s2c[c] \o ps
      /\ \A u \in Players : busy[u] # Idle => u = e
      /\ \A u \in Players : busy'[u] = Idle
  BY <1>1 DEF Judge, Broadcast, clientVars, OneBusy, TypeOK, RoomTypeOK
<1>5. /\ s2c[c] \in Seq(ToClient)
      /\ score[c] \in [{"A", "B"} -> Nat]
      /\ \A k : DeathCount(s2c[c], k) \in Nat
  BY DeathCountType DEF TypeOK, NetworkTypeOK, ClientTypeOK
<1>6. /\ \A k \in {"A", "B"} : score[c][k] + DeathCount(s2c[c], k) + Pending(k) = fallen[k]
      /\ \A s \in Players : hp[s] = 0 <=> TellsDead(s2c[c], Seat(s), Seat(s) \in dead[c])
                                          \/ Falling(s)
  BY DEF Follows
<1>7. (\A k : Pending(k) = IF k = Team(g) THEN 1 ELSE 0) /\ (\A s : Falling(s) <=> s = v)
  <2>1. \A u \in Players : busy[u] # Idle <=> u = e
    BY <1>1, <1>4
  <2>2. \A u \in Players : u # e => busy[u].killed = {}
    BY <2>1 DEF Idle
  <2> QED
    BY <1>2, <2>1, <2>2 DEF Pending, Falling
<1>8. (\A k : Pending(k)' = 0) /\ (\A s : ~Falling(s)')
  BY <1>4 DEF Pending, Falling, Idle
<1> HIDE DEF ps, g
<1>9. /\ \A k : DeathCount(s2c'[c], k) = IF ps[1].t = "DIE" /\ Team(ps[1].id) = k
                                         THEN DeathCount(s2c[c], k) + 1
                                         ELSE DeathCount(s2c[c], k)
      /\ \A h, held : TellsDead(s2c'[c], h, held) <=>
                         \/ Says(ps[1], "DIE", h)
                         \/ TellsDead(s2c[c], h, held) /\ ~Says(ps[1], "RESPAWN", h)
  <2>1. \A i \in 2 .. Len(ps) : ps[i].t \notin {"DIE", "RESPAWN"}
    BY <1>3
  <2>2. ps \in Seq(ToClient) /\ ps # <<>> /\ s2c'[c] = s2c[c] \o ps
    BY <1>3, <1>4
  <2>3. s2c[c] \in Seq(ToClient)
    BY <1>5
  <2> QED
    BY <2>1, <2>2, <2>3, QueueGrows
<1>10. ps[1].t = "DIE" /\ ps[1].id = g
  BY <1>3
<1>11. ASSUME NEW k \in {"A", "B"}
       PROVE  score[c][k] + DeathCount(s2c'[c], k) + Pending(k)' = fallen[k]
  <2>1. score[c][k] \in Nat /\ DeathCount(s2c[c], k) \in Nat
    BY <1>5
  <2>2. DeathCount(s2c'[c], k) = IF Team(g) = k THEN DeathCount(s2c[c], k) + 1
                                                ELSE DeathCount(s2c[c], k)
    BY <1>9, <1>10
  <2>3. score[c][k] + DeathCount(s2c[c], k) + Pending(k) = fallen[k]
    BY <1>6
  <2>4. Pending(k) = (IF k = Team(g) THEN 1 ELSE 0) /\ Pending(k)' = 0
    BY <1>7, <1>8
  <2> HIDE DEF Pending
  <2> QED
    BY <2>1, <2>2, <2>3, <2>4
<1>12. ASSUME NEW s \in Players
       PROVE  hp[s] = 0 <=> TellsDead(s2c'[c], Seat(s), Seat(s) \in dead[c]) \/ Falling(s)'
  <2>1. Says(ps[1], "DIE", Seat(s)) <=> s = v
    BY <1>2, <1>10, SaysOfPlayer DEF g
  <2>2. ~Says(ps[1], "RESPAWN", Seat(s))
    BY <1>10 DEF Says
  <2> QED
    BY <1>6, <1>7, <1>8, <1>9, <2>1, <2>2
<1> QED
  BY <1>4, <1>11, <1>12 DEF Follows

\* A respawn is told as it happens.
LEMMA FollowsRespawn ==
    ASSUME Handlers = 1, TypeOK, HitsMeanPlayers, SlotsKept, members = Players,
           NEW c \in Players, Follows(c), Respawn
    PROVE  Follows(c)'
<1> SUFFICES ASSUME scene[c] = "GAME" PROVE Follows(c)'
  BY DEF Respawn, Follows, clientVars
<1> DEFINE v == Head(timers).s
           m == [t |-> "RESPAWN", id |-> gameID[v]]
<1>1. timers # <<>> /\ timers \in Seq(RealTimer)
  BY DEF Respawn, HitsMeanPlayers
<1>2. v \in Players
  BY <1>1, HeadTyped DEF RealTimer
<1>3. roomNumber[v] = Room /\ gameID[v] = Seat(v)
  <2>1. 1 \in DOMAIN timers /\ Head(timers) = timers[1]
    BY <1>1
  <2> QED
    BY <1>2, <2>1 DEF SlotsKept
<1>4. /\ UNCHANGED <<scene, score, dead, fallen, busy>>
      /\ s2c'[c] = s2c[c] \o <<m>>
      /\ hp' = [hp EXCEPT ![v] = MaxHp]
      /\ \A u \in Players : busy[u] = Idle
  BY <1>3, FreeMeansIdle DEF Respawn, Broadcast, clientVars
<1>5. /\ s2c[c] \in Seq(ToClient) /\ m \in ToClient /\ MaxHp # 0
      /\ hp \in [Users -> 0 .. MaxHp] /\ Players \subseteq Users
  <2>1. gameID[v] \in Ids
    BY <1>2, Constants DEF TypeOK, HeroTypeOK
  <2> QED
    BY <2>1, Constants DEF ToClient, TypeOK, NetworkTypeOK, HeroTypeOK
<1>6. /\ \A k \in {"A", "B"} : score[c][k] + DeathCount(s2c[c], k) + Pending(k) = fallen[k]
      /\ \A s \in Players : hp[s] = 0 <=> TellsDead(s2c[c], Seat(s), Seat(s) \in dead[c])
                                          \/ Falling(s)
  BY DEF Follows
<1>7. (\A k : Pending(k)' = Pending(k)) /\ (\A s : ~Falling(s) /\ ~Falling(s)')
  BY <1>4 DEF Pending, Falling, Idle
<1>8. m.t = "RESPAWN" /\ m.id = Seat(v)
  BY <1>3
<1> HIDE DEF m, v
<1>9. /\ \A k : DeathCount(s2c'[c], k) = DeathCount(s2c[c], k)
      /\ \A h, held : TellsDead(s2c'[c], h, held) <=>
                         TellsDead(s2c[c], h, held) /\ ~Says(m, "RESPAWN", h)
  <2> DEFINE ps == <<m>>
  <2>1. ps \in Seq(ToClient) /\ ps # <<>> /\ ps[1] = m /\ Len(ps) = 1
    BY <1>5
  <2>2. \A h : ~Says(m, "DIE", h)
    BY <1>8 DEF Says
  <2>3. s2c'[c] = s2c[c] \o ps
    BY <1>4
  <2> HIDE DEF ps
  <2> QED
    BY <1>5, <1>8, <2>1, <2>2, <2>3, QueueGrows
<1>10. ASSUME NEW s \in Players
       PROVE  hp'[s] = 0 <=> TellsDead(s2c'[c], Seat(s), Seat(s) \in dead[c]) \/ Falling(s)'
  <2>1. Says(m, "RESPAWN", Seat(s)) <=> s = v
    BY <1>2, <1>8, SaysOfPlayer
  <2>2. hp'[s] = IF s = v THEN MaxHp ELSE hp[s]
    BY <1>2, <1>4, <1>5
  <2> QED
    BY <1>5, <1>6, <1>7, <1>9, <2>1, <2>2
<1> QED
  BY <1>4, <1>6, <1>7, <1>9, <1>10 DEF Follows

\* A client reads a packet: what it shows takes over from what was on its way.
LEMMA FollowsReceive ==
    ASSUME TypeOK, NEW c \in Players, Follows(c), NEW e \in Players, Receive(e)
    PROVE  Follows(c)'
<1> SUFFICES ASSUME scene[c] = "GAME" PROVE Follows(c)'
  BY DEF Receive, GotDie, GotRespawn, GotSkillDone, GotResult, GotRow, Receives, Follows
<1>1. /\ UNCHANGED <<scene, hp, fallen, busy>>
      /\ s2c[e] # <<>> /\ s2c' = [s2c EXCEPT ![e] = Tail(@)]
      /\ Head(s2c[e]).t \in {"DIE", "RESPAWN"} \/ UNCHANGED <<dead, score>>
  BY DEF Receive, GotDie, GotRespawn, GotSkillDone, GotResult, GotRow, Receives, serverVars
<1>2. /\ s2c \in [Players -> Seq(ToClient)]
      /\ dead \in [Players -> SUBSET Ids] /\ score \in [Players -> [{"A", "B"} -> Nat]]
  BY DEF TypeOK, NetworkTypeOK, ClientTypeOK
<1>3. /\ \A k \in {"A", "B"} : score[c][k] + DeathCount(s2c[c], k) + Pending(k) = fallen[k]
      /\ \A s \in Players : hp[s] = 0 <=> TellsDead(s2c[c], Seat(s), Seat(s) \in dead[c])
                                          \/ Falling(s)
  BY DEF Follows
<1>4. (\A k : Pending(k)' = Pending(k)) /\ (\A s : Falling(s)' <=> Falling(s))
  BY <1>1 DEF Pending, Falling
<1>5. CASE e # c
  <2>1. s2c'[c] = s2c[c]
    BY <1>1, <1>2, <1>5
  <2>2. dead'[c] = dead[c] /\ score'[c] = score[c]
    BY <1>1, <1>2, <1>5
       DEF Receive, GotDie, GotRespawn, GotSkillDone, GotResult, GotRow, Receives
  <2> QED
    BY <1>1, <1>3, <1>4, <2>1, <2>2 DEF Follows
<1>6. CASE e = c
  <2> DEFINE q == s2c[c]
             m == Head(q)
  <2>1. s2c'[c] = Tail(q) /\ q # <<>> /\ q \in Seq(ToClient)
    BY <1>1, <1>2, <1>6
  <2>2. /\ \A h, held : TellsDead(q, h, held) <=>
                           TellsDead(Tail(q), h, \/ Says(m, "DIE", h)
                                                 \/ held /\ ~Says(m, "RESPAWN", h))
        /\ \A k : DeathCount(q, k) =
                     IF m.t = "DIE" /\ Team(m.id) = k
                     THEN DeathCount(Tail(q), k) + 1 ELSE DeathCount(Tail(q), k)
    BY <2>1, QueueShrinks
  <2>3. \A h : h \in dead'[c] <=> Says(m, "DIE", h) \/ (h \in dead[c] /\ ~Says(m, "RESPAWN", h))
    <3>1. CASE GotDie(c)
      BY <1>2, <3>1 DEF GotDie, Receives, Says
    <3>2. CASE GotRespawn(c)
      BY <1>2, <3>2 DEF GotRespawn, Receives, Says, StillDead
    <3>3. CASE GotSkillDone(c) \/ GotResult(c) \/ GotRow(c)
      BY <3>3 DEF GotSkillDone, GotResult, GotRow, Receives, Says
    <3> QED
      BY <1>6, <3>1, <3>2, <3>3 DEF Receive
  <2>4. \A k \in {"A", "B"} : score'[c][k] = IF m.t = "DIE" /\ Team(m.id) = k
                                             THEN score[c][k] + 1 ELSE score[c][k]
    <3>1. CASE GotDie(c)
      BY <1>2, <3>1 DEF GotDie, Receives
    <3>2. CASE GotRespawn(c) \/ GotSkillDone(c) \/ GotResult(c) \/ GotRow(c)
      BY <3>2 DEF GotRespawn, GotSkillDone, GotResult, GotRow, Receives
    <3> QED
      BY <1>6, <3>1, <3>2 DEF Receive
  <2>5. Tail(q) \in Seq(ToClient)
    BY <2>1, HeadTyped
  <2> HIDE DEF q, m
  <2>6. q = s2c[c]
    BY DEF q
  <2>7. ASSUME NEW k \in {"A", "B"}
        PROVE  score'[c][k] + DeathCount(Tail(q), k) + Pending(k) = fallen[k]
    <3>1. score[c][k] \in Nat /\ DeathCount(Tail(q), k) \in Nat /\ Pending(k) \in Nat
      BY <1>2, <2>5, DeathCountType DEF Pending
    <3>2. score[c][k] + DeathCount(q, k) + Pending(k) = fallen[k]
      BY <1>3, <2>6
    <3> QED
      BY <2>2, <2>4, <3>1, <3>2
  <2>8. ASSUME NEW s \in Players
        PROVE  TellsDead(q, Seat(s), Seat(s) \in dead[c])
               <=> TellsDead(Tail(q), Seat(s), Seat(s) \in dead'[c])
    <3>1. TellsDead(q, Seat(s), Seat(s) \in dead[c]) <=>
             TellsDead(Tail(q), Seat(s), \/ Says(m, "DIE", Seat(s))
                                         \/ Seat(s) \in dead[c] /\ ~Says(m, "RESPAWN", Seat(s)))
      BY <2>2
    <3> QED
      BY <2>3, <3>1 DEF TellsDead
  <2> QED
    BY <1>1, <1>3, <1>4, <2>1, <2>6, <2>7, <2>8 DEF Follows
<1> QED
  BY <1>5, <1>6

\* The other steps tell nobody of a hero.
LEMMA FollowsOther ==
    ASSUME TypeOK, members = Players, NEW c \in Players, Follows(c),
           \/ \E e \in Players : SkillDone(e) \/ Swing(e) \/ ShowEnding(e) \/ Confirm(e)
           \/ UNCHANGED vars
    PROVE  Follows(c)'
<1>1. UNCHANGED <<hp, fallen, busy>>
  BY DEF SkillDone, Swing, ShowEnding, Confirm, vars, serverVars
<1>2. (\A k : Pending(k)' = Pending(k)) /\ (\A s : Falling(s)' <=> Falling(s))
  BY <1>1 DEF Pending, Falling
<1>3. /\ s2c \in [Players -> Seq(ToClient)] /\ scene \in [Players -> {"GAME", "ENDING", "LOBBY"}]
      /\ dead \in [Players -> SUBSET Ids] /\ score \in [Players -> [{"A", "B"} -> Nat]]
  BY DEF TypeOK, NetworkTypeOK, ClientTypeOK
<1>4. CASE UNCHANGED <<s2c, scene, dead, score>>
  BY <1>1, <1>2, <1>4 DEF Follows
<1>5. ASSUME NEW e \in Players, SkillDone(e) PROVE Follows(c)'
  <2>1. UNCHANGED <<scene, dead, score>>
    BY <1>5 DEF SkillDone, clientVars
  <2>2. CASE e # c
    <3>1. s2c'[c] = s2c[c]
      BY <1>3, <1>5, <2>2 DEF SkillDone
    <3> QED
      BY <1>1, <1>2, <2>1, <3>1 DEF Follows
  <2>3. CASE e = c
    <3> DEFINE m == [t |-> "DONE"]
               ps == <<m>>
    <3>1. s2c'[c] = s2c[c] \o ps
      BY <1>3, <1>5, <2>3 DEF SkillDone
    <3>2. ps \in Seq(ToClient) /\ ps # <<>> /\ Len(ps) = 1 /\ ps[1].t = "DONE"
      <4>1. m \in ToClient
        BY DEF ToClient
      <4> QED
        BY <4>1
    <3> HIDE DEF ps
    <3>3. /\ \A k : DeathCount(s2c'[c], k) = DeathCount(s2c[c], k)
          /\ \A h, held : TellsDead(s2c'[c], h, held) <=> TellsDead(s2c[c], h, held)
      <4>1. s2c[c] \in Seq(ToClient)
        BY <1>3
      <4>2. \A h : ~Says(ps[1], "DIE", h) /\ ~Says(ps[1], "RESPAWN", h)
        BY <3>2 DEF Says
      <4>3. \A i \in 2 .. Len(ps) : ps[i].t \notin {"DIE", "RESPAWN"}
        BY <3>2
      <4>4. /\ \A h, held : TellsDead(s2c[c] \o ps, h, held) <=>
                   \/ Says(ps[1], "DIE", h)
                   \/ TellsDead(s2c[c], h, held) /\ ~Says(ps[1], "RESPAWN", h)
            /\ \A k : DeathCount(s2c[c] \o ps, k) =
                         IF ps[1].t = "DIE" /\ Team(ps[1].id) = k
                         THEN DeathCount(s2c[c], k) + 1 ELSE DeathCount(s2c[c], k)
        BY <3>2, <4>1, <4>3, QueueGrows
      <4> QED
        BY <3>1, <3>2, <4>2, <4>4
    <3> QED
      BY <1>1, <1>2, <2>1, <3>3 DEF Follows
  <2> QED
    BY <2>2, <2>3
<1>6. ASSUME NEW e \in Players, ShowEnding(e) PROVE Follows(c)'
  <2>1. scene'[c] = "GAME" => scene[c] = "GAME"
    BY <1>3, <1>6 DEF ShowEnding
  <2>2. UNCHANGED <<s2c, dead, score>>
    BY <1>6 DEF ShowEnding
  <2> QED
    BY <1>1, <1>2, <2>1, <2>2 DEF Follows
<1>7. ASSUME NEW e \in Players, Confirm(e) PROVE Follows(c)'
  <2>1. e = c => scene'[c] = "LOBBY"
    BY <1>3, <1>7 DEF Confirm
  <2>2. e # c => scene'[c] = scene[c] /\ dead'[c] = dead[c] /\ score'[c] = score[c]
    BY <1>3, <1>7 DEF Confirm
  <2>3. UNCHANGED s2c
    BY <1>7 DEF Confirm
  <2> QED
    BY <1>1, <1>2, <2>1, <2>2, <2>3 DEF Follows
<1>8. ASSUME NEW e \in Players, Swing(e) PROVE UNCHANGED <<s2c, scene, dead, score>>
  BY <1>8 DEF Swing
<1>9. CASE UNCHANGED vars
  BY <1>4, <1>9 DEF vars, clientVars
<1> QED
  BY <1>4, <1>5, <1>6, <1>7, <1>8, <1>9

LEMMA FollowsStep ==
    ASSUME Handlers = 1, TypeOK, HitsMeanPlayers, SlotsKept, OneBusy, ClientsFollow,
           [Next]_vars
    PROVE  ClientsFollow'
<1> SUFFICES ASSUME members' = Players, NEW c \in Players PROVE Follows(c)'
  BY DEF ClientsFollow
<1>1. members = Players /\ \A e \in Players : ~LobbyReset(e)
  BY NobodyLeft
<1>2. Follows(c)
  BY <1>1 DEF ClientsFollow
<1>3. ASSUME NEW e \in Players, Strike(e) PROVE Follows(c)'
  BY <1>1, <1>2, <1>3, FollowsStrike
<1>4. ASSUME NEW e \in Players, Judge(e) PROVE Follows(c)'
  BY <1>1, <1>2, <1>4, FollowsJudge
<1>5. CASE Respawn
  BY <1>1, <1>2, <1>5, FollowsRespawn
<1>6. ASSUME NEW e \in Players, Receive(e) PROVE Follows(c)'
  BY <1>2, <1>6, FollowsReceive
<1>7. CASE \/ \E e \in Players : SkillDone(e) \/ Swing(e) \/ ShowEnding(e) \/ Confirm(e)
           \/ UNCHANGED vars
  BY <1>1, <1>2, <1>7, FollowsOther
<1> QED
  BY <1>1, <1>3, <1>4, <1>5, <1>6, <1>7 DEF Next, Handle

LEMMA FollowsInit == Init => OneBusy /\ ClientsFollow
<1> SUFFICES ASSUME Init PROVE OneBusy /\ ClientsFollow
  OBVIOUS
<1>1. OneBusy
  BY DEF Init, OneBusy
<1>2. ASSUME NEW c \in Players PROVE Follows(c)
  <2>1. /\ s2c[c] = <<>> /\ dead[c] = {} /\ (\A k \in {"A", "B"} : score[c][k] = 0)
        /\ (\A k \in {"A", "B"} : fallen[k] = 0)
    BY DEF Init
  <2>2. (\A k : Pending(k) = 0) /\ (\A s : ~Falling(s))
    BY DEF Init, Pending, Falling, Idle
  <2>3. \A k : DeathCount(s2c[c], k) = 0
    <3>1. \A k : Deaths(s2c[c], k) = {}
      BY <2>1 DEF Deaths
    <3> QED
      BY <3>1, FS_EmptySet DEF DeathCount
  <2>4. \A s \in Players : ~TellsDead(s2c[c], Seat(s), Seat(s) \in dead[c])
    BY <2>1 DEF TellsDead
  <2>5. \A s \in Players : hp[s] # 0
    BY Constants DEF Init
  <2>6. \A k \in {"A", "B"} : score[c][k] + DeathCount(s2c[c], k) + Pending(k) = fallen[k]
    BY <2>1, <2>2, <2>3
  <2> QED
    BY <2>2, <2>4, <2>5, <2>6 DEF Follows
<1> QED
  BY <1>1, <1>2 DEF ClientsFollow

LEMMA FollowsMeansAgree == TypeOK /\ ClientsFollow => ViewsAgree
<1> SUFFICES ASSUME TypeOK, ClientsFollow, NEW c \in Players,
                    scene[c] = "GAME", s2c[c] = <<>>, members = Players,
                    \A d \in Players : busy[d] = Idle
             PROVE  /\ score[c] = fallen
                    /\ \A g \in Ids : Taken(g) => (g \in dead[c] <=> hp[ServerID(g)] = 0)
  BY DEF ViewsAgree
<1>1. /\ \A k \in {"A", "B"} : score[c][k] + DeathCount(s2c[c], k) + Pending(k) = fallen[k]
      /\ \A s \in Players : hp[s] = 0 <=> TellsDead(s2c[c], Seat(s), Seat(s) \in dead[c])
                                          \/ Falling(s)
  BY DEF ClientsFollow, Follows
<1>2. (\A k : Pending(k) = 0) /\ (\A s : ~Falling(s))
  BY DEF Pending, Falling, Idle
<1>3. \A k : DeathCount(s2c[c], k) = 0
  <2>1. \A k : Deaths(s2c[c], k) = {}
    BY DEF Deaths
  <2> QED
    BY <2>1, FS_EmptySet DEF DeathCount
<1>4. score[c] \in [{"A", "B"} -> Nat] /\ fallen \in [{"A", "B"} -> Nat]
  BY DEF TypeOK, RoomTypeOK, ClientTypeOK
<1>5. score[c] = fallen
  <2>1. ASSUME NEW k \in {"A", "B"} PROVE score[c][k] = fallen[k]
    <3>1. score[c][k] + 0 + 0 = fallen[k] /\ score[c][k] \in Nat
      BY <1>1, <1>2, <1>3, <1>4
    <3> QED
      BY <3>1
  <2> QED
    BY <1>4, <2>1
<1>6. \A s \in Players : hp[s] = 0 <=> Seat(s) \in dead[c]
  BY <1>1, <1>2 DEF TellsDead
<1> QED
  BY <1>5, <1>6, EveryIdTaken

\* With one handler at a time, and nobody fighting where the heroes of empty
\* seats stand, a client that has read its queue shows the score of the server
\* and holds for dead exactly the heroes without health.
THEOREM ViewsAlwaysAgree ==
    ASSUME Handlers = 1, ~HitEmptySeats
    PROVE  Spec => []ViewsAgree
<1> DEFINE Inv == HitsMeanPlayers /\ SlotsKept /\ OneBusy /\ ClientsFollow
<1>1. Init => Inv
  BY RealInit, FollowsInit
<1>2. TypeOK /\ Inv /\ [Next]_vars => Inv'
  BY RealStep, SlotsStep, OneBusyStep, FollowsStep
<1>3. TypeOK /\ Inv => ViewsAgree
  BY FollowsMeansAgree
<1> HIDE DEF Inv
<1> QED
  BY <1>1, <1>2, <1>3, TypeCorrect, PTL DEF Spec


-----------------------------------------------------------------------------
(* The table adds up.                                                      *)

\* Any member of the set may be counted apart.
LEMMA TotalOut ==
    ASSUME NEW S, IsFiniteSet(S), NEW f, \A s \in S : f[s] \in Nat
    PROVE  \A x \in S : Total(f, S) = f[x] + Total(f, S \ {x})
<1> DEFINE Bad == {u \in SUBSET S : \E x \in u : Total(f, u) # f[x] + Total(f, u \ {x})}
<1>1. Bad = {}
  <2> SUFFICES ASSUME Bad # {} PROVE FALSE
    OBVIOUS
  <2>1. PICK u \in Bad : \A v \in Bad : v \subseteq u => v = u
    <3>1. Bad \in SUBSET (SUBSET S)
      OBVIOUS
    <3> HIDE DEF Bad
    <3> QED
      BY <3>1, SmallestSubset
  <2>2. PICK x \in u : Total(f, u) # f[x] + Total(f, u \ {x})
    OBVIOUS
  <2>3. u \in SUBSET S /\ IsFiniteSet(u)
    BY FS_Subset
  <2> DEFINE p == First(u)
             v == u \ {p}
             w == u \ {x}
  <2>4. p \in u /\ Total(f, u) = f[p] + Total(f, v)
    BY <2>2, <2>3, TotalFirst DEF First
  <2>5. p # x
    BY <2>2, <2>4
  <2>6. v \notin Bad /\ w \notin Bad /\ v \in SUBSET S /\ w \in SUBSET S
    BY <2>1, <2>2, <2>3, <2>4
  <2>7. Total(f, v) = f[x] + Total(f, v \ {x}) /\ Total(f, w) = f[p] + Total(f, w \ {p})
    BY <2>2, <2>4, <2>5, <2>6
  <2>8. v \ {x} = w \ {p}
    OBVIOUS
  <2>9. f[p] \in Nat /\ f[x] \in Nat /\ Total(f, v \ {x}) \in Nat
    <3>1. v \ {x} \in SUBSET S /\ IsFiniteSet(v \ {x})
      BY <2>3, FS_Subset
    <3> HIDE DEF v
    <3>2. \A s \in v \ {x} : f[s] \in Nat
      BY <3>1
    <3> QED
      BY <2>2, <2>3, <2>4, <3>1, <3>2, TotalType
  <2> DEFINE z == Total(f, v \ {x})
  <2>10. Total(f, u) = f[p] + (f[x] + z) /\ Total(f, w) = f[p] + z /\ z \in Nat
    BY <2>4, <2>7, <2>8, <2>9
  <2> HIDE DEF p, v, w, z
  <2>11. Total(f, u) = f[x] + Total(f, w)
    BY <2>9, <2>10
  <2> QED
    BY <2>2, <2>11 DEF w
<1> QED
  BY <1>1

\* The sum does not depend on what the members are called.
LEMMA TotalMoved ==
    ASSUME NEW S, IsFiniteSet(S), NEW f, \A s \in S : f[s] \in Nat,
           NEW h, \A s, t \in S : h[s] = h[t] => s = t,
           NEW g, \A s \in S : g[h[s]] = f[s]
    PROVE  Total(g, {h[s] : s \in S}) = Total(f, S)
<1> DEFINE Image(u) == {h[s] : s \in u}
           Bad == {u \in SUBSET S : Total(g, Image(u)) # Total(f, u)}
<1>1. Bad = {}
  <2> SUFFICES ASSUME Bad # {} PROVE FALSE
    OBVIOUS
  <2>1. PICK u \in Bad : \A v \in Bad : v \subseteq u => v = u
    <3>1. Bad \in SUBSET (SUBSET S)
      OBVIOUS
    <3> HIDE DEF Bad
    <3> QED
      BY <3>1, SmallestSubset
  <2>2. u \in SUBSET S /\ IsFiniteSet(u)
    BY FS_Subset
  <2>3. CASE u = {}
    <3>1. Image(u) = {}
      BY <2>3
    <3> HIDE DEF Image
    <3> QED
      BY <2>3, <3>1, TotalEmpty
  <2>4. CASE u # {}
    <3> DEFINE p == First(u)
               v == u \ {p}
    <3>1. p \in u /\ Total(f, u) = f[p] + Total(f, v)
      BY <2>2, <2>4, TotalFirst DEF First
    <3>2. v \notin Bad /\ v \in SUBSET S
      BY <2>1, <2>2, <3>1
    <3>3. Image(v) = Image(u) \ {h[p]} /\ h[p] \in Image(u)
      BY <2>2, <3>1
    <3>4. IsFiniteSet(Image(u)) /\ \A y \in Image(u) : g[y] \in Nat
      <4>1. IsFiniteSet(Image(u))
        <5> DEFINE k == [s \in u |-> h[s]]
        <5>1. k \in Surjection(u, Image(u))
          BY DEF Surjection
        <5> HIDE DEF k, Image
        <5> QED
          BY <2>2, <5>1, FS_Surjection
      <4> QED
        BY <2>2, <4>1
    <3>5. Total(g, Image(u)) = g[h[p]] + Total(g, Image(v))
      <4> DEFINE I == Image(u)
      <4>1. \A x \in I : Total(g, I) = g[x] + Total(g, I \ {x})
        <5> HIDE DEF I
        <5> QED
          BY <3>4, TotalOut DEF I
      <4> HIDE DEF Image, v, p
      <4> QED
        BY <3>3, <4>1 DEF I
    <3>6. g[h[p]] = f[p]
      BY <2>2, <3>1
    <3> QED
      BY <3>1, <3>2, <3>5, <3>6
  <2> QED
    BY <2>3, <2>4
<1> QED
  BY <1>1

\* The sums of two parts make up the sum of the whole.
LEMMA TotalUnion ==
    ASSUME NEW S, IsFiniteSet(S), NEW T, IsFiniteSet(T), S \cap T = {},
           NEW f, \A s \in S \cup T : f[s] \in Nat
    PROVE  Total(f, S \cup T) = Total(f, S) + Total(f, T)
<1> DEFINE Bad == {u \in SUBSET T : Total(f, S \cup u) # Total(f, S) + Total(f, u)}
<1>1. Bad = {}
  <2> SUFFICES ASSUME Bad # {} PROVE FALSE
    OBVIOUS
  <2>1. PICK u \in Bad : \A v \in Bad : v \subseteq u => v = u
    <3>1. Bad \in SUBSET (SUBSET T)
      OBVIOUS
    <3> HIDE DEF Bad
    <3> QED
      BY <3>1, SmallestSubset
  <2>2. u \in SUBSET T /\ IsFiniteSet(u) /\ IsFiniteSet(S \cup u)
    BY FS_Subset, FS_Union
  <2>3. Total(f, S) \in Nat
    BY TotalType
  <2>4. CASE u = {}
    <3>1. S \cup u = S
      BY <2>4
    <3>2. Total(f, u) = 0
      BY <2>4, TotalEmpty
    <3> QED
      BY <2>3, <3>1, <3>2
  <2>5. CASE u # {}
    <3>1. PICK p \in u : TRUE
      BY <2>5
    <3> DEFINE v == u \ {p}
               a == Total(f, v)
    <3>2. v \notin Bad /\ v \in SUBSET T
      BY <2>1, <2>2
    <3>3. Total(f, S \cup v) = Total(f, S) + a
      BY <3>2
    <3>4. Total(f, S \cup u) = f[p] + Total(f, S \cup v)
      <4>1. \A s \in S \cup u : f[s] \in Nat
        BY <2>2
      <4>2. (S \cup u) \ {p} = S \cup v
        BY <2>2
      <4> QED
        BY <2>2, <4>1, <4>2, TotalOut
    <3>5. Total(f, u) = f[p] + a
      <4>1. \A s \in u : f[s] \in Nat
        BY <2>2
      <4> QED
        BY <2>2, <4>1, TotalOut
    <3>6. a \in Nat /\ f[p] \in Nat
      <4>1. IsFiniteSet(v) /\ \A s \in v : f[s] \in Nat
        BY <2>2, FS_Subset
      <4> HIDE DEF v
      <4> QED
        BY <2>2, <4>1, TotalType
    <3> HIDE DEF v, a
    <3>7. Total(f, S \cup u) = Total(f, S) + Total(f, u)
      BY <2>3, <3>3, <3>4, <3>5, <3>6
    <3> QED
      BY <3>7
  <2> QED
    BY <2>4, <2>5
<1> QED
  BY <1>1

\* Members that count for nothing may be left out.
LEMMA TotalWithZeros ==
    ASSUME NEW T, IsFiniteSet(T), NEW S \in SUBSET T,
           NEW f, \A s \in T : f[s] \in Nat, \A s \in T \ S : f[s] = 0
    PROVE  Total(f, T) = Total(f, S)
<1> DEFINE Z == T \ S
<1>1. /\ IsFiniteSet(S) /\ IsFiniteSet(Z) /\ S \cap Z = {} /\ S \cup Z = T
      /\ \A s \in Z : f[s] = 0
  BY FS_Subset
<1> HIDE DEF Z
<1>2. Total(f, Z) = 0 /\ Total(f, S) \in Nat
  BY <1>1, TotalZero, TotalType
<1>3. Total(f, T) = Total(f, S) + Total(f, Z)
  BY <1>1, TotalUnion
<1> QED
  BY <1>2, <1>3

\* No client is on its way to the table before a verdict.
NoResult == {m \in ToClient : m.t # "RESULT"}
NoTableYet ==
    verdicts = <<>> =>
        \A c \in Players : /\ scene[c] # "ENDING" /\ ~win[c] /\ ~lose[c]
                           /\ s2c[c] \in Seq(NoResult)

\* A table that tells one story and names a loser.
FairTable(T) ==
    LET kills == [g \in Ids |-> T[g].kills]
        deaths == [g \in Ids |-> T[g].deaths]
    IN /\ Total(kills, Ids) = Total(deaths, Ids)
       /\ \E k \in {"A", "B"} :
             Total(deaths, {g \in Ids : Team(g) = k}) >= ResultDeath

\* T is the table a client with the rows r shows once it has read the queue q.
IsRow(m, g) == m.t = "ROW" /\ m.id = g
Becomes(q, r, T) ==
    \A g \in Ids :
        /\ \A i \in DOMAIN q :
              IsRow(q[i], g) /\ (\A j \in DOMAIN q : j > i => ~IsRow(q[j], g))
              => q[i].row = T[g]
        /\ (\A j \in DOMAIN q : ~IsRow(q[j], g)) => r[g] = T[g]

\* Empty seats have no numbers.
NoRow == [kills |-> 0, deaths |-> 0]
OfPlayers == {m \in ToClient : m.t = "ROW" => Taken(m.id)}
EmptySeatsBlank(c) ==
    /\ \A g \in Ids : ~Taken(g) => rows[c][g] = NoRow
    /\ s2c[c] \in Seq(OfPlayers)

Tables == [Ids -> Row]
TablesFollow ==
    members = Players =>
        \A c \in Players :
            /\ EmptySeatsBlank(c)
            /\ verdicts # <<>> =>
                  \E T \in Tables : FairTable(T) /\ Becomes(s2c[c], rows[c], T)

LEMMA TablesMeanRowsAddUp ==
    ASSUME TypeOK, NoTableYet, TablesFollow
    PROVE  RowsAddUp
<1> SUFFICES ASSUME NEW c \in Players, scene[c] = "ENDING", s2c[c] = <<>>,
                    members = Players
             PROVE  FairTable(rows[c])
  BY DEF RowsAddUp, FairTable
<1>1. verdicts # <<>>
  BY DEF NoTableYet
<1>2. PICK T \in Tables : FairTable(T) /\ Becomes(s2c[c], rows[c], T)
  BY <1>1 DEF TablesFollow
<1>3. \A g \in Ids : rows[c][g] = T[g]
  BY <1>2 DEF Becomes
<1>4. rows[c] \in Tables
  BY DEF TypeOK, ClientTypeOK, Tables
<1>5. rows[c] = T
  BY <1>3, <1>4 DEF Tables
<1> QED
  BY <1>2, <1>5

\* What the slots hold, as a table.
Snapshot ==
    [g \in Ids |-> IF Taken(g) THEN [kills |-> killcount[ServerID(g)],
                                     deaths |-> deathcount[ServerID(g)]]
                   ELSE NoRow]

\* The sums over the ids are those over the players.
LEMMA TotalBySeat ==
    ASSUME NEW f, \A s \in Players : f[s] \in Nat, NEW P \in SUBSET Players,
           NEW G \in SUBSET Ids, \A s \in Players : Seat(s) \in G <=> s \in P,
           NEW g, \A i \in G : g[i] = IF Taken(i) THEN f[ServerID(i)] ELSE 0
    PROVE  Total(g, G) = Total(f, P)
<1> DEFINE h == [s \in P |-> Seat(s)]
           I == {h[s] : s \in P}
<1>1. IsFiniteSet(P) /\ IsFiniteSet(G)
  <2>1. IsFiniteSet(Ids)
    BY Constants, FS_Interval DEF Ids
  <2> QED
    BY <2>1, Constants, FS_Subset
<1>2. \A s \in Players : Taken(Seat(s)) /\ ServerID(Seat(s)) = s
  <2>1. ASSUME NEW s \in Players PROVE Taken(Seat(s)) /\ ServerID(Seat(s)) = s
    <3>1. Taken(Seat(s)) /\ Seat(s) \in Ids
      BY SeatBelowSize, Constants DEF Taken
    <3> QED
      BY <3>1, EveryIdTaken, SeatsDiffer
  <2> QED
    BY <2>1
<1>3. \A s \in P : g[h[s]] = f[s]
  BY <1>2
<1>4. \A s, t \in P : h[s] = h[t] => s = t
  BY SeatsDiffer
<1>5. Total(g, I) = Total(f, P)
  <2> HIDE DEF h
  <2> QED
    BY <1>1, <1>3, <1>4, TotalMoved
<1>6. I \in SUBSET G
  OBVIOUS
<1>7. ASSUME NEW i \in G \ I PROVE g[i] = 0
  <2>1. CASE Taken(i)
    <3>1. ServerID(i) \in Players /\ Seat(ServerID(i)) = i
      BY <2>1, EveryIdTaken
    <3>2. ServerID(i) \in P /\ h[ServerID(i)] = i
      BY <3>1
    <3> QED
      BY <3>2
  <2> QED
    BY <2>1
<1>8. \A i \in G : g[i] \in Nat
  BY EveryIdTaken
<1>9. Total(g, G) = Total(g, I)
  <2> HIDE DEF I
  <2> QED
    BY <1>1, <1>6, <1>7, <1>8, TotalWithZeros
<1> QED
  BY <1>5, <1>9

\* With a verdict, the numbers of the slots make a fair table.
LEMMA SnapshotFair ==
    ASSUME TypeOK, SlotsKept, ScoresAgree, members = Players, Verdict # <<>>
    PROVE  Snapshot \in Tables /\ FairTable(Snapshot)
<1> DEFINE kills == [g \in Ids |-> Snapshot[g].kills]
           deaths == [g \in Ids |-> Snapshot[g].deaths]
<1>1. /\ killcount \in [Users -> Nat] /\ deathcount \in [Users -> Nat]
      /\ fallen \in [{"A", "B"} -> Nat] /\ Players \subseteq Users /\ ResultDeath \in Nat
  BY Constants DEF TypeOK, HeroTypeOK, RoomTypeOK
<1>2. Snapshot \in Tables
  BY <1>1, EveryIdTaken DEF Snapshot, Tables, Row, NoRow
<1>3. /\ \A g \in Ids : kills[g] = IF Taken(g) THEN killcount[ServerID(g)] ELSE 0
      /\ \A g \in Ids : deaths[g] = IF Taken(g) THEN deathcount[ServerID(g)] ELSE 0
  BY DEF Snapshot, NoRow
<1> HIDE DEF kills, deaths
<1>4. \A s \in Players : killcount[s] \in Nat /\ deathcount[s] \in Nat /\ Seat(s) \in Ids
  BY <1>1, SeatBelowSize
<1>5. Total(kills, Ids) = Total(killcount, Players)
      /\ Total(deaths, Ids) = Total(deathcount, Players)
  BY <1>3, <1>4, TotalBySeat
<1>6. ASSUME NEW k \in {"A", "B"}
      PROVE  Total(deaths, {g \in Ids : Team(g) = k}) = fallen[k]
  <2> DEFINE G == {g \in Ids : Team(g) = k}
             P == {s \in Players : Team(gameID[s]) = k}
  <2>1. \A s \in Players : Seat(s) \in G <=> s \in P
    BY <1>4 DEF SlotsKept
  <2>2. Total(deaths, G) = Total(deathcount, P)
    <3>1. G \in SUBSET Ids /\ P \in SUBSET Players
      OBVIOUS
    <3> HIDE DEF G, P
    <3>2. \A i \in G : deaths[i] = IF Taken(i) THEN deathcount[ServerID(i)] ELSE 0
      BY <1>3, <3>1
    <3> QED
      BY <1>4, <2>1, <3>1, <3>2, TotalBySeat
  <2> QED
    BY <2>2 DEF ScoresAgree
<1>7. Total(deaths, Ids) = fallen.A + fallen.B
  <2> DEFINE A == {g \in Ids : Team(g) = "A"}
             B == {g \in Ids : Team(g) = "B"}
  <2>1. IsFiniteSet(Ids) /\ \A g \in Ids : deaths[g] \in Nat
    <3>1. IsFiniteSet(Ids)
      BY Constants, FS_Interval DEF Ids
    <3> QED
      BY <1>1, <1>3, <3>1, EveryIdTaken
  <2>2. /\ Ids = A \cup B /\ A \cap B = {} /\ IsFiniteSet(A) /\ IsFiniteSet(B)
        /\ Total(deaths, A) = fallen.A /\ Total(deaths, B) = fallen.B
    BY <1>6, <2>1, FS_Subset DEF Team
  <2> HIDE DEF A, B
  <2> QED
    BY <2>1, <2>2, TotalUnion
<1>8. \E k \in {"A", "B"} : fallen[k] = ResultDeath
  BY DEF Verdict
<1> QED
  BY <1>1, <1>2, <1>5, <1>6, <1>7, <1>8 DEF FairTable, kills, deaths, ScoresAgree


\* A kill that decides nothing is announced by one packet, one that does with
\* the result and a row of everyone who has loaded the match.
LEMMA AnnouncementRows ==
    ASSUME TypeOK, NEW c \in Players, busy[c] # Idle
    PROVE  LET ps == Announcement(c)
               n == Cardinality(Players)
               die == [t |-> "DIE", id |-> busy[c].id]
           IN /\ Verdict = <<>> => ps = <<die>>
              /\ Verdict # <<>> =>
                    /\ Len(ps) = n + 2 /\ ps[1] = die /\ ps[2].t = "RESULT"
                    /\ \A i \in 1 .. n : ps[i + 2] = RowPacket(ServerID(i - 1))
<1> DEFINE n == Cardinality(Players)
           die == [t |-> "DIE", id |-> busy[c].id]
           results == [i \in DOMAIN Verdict |-> [t |-> "RESULT", aWon |-> Verdict[i]]]
<1>1. ASSUME Verdict = <<>> PROVE Announcement(c) = <<die>>
  <2>1. results = <<>>
    BY <1>1
  <2> QED
    BY <1>1, <2>1 DEF Announcement
<1>2. ASSUME NEW b \in BOOLEAN, Verdict = <<b>>
      PROVE  LET ps == Announcement(c)
             IN /\ Len(ps) = n + 2 /\ ps[1] = die /\ ps[2].t = "RESULT"
                /\ \A i \in 1 .. n : ps[i + 2] = RowPacket(ServerID(i - 1))
  <2> DEFINE res == [t |-> "RESULT", aWon |-> b]
             start == <<die>> \o results
             table == EndingRows(c)
  <2>1. results = <<res>>
    BY <1>2
  <2>2. /\ start \in Seq(ToClient) /\ Len(start) = 2
        /\ start[1] = die /\ start[2] = res
    <3>1. die \in ToClient /\ res \in ToClient
      BY DEF TypeOK, RoomTypeOK, Kill, ToClient
    <3> HIDE DEF results, die, res
    <3> QED
      BY <2>1, <3>1
  <2>3. Announcement(c) = start \o table
    BY <1>2 DEF Announcement
  <2>4. /\ n \in Nat /\ Len(table) = n /\ table \in Seq(ToClient)
        /\ \A i \in 1 .. n : table[i] = RowPacket(ServerID(i - 1))
    <3>1. n \in Nat
      BY Constants
    <3>2. \A i \in 1 .. n : RowPacket(ServerID(i - 1)) \in ToClient
      <4>1. \A i \in 1 .. n : ServerID(i - 1) \in Users
        BY Constants DEF ServerID
      <4> QED
        BY <4>1 DEF RowPacket, TypeOK, HeroTypeOK, ToClient, Row
    <3> HIDE DEF n
    <3>3. table = [i \in 1 .. n |-> RowPacket(ServerID(i - 1))]
      BY DEF EndingRows, n
    <3> QED
      BY <3>1, <3>2, <3>3
  <2> HIDE DEF start, table, n
  <2>5. /\ Len(start \o table) = n + 2
        /\ (start \o table)[1] = die /\ (start \o table)[2] = res
        /\ \A i \in 1 .. n : (start \o table)[i + 2] = table[i]
    <3> DEFINE a == start \o table
    <3>1. /\ Len(a) = n + 2
          /\ \A i \in 1 .. n + 2 : a[i] = IF i <= 2 THEN start[i] ELSE table[i - 2]
      <4>1. start \in Seq(ToClient) /\ table \in Seq(ToClient)
        BY <2>2, <2>4
      <4>2. Len(start) = 2 /\ Len(table) = n /\ n \in Nat
        BY <2>2, <2>4
      <4>3. /\ Len(a) = Len(start) + Len(table)
            /\ \A i \in 1 .. Len(start) + Len(table) :
                  a[i] = IF i <= Len(start) THEN start[i] ELSE table[i - Len(start)]
        BY <4>1, ConcatProperties
      <4> HIDE DEF a
      <4> QED
        BY <4>2, <4>3
    <3>2. 1 \in 1 .. n + 2 /\ 2 \in 1 .. n + 2
          /\ \A i \in 1 .. n : i + 2 \in 1 .. n + 2 /\ ~(i + 2 <= 2) /\ i + 2 - 2 = i
      BY <2>4
    <3> HIDE DEF a
    <3> QED
      BY <2>2, <3>1, <3>2 DEF a
  <2> QED
    BY <2>3, <2>4, <2>5
<1> QED
  BY <1>1, <1>2, OneWinner

LEMMA NoTableStep == TypeOK /\ NoTableYet /\ [Next]_vars => NoTableYet'
<1> SUFFICES ASSUME TypeOK, NoTableYet, [Next]_vars, verdicts' = <<>>, NEW c \in Players
             PROVE  /\ scene'[c] # "ENDING" /\ ~win'[c] /\ ~lose'[c]
                    /\ s2c'[c] \in Seq(NoResult)
  BY DEF NoTableYet
<1>1. /\ s2c \in [Players -> Seq(ToClient)]
      /\ scene \in [Players -> {"GAME", "ENDING", "LOBBY"}]
      /\ win \in [Players -> BOOLEAN] /\ lose \in [Players -> BOOLEAN]
      /\ verdicts \in Seq(BOOLEAN)
  BY DEF TypeOK, RoomTypeOK, NetworkTypeOK, ClientTypeOK
<1> DEFINE Quiet(e) == scene[e] # "ENDING" /\ ~win[e] /\ ~lose[e] /\ s2c[e] \in Seq(NoResult)
<1>2. verdicts = <<>> => \A e \in Players : Quiet(e)
  BY DEF NoTableYet
<1>3. ASSUME NEW e \in Players, Judge(e) PROVE Quiet(c)'
  <2>1. verdicts = <<>> /\ Verdict = <<>>
    <3>1. verdicts \o Verdict = <<>>
      BY <1>3 DEF Judge
    <3> HIDE DEF NoTableYet
    <3> QED
      BY <1>1, <3>1, OneWinner
  <2>2. Announcement(e) = <<[t |-> "DIE", id |-> busy[e].id]>>
    BY <1>3, <2>1, AnnouncementRows DEF Judge
  <2>3. [t |-> "DIE", id |-> busy[e].id] \in NoResult
    BY <1>3 DEF Judge, TypeOK, RoomTypeOK, Kill, ToClient, NoResult
  <2> QED
    BY <1>2, <1>3, <2>1, <2>2, <2>3 DEF Judge, Broadcast, clientVars
<1>4. CASE Respawn
  <2> DEFINE m == [t |-> "RESPAWN", id |-> gameID[Head(timers).s]]
  <2>1. m \in NoResult
    <3>1. Head(timers).s \in Users
      BY <1>4, NextTimer DEF Respawn
    <3> QED
      BY <3>1 DEF TypeOK, HeroTypeOK, NoResult, ToClient
  <2>2. UNCHANGED <<verdicts, scene, win, lose>>
    BY <1>4 DEF Respawn, clientVars
  <2>3. s2c'[c] = s2c[c] \/ s2c'[c] = s2c[c] \o <<m>>
    BY <1>4 DEF Respawn, Broadcast
  <2>4. s2c[c] \in Seq(NoResult)
    BY <1>2, <2>2
  <2> HIDE DEF m
  <2>5. s2c[c] \o <<m>> \in Seq(NoResult) /\ Append(s2c[c], m) \in Seq(NoResult)
    BY <2>1, <2>4
  <2>6. s2c'[c] \in Seq(NoResult)
    BY <2>3, <2>4, <2>5
  <2> QED
    BY <1>2, <2>2, <2>6
<1>5. ASSUME NEW e \in Players, SkillDone(e) PROVE Quiet(c)'
  <2> DEFINE m == [t |-> "DONE"]
  <2>1. m \in NoResult
    BY DEF NoResult, ToClient
  <2>2. UNCHANGED <<verdicts, scene, win, lose>>
    BY <1>5 DEF SkillDone, clientVars, serverVars
  <2>3. s2c'[c] = s2c[c] \/ s2c'[c] = Append(s2c[c], m)
    BY <1>1, <1>5 DEF SkillDone
  <2>4. s2c[c] \in Seq(NoResult)
    BY <1>2, <2>2
  <2> HIDE DEF m
  <2>5. s2c[c] \o <<m>> \in Seq(NoResult) /\ Append(s2c[c], m) \in Seq(NoResult)
    BY <2>1, <2>4
  <2>6. s2c'[c] \in Seq(NoResult)
    BY <2>3, <2>4, <2>5
  <2> QED
    BY <1>2, <2>2, <2>6
<1>6. ASSUME NEW e \in Players, Receive(e) PROVE Quiet(c)'
  <2>1. /\ UNCHANGED <<verdicts, scene>>
        /\ s2c[e] # <<>> /\ s2c' = [s2c EXCEPT ![e] = Tail(@)]
    BY <1>6 DEF Receive, GotDie, GotRespawn, GotSkillDone, GotResult, GotRow, Receives,
                serverVars
  <2>2. s2c[e] \in Seq(NoResult) /\ Quiet(c)
    BY <1>2, <2>1
  <2>3. Head(s2c[e]).t # "RESULT" /\ Tail(s2c[e]) \in Seq(NoResult)
    <3>1. Head(s2c[e]) \in NoResult /\ Tail(s2c[e]) \in Seq(NoResult)
      BY <2>1, <2>2, HeadTyped
    <3> QED
      BY <3>1 DEF NoResult
  <2>4. UNCHANGED <<win, lose>>
    BY <1>6, <2>3 DEF Receive, GotDie, GotRespawn, GotSkillDone, GotResult, GotRow, Receives
  <2>5. s2c'[c] \in Seq(NoResult)
    BY <1>1, <2>1, <2>2, <2>3
  <2> QED
    BY <2>1, <2>2, <2>4, <2>5
<1>7. ASSUME NEW e \in Players, Strike(e) \/ LobbyReset(e) \/ Swing(e) PROVE Quiet(c)'
  <2>1. UNCHANGED <<verdicts, scene, win, lose, s2c>>
    BY <1>7 DEF Strike, LobbyReset, Swing, clientVars, serverVars
  <2> QED
    BY <1>2, <2>1
<1>8. ASSUME NEW e \in Players, ShowEnding(e) \/ Confirm(e) PROVE FALSE
  <2>1. UNCHANGED verdicts
    BY <1>8 DEF ShowEnding, Confirm, serverVars
  <2>2. scene[e] = "ENDING" \/ win[e] \/ lose[e]
    BY <1>8 DEF ShowEnding, Confirm
  <2> QED
    BY <1>2, <2>1, <2>2
<1>9. CASE UNCHANGED vars
  BY <1>2, <1>9 DEF vars, clientVars, serverVars
<1> QED
  BY <1>3, <1>4, <1>5, <1>6, <1>7, <1>8, <1>9 DEF Next, Handle


\* A sequence is over any set that holds its members.
LEMMA SeqOver ==
    ASSUME NEW S, NEW q \in Seq(S), NEW T, \A i \in 1 .. Len(q) : q[i] \in T
    PROVE  q \in Seq(T)
<1> DEFINE n == Len(q)
           f == [i \in 1 .. n |-> q[i]]
<1>1. n \in Nat /\ q = f /\ \A i \in 1 .. n : q[i] \in T
  OBVIOUS
<1> HIDE DEF n
<1>2. f \in Seq(T)
  BY <1>1
<1> HIDE DEF f
<1> QED
  BY <1>1, <1>2

\* Packets other than rows do not matter to the table.
LEMMA BecomesGrows ==
    ASSUME NEW q \in Seq(ToClient), NEW ps \in Seq(ToClient), NEW r, NEW T,
           \A i \in DOMAIN ps : ps[i].t # "ROW", Becomes(q, r, T)
    PROVE  Becomes(q \o ps, r, T)
<1> DEFINE n == Len(q)
           a == q \o ps
<1>1. /\ n \in Nat /\ Len(ps) \in Nat /\ DOMAIN q = 1 .. n /\ DOMAIN ps = 1 .. Len(ps)
      /\ DOMAIN a = 1 .. n + Len(ps)
      /\ \A i \in 1 .. n : a[i] = q[i]
      /\ \A i \in n + 1 .. n + Len(ps) : a[i] = ps[i - n]
  BY LenProperties, ConcatProperties
<1>2. \A i \in DOMAIN a : \A g : IsRow(a[i], g) => i \in DOMAIN q /\ a[i] = q[i]
  <2>1. \A i \in n + 1 .. n + Len(ps) : i - n \in DOMAIN ps
    BY <1>1
  <2> QED
    BY <1>1, <2>1 DEF IsRow
<1>3. \A j \in DOMAIN q : j \in DOMAIN a /\ a[j] = q[j]
  BY <1>1
<1> HIDE DEF a, n
<1>4. ASSUME NEW g \in Ids, NEW i \in DOMAIN a, IsRow(a[i], g),
             \A j \in DOMAIN a : j > i => ~IsRow(a[j], g)
      PROVE  a[i].row = T[g]
  <2>1. i \in DOMAIN q /\ a[i] = q[i] /\ IsRow(q[i], g)
    BY <1>2, <1>4
  <2>2. \A j \in DOMAIN q : j > i => ~IsRow(q[j], g)
    BY <1>3, <1>4
  <2> QED
    BY <2>1, <2>2 DEF Becomes
<1>5. ASSUME NEW g \in Ids, \A j \in DOMAIN a : ~IsRow(a[j], g)
      PROVE  r[g] = T[g]
  BY <1>3, <1>5 DEF Becomes
<1> QED
  BY <1>4, <1>5 DEF Becomes, a

\* A row that is read is shown.
LEMMA BecomesRead ==
    ASSUME NEW q \in Seq(ToClient), q # <<>>, NEW r, NEW T, Becomes(q, r, T),
           NEW new, \A g \in Ids : new[g] = IF IsRow(Head(q), g) THEN Head(q).row ELSE r[g]
    PROVE  Becomes(Tail(q), new, T)
<1> DEFINE n == Len(q)
           a == Tail(q)
<1>1. /\ n \in Nat \ {0} /\ DOMAIN q = 1 .. n /\ DOMAIN a = 1 .. n - 1
      /\ \A i \in 1 .. n - 1 : a[i] = q[i + 1]
      /\ Head(q) = q[1]
  BY EmptySeq, HeadTailProperties
<1>2. /\ \A j \in DOMAIN a : j + 1 \in DOMAIN q /\ a[j] = q[j + 1]
      /\ \A j \in DOMAIN q : j = 1 \/ (j - 1 \in DOMAIN a /\ a[j - 1] = q[j])
      /\ 1 \in DOMAIN q /\ DOMAIN q \subseteq Int /\ DOMAIN a \subseteq Int
      /\ \A j \in DOMAIN a : j >= 1
  BY <1>1
<1>3. Head(q) = q[1]
  BY <1>1
<1> HIDE DEF a, n
<1>4. ASSUME NEW g \in Ids, NEW i \in DOMAIN a, IsRow(a[i], g),
             \A j \in DOMAIN a : j > i => ~IsRow(a[j], g)
      PROVE  a[i].row = T[g]
  <2>1. ASSUME NEW j \in DOMAIN q, j > i + 1 PROVE ~IsRow(q[j], g)
    <3>1. j # 1 /\ j - 1 > i
      BY <1>2, <2>1
    <3> QED
      BY <1>2, <1>4, <3>1
  <2>2. i + 1 \in DOMAIN q /\ q[i + 1] = a[i]
    BY <1>2
  <2> QED
    BY <1>4, <2>1, <2>2 DEF Becomes
<1>5. ASSUME NEW g \in Ids, \A j \in DOMAIN a : ~IsRow(a[j], g)
      PROVE  new[g] = T[g]
  <2>1. \A j \in DOMAIN q : j # 1 => ~IsRow(q[j], g)
    BY <1>2, <1>5
  <2>2. CASE IsRow(q[1], g)
    <3>1. \A j \in DOMAIN q : j > 1 => ~IsRow(q[j], g)
      BY <2>1
    <3>2. q[1].row = T[g]
      BY <1>2, <2>2, <3>1 DEF Becomes
    <3> QED
      BY <1>3, <2>2, <3>2
  <2>3. CASE ~IsRow(q[1], g)
    BY <1>3, <2>1, <2>3 DEF Becomes
  <2> QED
    BY <2>2, <2>3
<1> QED
  BY <1>4, <1>5 DEF Becomes, a

\* The rows of a verdict replace whatever was shown.
LEMMA BecomesTable ==
    ASSUME TypeOK, SlotsKept, members = Players, NEW e \in Players, busy[e] # Idle,
           Verdict # <<>>, NEW q \in Seq(OfPlayers), NEW r,
           \A g \in Ids : ~Taken(g) => r[g] = NoRow
    PROVE  /\ Announcement(e) \in Seq(OfPlayers)
           /\ Becomes(q \o Announcement(e), r, Snapshot)
<1> DEFINE N == Cardinality(Players)
           ps == Announcement(e)
           a == q \o ps
           n == Len(q)
<1>1. /\ ps \in Seq(ToClient) /\ N \in Nat /\ N <= MaxGamer /\ MaxGamer \in Nat
      /\ Len(ps) = N + 2 /\ ps[1].t = "DIE" /\ ps[2].t = "RESULT"
      /\ \A i \in 1 .. N : ps[i + 2] = RowPacket(ServerID(i - 1))
  <2>1. N \in Nat /\ N <= MaxGamer /\ MaxGamer \in Nat
    BY Constants
  <2>2. ps \in Seq(ToClient)
    BY AnnouncementIs
  <2>3. /\ Len(ps) = N + 2 /\ ps[1] = [t |-> "DIE", id |-> busy[e].id] /\ ps[2].t = "RESULT"
        /\ \A i \in 1 .. N : ps[i + 2] = RowPacket(ServerID(i - 1))
    BY AnnouncementRows
  <2> HIDE DEF ps, N
  <2> QED
    BY <2>1, <2>2, <2>3
<1> HIDE DEF ps
<1>2. \A g \in Ids : Taken(g) <=> g + 1 \in 1 .. N
  BY <1>1 DEF Taken, Ids
<1>3. ASSUME NEW g \in Ids, Taken(g)
      PROVE  ps[g + 3] = [t |-> "ROW", id |-> g, row |-> Snapshot[g]]
  <2>1. ServerID(g) \in Players /\ Seat(ServerID(g)) = g
    BY <1>3, EveryIdTaken
  <2>2. gameID[ServerID(g)] = g
    BY <2>1 DEF SlotsKept
  <2>3. ps[(g + 1) + 2] = RowPacket(ServerID((g + 1) - 1))
    BY <1>1, <1>2, <1>3
  <2>4. (g + 1) + 2 = g + 3 /\ (g + 1) - 1 = g
    BY DEF Ids
  <2> QED
    BY <1>3, <2>2, <2>3, <2>4 DEF RowPacket, Snapshot
<1>4. \A i \in 1 .. N + 2 : i = 1 \/ i = 2 \/ (i - 3 \in Ids /\ Taken(i - 3) /\ (i - 3) + 3 = i)
  BY <1>1 DEF Ids, Taken
<1>5. \A i \in 1 .. N + 2 : \A g \in Ids : IsRow(ps[i], g) => Taken(g) /\ ps[i].row = Snapshot[g]
  <2> SUFFICES ASSUME NEW i \in 1 .. N + 2, NEW g \in Ids, IsRow(ps[i], g)
               PROVE  Taken(g) /\ ps[i].row = Snapshot[g]
    OBVIOUS
  <2>1. i # 1 /\ i # 2
    BY <1>1 DEF IsRow
  <2>2. i - 3 \in Ids /\ Taken(i - 3) /\ ps[i] = [t |-> "ROW", id |-> i - 3, row |-> Snapshot[i - 3]]
    BY <1>3, <1>4, <2>1
  <2> QED
    BY <2>2 DEF IsRow
<1>6. ps \in Seq(OfPlayers)
  <2>1. ASSUME NEW i \in 1 .. N + 2 PROVE ps[i] \in OfPlayers
    <3>1. ps[i] \in ToClient
      BY <1>1
    <3>2. CASE ps[i].t = "ROW"
      <4>1. ps[i].id \in Ids
        BY <3>1, <3>2 DEF ToClient
      <4> QED
        BY <1>5, <3>1, <3>2, <4>1 DEF IsRow, OfPlayers
    <3> QED
      BY <3>1, <3>2 DEF OfPlayers
  <2>2. ps = [i \in 1 .. N + 2 |-> ps[i]]
    BY <1>1
  <2> QED
    BY <1>1, <2>1, <2>2
<1>7. /\ n \in Nat /\ DOMAIN q = 1 .. n /\ DOMAIN a = 1 .. n + (N + 2)
      /\ \A i \in 1 .. n : a[i] = q[i] /\ q[i] \in OfPlayers
      /\ \A i \in n + 1 .. n + (N + 2) : a[i] = ps[i - n]
  <2>1. Len(q) \in Nat /\ DOMAIN q = 1 .. Len(q) /\ \A i \in 1 .. n : q[i] \in OfPlayers
    OBVIOUS
  <2>2. /\ a \in Seq(OfPlayers) /\ Len(a) = Len(q) + Len(ps)
        /\ \A i \in 1 .. Len(q) + Len(ps) :
              a[i] = IF i <= Len(q) THEN q[i] ELSE ps[i - Len(q)]
    BY <1>6, ConcatProperties
  <2>3. Len(ps) = N + 2 /\ N \in Nat
    BY <1>1
  <2>4. DOMAIN a = 1 .. n + (N + 2)
    <3>1. DOMAIN a = 1 .. Len(a)
      BY <2>2
    <3> HIDE DEF a, N
    <3> QED
      BY <2>2, <2>3, <3>1
  <2>5. ASSUME NEW i \in 1 .. n + (N + 2)
        PROVE  a[i] = IF i <= n THEN q[i] ELSE ps[i - n]
    <3> HIDE DEF a, N
    <3> QED
      BY <2>2, <2>3
  <2> HIDE DEF a, N, n
  <2>6. /\ n \in Nat /\ N \in Nat
        /\ \A i \in 1 .. n : i \in 1 .. n + (N + 2) /\ i <= n
        /\ \A i \in n + 1 .. n + (N + 2) : i \in 1 .. n + (N + 2) /\ ~(i <= n)
    BY <2>1, <2>3 DEF n
  <2>7. DOMAIN q = 1 .. n /\ \A i \in 1 .. n : q[i] \in OfPlayers
    BY <2>1 DEF n
  <2>8. \A i \in 1 .. n : a[i] = q[i]
    BY <2>5, <2>6
  <2>9. \A i \in n + 1 .. n + (N + 2) : a[i] = ps[i - n]
    BY <2>5, <2>6
  <2> QED
    BY <2>4, <2>6, <2>7, <2>8, <2>9
<1> HIDE DEF a, n, N
<1>8. ASSUME NEW g \in Ids, Taken(g)
      PROVE  n + (g + 3) \in DOMAIN a /\ IsRow(a[n + (g + 3)], g)
  <2>1. g \in Nat /\ g + 1 <= N
    BY <1>1, <1>2, <1>8 DEF Ids
  <2> DEFINE i == n + (g + 3)
  <2>2. i \in n + 1 .. n + (N + 2) /\ i - n = g + 3 /\ i \in 1 .. n + (N + 2)
    BY <1>1, <1>7, <2>1
  <2> HIDE DEF i
  <2>3. a[i] = ps[g + 3]
    BY <1>7, <2>2
  <2>4. IsRow(a[i], g)
    <3>1. a[i] = [t |-> "ROW", id |-> g, row |-> Snapshot[g]]
      BY <1>3, <1>8, <2>3
    <3> QED
      BY <3>1 DEF IsRow
  <2> QED
    BY <1>7, <2>2, <2>4 DEF i
<1>9. ASSUME NEW g \in Ids, NEW i \in DOMAIN a, IsRow(a[i], g),
             \A j \in DOMAIN a : j > i => ~IsRow(a[j], g)
      PROVE  a[i].row = Snapshot[g]
  <2>1. CASE i \in n + 1 .. n + (N + 2)
    <3>1. i - n \in 1 .. N + 2 /\ a[i] = ps[i - n]
      BY <1>1, <1>7, <2>1
    <3> QED
      BY <1>5, <1>9, <3>1
  <2>2. CASE i \in 1 .. n
    <3>1. Taken(g)
      BY <1>7, <1>9, <2>2 DEF IsRow, OfPlayers
    <3>2. n + (g + 3) > i
      BY <1>7, <2>2 DEF Ids
    <3> QED
      BY <1>8, <1>9, <3>1, <3>2
  <2> QED
    BY <1>1, <1>7, <2>1, <2>2
<1>10. ASSUME NEW g \in Ids, \A j \in DOMAIN a : ~IsRow(a[j], g)
       PROVE  r[g] = Snapshot[g]
  BY <1>8, <1>10 DEF Snapshot
<1> QED
  BY <1>6, <1>9, <1>10 DEF Becomes, ps, a


\* What client c shows at the table, or will show.
TableFollows(c) ==
    /\ EmptySeatsBlank(c)
    /\ verdicts # <<>> => \E T \in Tables : FairTable(T) /\ Becomes(s2c[c], rows[c], T)

\* Packets that are not rows, sent to client c.
LEMMA TableNotTold ==
    ASSUME TypeOK, NEW c \in Players, TableFollows(c), NEW ps \in Seq(ToClient),
           \A i \in DOMAIN ps : ps[i].t # "ROW",
           s2c'[c] = s2c[c] \o ps, UNCHANGED <<rows, verdicts>>
    PROVE  TableFollows(c)'
<1>1. s2c[c] \in Seq(ToClient) /\ s2c[c] \in Seq(OfPlayers)
  BY DEF TypeOK, NetworkTypeOK, TableFollows, EmptySeatsBlank
<1>2. ps \in Seq(OfPlayers)
  <2>1. \A i \in 1 .. Len(ps) : ps[i] \in OfPlayers
    BY DEF OfPlayers
  <2> QED
    BY <2>1, SeqOver
<1>3. s2c'[c] \in Seq(OfPlayers)
  BY <1>1, <1>2
<1>4. \A T : Becomes(s2c[c], rows[c], T) => Becomes(s2c'[c], rows[c], T)
  BY <1>1, BecomesGrows
<1> QED
  BY <1>3, <1>4 DEF TableFollows, EmptySeatsBlank

LEMMA TableJudge ==
    ASSUME TypeOK, SlotsKept, ScoresAgree, members = Players, NEW c \in Players,
           TableFollows(c), NEW e \in Players, Judge(e)
    PROVE  TableFollows(c)'
<1> DEFINE ps == Announcement(e)
<1>1. /\ s2c'[c] = s2c[c] \o ps /\ UNCHANGED rows
      /\ verdicts' = verdicts \o Verdict /\ busy[e] # Idle
  BY DEF Judge, Broadcast, clientVars
<1>2. CASE Verdict = <<>>
  <2> DEFINE die == [t |-> "DIE", id |-> busy[e].id]
  <2>1. ps = <<die>> /\ ps \in Seq(ToClient)
    BY <1>1, <1>2, AnnouncementIs, AnnouncementRows
  <2>2. die.t # "ROW"
    OBVIOUS
  <2>3. verdicts' = verdicts
    BY <1>1, <1>2 DEF TypeOK, RoomTypeOK
  <2> HIDE DEF ps, die
  <2>4. \A i \in DOMAIN ps : ps[i].t # "ROW"
    BY <2>1, <2>2
  <2> QED
    BY <1>1, <2>1, <2>3, <2>4, TableNotTold
<1>3. CASE Verdict # <<>>
  <2>1. /\ s2c[c] \in Seq(OfPlayers)
        /\ \A g \in Ids : ~Taken(g) => rows[c][g] = NoRow
    BY DEF TableFollows, EmptySeatsBlank
  <2>2. ps \in Seq(OfPlayers) /\ Becomes(s2c[c] \o ps, rows[c], Snapshot)
    <3> DEFINE q == s2c[c]
               r == rows[c]
    <3>1. q \in Seq(OfPlayers) /\ \A g \in Ids : ~Taken(g) => r[g] = NoRow
      BY <2>1
    <3> HIDE DEF q, r
    <3>2. ps \in Seq(OfPlayers) /\ Becomes(q \o ps, r, Snapshot)
      BY <1>1, <1>3, <3>1, BecomesTable
    <3> QED
      BY <3>2 DEF q, r
  <2> HIDE DEF ps
  <2>3. s2c[c] \o ps \in Seq(OfPlayers)
    BY <2>1, <2>2
  <2>4. Snapshot \in Tables /\ FairTable(Snapshot)
    BY <1>3, SnapshotFair
  <2> DEFINE T == Snapshot
  <2>5. T \in Tables /\ FairTable(T) /\ Becomes(s2c'[c], rows'[c], T)
    BY <1>1, <2>2, <2>4
  <2> HIDE DEF T
  <2>6. EmptySeatsBlank(c)'
    BY <1>1, <2>1, <2>3 DEF EmptySeatsBlank
  <2> QED
    BY <2>5, <2>6 DEF TableFollows
<1> QED
  BY <1>2, <1>3

LEMMA TableReceive ==
    ASSUME TypeOK, NEW c \in Players, TableFollows(c), NEW e \in Players, Receive(e)
    PROVE  TableFollows(c)'
<1>1. /\ s2c[e] # <<>> /\ s2c' = [s2c EXCEPT ![e] = Tail(@)] /\ UNCHANGED verdicts
      /\ Head(s2c[e]).t # "ROW" => UNCHANGED rows
      /\ Head(s2c[e]).t = "ROW" =>
            rows' = [rows EXCEPT ![e][Head(s2c[e]).id] = Head(s2c[e]).row]
  BY DEF Receive, GotDie, GotRespawn, GotSkillDone, GotResult, GotRow, Receives, serverVars
<1>2. s2c \in [Players -> Seq(ToClient)] /\ rows \in [Players -> [Ids -> Row]]
  BY DEF TypeOK, NetworkTypeOK, ClientTypeOK
<1>3. CASE e # c
  <2>1. s2c'[c] = s2c[c] /\ rows'[c] = rows[c]
    BY <1>1, <1>2, <1>3
  <2> QED
    BY <1>1, <2>1 DEF TableFollows, EmptySeatsBlank
<1>4. CASE e = c
  <2> DEFINE q == s2c[c]
             m == Head(q)
             r == rows[c]
             new == rows'[c]
  <2>1. q \in Seq(OfPlayers) /\ \A g \in Ids : ~Taken(g) => r[g] = NoRow
    BY DEF TableFollows, EmptySeatsBlank
  <2>2. q # <<>> /\ q \in Seq(ToClient) /\ s2c'[c] = Tail(q) /\ r \in [Ids -> Row]
    BY <1>1, <1>2, <1>4
  <2>3. m \in OfPlayers /\ Tail(q) \in Seq(OfPlayers)
    BY <2>1, <2>2, HeadTyped
  <2>4. \A g \in Ids : new[g] = IF IsRow(m, g) THEN m.row ELSE r[g]
    <3>1. CASE m.t = "ROW"
      <4>1. m.id \in Ids
        BY <2>3, <3>1 DEF OfPlayers, ToClient
      <4>2. rows' = [rows EXCEPT ![c][m.id] = m.row]
        BY <1>1, <1>4, <3>1
      <4> HIDE DEF m
      <4> QED
        BY <1>2, <2>2, <3>1, <4>1, <4>2 DEF IsRow
    <3>2. CASE m.t # "ROW"
      BY <1>1, <1>4, <3>2 DEF IsRow
    <3> QED
      BY <3>1, <3>2
  <2>5. verdicts' # <<>> => \E T \in Tables : FairTable(T) /\ Becomes(q, r, T)
    BY <1>1 DEF TableFollows
  <2> HIDE DEF q, r, new
  <2>6. \A T : Becomes(q, r, T) => Becomes(Tail(q), new, T)
    BY <2>2, <2>4, BecomesRead
  <2>7. \A g \in Ids : ~Taken(g) => new[g] = NoRow
    BY <2>1, <2>3, <2>4 DEF IsRow, OfPlayers
  <2>8. EmptySeatsBlank(c)'
    BY <2>2, <2>3, <2>7 DEF EmptySeatsBlank, new
  <2>9. verdicts' # <<>> => \E T \in Tables : FairTable(T) /\ Becomes(s2c'[c], new, T)
    BY <2>2, <2>5, <2>6
  <2> QED
    BY <2>8, <2>9 DEF TableFollows, new
<1> QED
  BY <1>3, <1>4

LEMMA TableStep ==
    ASSUME TypeOK, SlotsKept, ScoresAgree, TablesFollow, [Next]_vars
    PROVE  TablesFollow'
<1> SUFFICES ASSUME members' = Players, NEW c \in Players PROVE TableFollows(c)'
  BY DEF TablesFollow, TableFollows
<1>1. members = Players /\ \A e \in Players : ~LobbyReset(e)
  BY NobodyLeft
<1>2. TableFollows(c)
  BY <1>1 DEF TablesFollow, TableFollows
<1>3. ASSUME UNCHANGED <<s2c, rows, verdicts>> PROVE TableFollows(c)'
  BY <1>2, <1>3 DEF TableFollows, EmptySeatsBlank
<1>4. ASSUME NEW m \in ToClient, m.t # "ROW", s2c'[c] = s2c[c] \o <<m>>,
             UNCHANGED <<rows, verdicts>>
      PROVE  TableFollows(c)'
  <2> DEFINE ps == <<m>>
  <2>1. ps \in Seq(ToClient) /\ \A i \in DOMAIN ps : ps[i].t # "ROW"
    BY <1>4
  <2>2. s2c'[c] = s2c[c] \o ps
    BY <1>4
  <2> HIDE DEF ps
  <2> QED
    BY <1>2, <1>4, <2>1, <2>2, TableNotTold
<1>5. CASE Respawn
  <2> DEFINE m == [t |-> "RESPAWN", id |-> gameID[Head(timers).s]]
  <2>1. m \in ToClient /\ m.t # "ROW"
    <3>1. Head(timers).s \in Users
      BY <1>5, NextTimer DEF Respawn
    <3> QED
      BY <3>1 DEF TypeOK, HeroTypeOK, ToClient
  <2>2. UNCHANGED <<rows, verdicts>>
    BY <1>5 DEF Respawn, clientVars
  <2>3. UNCHANGED s2c \/ s2c'[c] = s2c[c] \o <<m>>
    BY <1>1, <1>5 DEF Respawn, Broadcast
  <2> HIDE DEF m
  <2> QED
    BY <1>3, <1>4, <2>1, <2>2, <2>3
<1>6. ASSUME NEW e \in Players, SkillDone(e) PROVE TableFollows(c)'
  <2> DEFINE m == [t |-> "DONE"]
  <2>1. m \in ToClient /\ m.t # "ROW"
    BY DEF ToClient
  <2>2. UNCHANGED <<rows, verdicts>>
    BY <1>6 DEF SkillDone, clientVars, serverVars
  <2>3. s2c'[c] = s2c[c] \/ s2c'[c] = s2c[c] \o <<m>>
    <3>1. s2c \in [Players -> Seq(ToClient)]
      BY DEF TypeOK, NetworkTypeOK
    <3> QED
      BY <1>6, <3>1 DEF SkillDone
  <2>4. CASE s2c'[c] = s2c[c]
    BY <1>2, <2>2, <2>4 DEF TableFollows, EmptySeatsBlank
  <2> HIDE DEF m
  <2> QED
    BY <1>4, <2>1, <2>2, <2>3, <2>4
<1>7. ASSUME NEW e \in Players, Judge(e) PROVE TableFollows(c)'
  BY <1>1, <1>2, <1>7, TableJudge
<1>8. ASSUME NEW e \in Players, Receive(e) PROVE TableFollows(c)'
  BY <1>2, <1>8, TableReceive
<1>9. ASSUME NEW e \in Players, Strike(e) \/ Swing(e) \/ ShowEnding(e) \/ Confirm(e)
      PROVE  UNCHANGED <<s2c, rows, verdicts>>
  BY <1>9 DEF Strike, Swing, ShowEnding, Confirm, clientVars, serverVars
<1>10. CASE UNCHANGED vars
  BY <1>3, <1>10 DEF vars, clientVars, serverVars
<1> QED
  BY <1>1, <1>3, <1>5, <1>6, <1>7, <1>8, <1>9, <1>10 DEF Next, Handle

\* As long as nobody fights where the heroes of empty seats stand, a client at
\* the table that has read its queue shows as many kills as deaths, and enough
\* deaths of one side for a verdict, however many verdicts have been sent.
THEOREM RowsAlwaysAddUp ==
    ASSUME ~HitEmptySeats
    PROVE  Spec => []RowsAddUp
<1> DEFINE Inv == HitsMeanPlayers /\ SlotsKept /\ ScoresAgree /\ NoTableYet /\ TablesFollow
<1>1. Init => Inv
  <2> SUFFICES ASSUME Init PROVE NoTableYet /\ TablesFollow
    BY RealInit
  <2>1. \A c \in Players : s2c[c] \in Seq(NoResult) /\ s2c[c] \in Seq(OfPlayers)
    BY DEF Init
  <2>2. NoTableYet
    BY <2>1 DEF Init, NoTableYet
  <2>3. verdicts = <<>> /\ \A c \in Players : \A g \in Ids : rows[c][g] = NoRow
    BY DEF Init, NoRow
  <2> QED
    BY <2>1, <2>2, <2>3 DEF TablesFollow, EmptySeatsBlank
<1>2. TypeOK /\ Inv /\ [Next]_vars => Inv'
  BY RealStep, SlotsStep, ScoresStep, NoTableStep, TableStep
<1>3. TypeOK /\ Inv => RowsAddUp
  BY TablesMeanRowsAddUp
<1> HIDE DEF Inv
<1> QED
  BY <1>1, <1>2, <1>3, TypeCorrect, PTL DEF Spec
=============================================================================
