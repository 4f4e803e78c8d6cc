------------------------------- MODULE Match -------------------------------
(***************************************************************************)
(* One match, from the moment the heroes are put on the map until the      *)
(* players are back in the lobby: hits, kills, the respawn timer, the      *)
(* verdict and the table (PacketFunc.cpp, Lunatic_Server.cpp), and the     *)
(* client's view of them (LunaticProject.cpp, Scene.cpp,                   *)
(* GameFramework.cpp).                                                     *)
(*                                                                         *)
(* Where a hero stands is left out: any set of enemies may be in range.    *)
(* So are health bars and the sums of damage, which the table shows beside *)
(* kills and deaths.                                                       *)
(***************************************************************************)
EXTENDS Integers, Sequences, FiniteSets, FiniteSetsExt

CONSTANTS
    Players,        \* the slots of g_Clients in this room when it starts
    Room,           \* the number of this room
    MaxGamer,       \* MAX_GAMER
    MaxHp,          \* health of a hero
    Damage,         \* m_att and m_weakatt: what a hit may take
    ResultDeath,    \* RESULTDEATH
    Handlers,       \* workers that handle packets of this match at a time
    HitEmptySeats,  \* does somebody fight near the origin, where the heroes
                    \* of empty seats stand?
    KillBound,      \* no new swing once so many kills have happened
    Backlog         \* the server waits while a client has more unread messages

ASSUME MatchAssumption ==
    /\ Players \subseteq Nat /\ IsFiniteSet(Players)
    /\ MaxGamer \in Nat /\ Cardinality(Players) \in 1 .. MaxGamer
    /\ Room \in Nat
    /\ MaxHp \in Nat \ {0}
    /\ Damage \subseteq Nat \ {0}
    /\ ResultDeath \in Nat \ {0}
    /\ Handlers \in Nat \ {0}
    /\ HitEmptySeats \in BOOLEAN
    /\ KillBound \in Nat /\ Backlog \in Nat

\* A hero whose server id is 0 for want of a player means slot 0.
Users == Players \cup {0}
Ids == 0 .. MaxGamer - 1

\* The players have entered in the order of their slots.
Seat(s) == Cardinality({t \in Players : t < s})
ServerID(g) == IF \E s \in Players : Seat(s) = g
               THEN CHOOSE s \in Players : Seat(s) = g ELSE 0
Taken(g) == g < Cardinality(Players)
Team(g) == IF g % 2 = 1 THEN "B" ELSE "A"

VARIABLES
    \* server
    hp,             \* CLIENT.m_hp
    killcount,      \* CLIENT.m_killcount
    deathcount,     \* CLIENT.m_deathcount
    gameID,         \* CLIENT.m_GameID
    roomNumber,     \* CLIENT.m_room_number
    members,        \* ROOM.m_GameID_list
    fallen,         \* ROOM.A_killcount and B_killcount
    timers,         \* timer_queue; all delays are the same
    verdicts,       \* the results sent so far: TRUE where team A won
    busy,           \* kills counted, but not yet judged, by their handlers
    \* network
    c2s, s2c,
    \* clients
    scene,          \* GAME, ENDING (the table) or LOBBY
    swinging,       \* g_bDoing_Ani
    dead,           \* ids whose pHeroObject[id]->bDeath is set
    score,          \* g_A_Teamcount, g_B_Teamcount
    win, lose,      \* isWinResult, isLoseResult
    rows            \* m_killcount, m_deathcount of every pHeroObject[id]

serverVars == <<hp, killcount, deathcount, gameID, roomNumber, members,
                fallen, timers, verdicts, busy>>
clientVars == <<scene, swinging, dead, score, win, lose, rows>>
vars == <<serverVars, c2s, s2c, clientVars>>

\* No kill of this client is being handled, or one is.
Idle == [killed |-> {}]
Kill == [killed : {{v} : v \in Users}, id : Ids]

\* An event of the timer queue
Timer == [s : Users, room : {Room}, late : BOOLEAN]

\* The packets
Row == [kills : Nat, deaths : Nat]
ToServer == [t : {"HIT"}, hit : Users, id : Ids, damage : Damage]
            \cup [t : {"DONE", "CONFIRM"}]
ToClient == [t : {"DIE", "RESPAWN"}, id : Ids] \cup [t : {"DONE"}]
            \cup [t : {"RESULT"}, aWon : BOOLEAN]
            \cup [t : {"ROW"}, id : Ids, row : Row]

\* CS_READY has given every hero its health; the heroes are on the map.
Init ==
    /\ hp = [s \in Users |-> MaxHp]
    /\ killcount = [s \in Users |-> 0]
    /\ deathcount = [s \in Users |-> 0]
    /\ gameID = [s \in Users |-> IF s \in Players THEN Seat(s) ELSE 0]
    /\ roomNumber = [s \in Users |-> 0]
    /\ members = Players
    /\ fallen = [A |-> 0, B |-> 0]
    /\ timers = <<>>
    /\ verdicts = <<>>
    /\ busy = [c \in Players |-> Idle]
    /\ c2s = [c \in Players |-> <<>>]
    /\ s2c = [c \in Players |-> <<>>]
    /\ scene = [c \in Players |-> "GAME"]
    /\ swinging = [c \in Players |-> FALSE]
    /\ dead = [c \in Players |-> {}]
    /\ score = [c \in Players |-> [A |-> 0, B |-> 0]]
    /\ win = [c \in Players |-> FALSE]
    /\ lose = [c \in Players |-> FALSE]
    /\ rows = [c \in Players |-> [g \in Ids |-> [kills |-> 0, deaths |-> 0]]]
-----------------------------------------------------------------------------
(* Server *)

\* To every member of the room
Broadcast(ps) ==
    s2c' = [c \in Players |-> IF c \in members THEN s2c[c] \o ps ELSE s2c[c]]

Free == /\ Cardinality({c \in Players : busy[c] # Idle}) < Handlers
        /\ \A c \in Players : Len(s2c[c]) <= Backlog

\* The team whose fallen are counted is read off the clientID of the packet.
Fallen_bug(g) == [fallen EXCEPT ![IF Team(g) = "A" THEN "B" ELSE "A"] = @ + 1]
Fallen(g) == [fallen EXCEPT ![Team(g)] = @ + 1]

\* CS_ATTACK_HIT, CS_WEAKATTACK_HIT up to the test of the scores: the hit hero
\* loses health, and a hero without any is killed.
StillStanding_bug(s, d) == hp[s] - d >= 0
StillStanding(s, d) == hp[s] - d > 0
Strike(c) ==
    /\ Free /\ busy[c] = Idle
    /\ c2s[c] # <<>> /\ Head(c2s[c]).t = "HIT"
    /\ c2s' = [c2s EXCEPT ![c] = Tail(@)]
    /\ LET p == Head(c2s[c]) IN
       IF StillStanding(p.hit, p.damage)
       THEN /\ hp' = [hp EXCEPT ![p.hit] = @ - p.damage]
            /\ UNCHANGED <<killcount, deathcount, roomNumber, fallen, busy>>
       ELSE /\ hp' = [hp EXCEPT ![p.hit] = 0]
            /\ killcount' = [killcount EXCEPT ![c] = @ + 1]
            /\ deathcount' = [deathcount EXCEPT ![p.hit] = @ + 1]
            /\ roomNumber' = [roomNumber EXCEPT ![p.hit] = Room]
            /\ fallen' = Fallen(p.id)
            /\ busy' = [busy EXCEPT ![c] = [killed |-> {p.hit}, id |-> p.id]]
    /\ UNCHANGED <<gameID, members, timers, verdicts, s2c, clientVars>>

\* SC_RESULT, with IsAWin; at most one, and then nobody is respawned
Verdict_bug ==
    IF fallen.A > ResultDeath THEN <<FALSE>>
    ELSE IF fallen.B > ResultDeath THEN <<TRUE>> ELSE <<>>
Verdict ==
    IF fallen.A = ResultDeath THEN <<FALSE>>
    ELSE IF fallen.B = ResultDeath THEN <<TRUE>> ELSE <<>>

\* timer_queue.push, unless the kill has decided the match
NewTimers(v, given) ==
    IF given # <<>> THEN timers
    ELSE Append(timers, [s |-> v, room |-> Room, late |-> verdicts # <<>>])

\* SC_ENDINGRESULT of everyone who has loaded this match: the id and the
\* numbers are what the slot holds now, and who has left holds zeros.
RowPacket(s) == [t |-> "ROW", id |-> gameID[s],
                 row |-> [kills |-> killcount[s], deaths |-> deathcount[s]]]
EndingRows_bug(c) == [i \in 1 .. Cardinality(Players) |-> RowPacket(c)]
EndingRows(c) ==
    [i \in 1 .. Cardinality(Players) |-> RowPacket(ServerID(i - 1))]

\* SC_CHAR_DIE, then SC_RESULT and the rows if the kill decides the match
Announcement(c) ==
    <<[t |-> "DIE", id |-> busy[c].id]>>
    \o [i \in DOMAIN Verdict |-> [t |-> "RESULT", aWon |-> Verdict[i]]]
    \o (IF Verdict = <<>> THEN <<>> ELSE EndingRows(c))

\* The rest of the handler of a kill, which ends with a timer or a verdict
Judge(c) ==
    /\ busy[c] # Idle
    /\ busy' = [busy EXCEPT ![c] = Idle]
    /\ Broadcast(Announcement(c))
    /\ verdicts' = verdicts \o Verdict
    /\ \E v \in busy[c].killed : timers' = NewTimers(v, Verdict)
    /\ UNCHANGED <<hp, killcount, deathcount, gameID, roomNumber, members,
                   fallen, c2s, clientVars>>

\* The timer's event reaches a worker; it looks the room up in the client.
Respawn ==
    /\ Free /\ timers # <<>>
    /\ timers' = Tail(timers)
    /\ LET v == Head(timers).s IN
       /\ hp' = [hp EXCEPT ![v] = MaxHp]
       /\ IF roomNumber[v] = Room
          THEN Broadcast(<<[t |-> "RESPAWN", id |-> gameID[v]]>>)
          ELSE UNCHANGED s2c
    /\ UNCHANGED <<killcount, deathcount, gameID, roomNumber, members, fallen,
                   verdicts, busy, c2s, clientVars>>

\* CS_SKILL_DONE: only its sender does more than animate.
SkillDone(c) ==
    /\ Free /\ busy[c] = Idle
    /\ c2s[c] # <<>> /\ Head(c2s[c]).t = "DONE"
    /\ c2s' = [c2s EXCEPT ![c] = Tail(@)]
    /\ s2c' = [s2c EXCEPT ![c] = IF c \in members THEN Append(@, [t |-> "DONE"]) ELSE @]
    /\ UNCHANGED <<serverVars, clientVars>>

\* CS_RESULTCONFIRM
LobbyReset(c) ==
    /\ Free /\ busy[c] = Idle
    /\ c2s[c] # <<>> /\ Head(c2s[c]).t = "CONFIRM"
    /\ c2s' = [c2s EXCEPT ![c] = Tail(@)]
    /\ killcount' = [killcount EXCEPT ![c] = 0]
    /\ deathcount' = [deathcount EXCEPT ![c] = 0]
    /\ roomNumber' = [roomNumber EXCEPT ![c] = 0]
    /\ gameID' = [gameID EXCEPT ![c] = 0]
    /\ members' = members \ {c}
    /\ fallen' = IF members = {c} THEN [A |-> 0, B |-> 0] ELSE fallen
    /\ UNCHANGED <<hp, timers, verdicts, busy, s2c, clientVars>>

-----------------------------------------------------------------------------
(* Client *)

\* The heroes c may hit: another team's, not known to be dead.  An empty
\* seat's hero has no team.
Enemies(c) ==
    {g \in Ids \ dead[c] :
        IF Taken(g) THEN Team(g) # Team(Seat(c)) ELSE HitEmptySeats}

\* The loops over pHeroObject[] come to the heroes in the order of their ids.
Ascending(S) ==
    UNION {{q \in [1 .. n -> S] : \A i, j \in 1 .. n : i < j => q[i] < q[j]} :
               n \in 1 .. Cardinality(S)}

\* The key for an attack, then the end of its animation.  No other swing
\* until SC_SKILL_DONE has come back.
Swing(c) ==
    /\ scene[c] = "GAME" /\ ~swinging[c]
    /\ fallen.A + fallen.B < KillBound
    /\ \E hits \in Ascending(Enemies(c)), d \in Damage :
          c2s' = [c2s EXCEPT ![c] = @ \o [i \in DOMAIN hits |->
                     [t |-> "HIT", hit |-> ServerID(hits[i]), id |-> hits[i],
                      damage |-> d]] \o <<[t |-> "DONE"]>>]
    /\ swinging' = [swinging EXCEPT ![c] = TRUE]
    /\ UNCHANGED <<serverVars, s2c, scene, dead, score, win, lose, rows>>

Receives(c, t) ==
    /\ s2c[c] # <<>> /\ Head(s2c[c]).t = t
    /\ s2c' = [s2c EXCEPT ![c] = Tail(@)]
    /\ UNCHANGED <<serverVars, c2s, scene>>

GotDie(c) ==
    LET g == Head(s2c[c]).id IN
    /\ Receives(c, "DIE")
    /\ dead' = [dead EXCEPT ![c] = @ \cup {g}]
    /\ score' = [score EXCEPT ![c][Team(g)] = @ + 1]
    /\ UNCHANGED <<swinging, win, lose, rows>>

StillDead_bug(c, g) == dead[c]
StillDead(c, g) == dead[c] \ {g}
GotRespawn(c) ==
    /\ Receives(c, "RESPAWN")
    /\ dead' = [dead EXCEPT ![c] = StillDead(c, Head(s2c[c]).id)]
    /\ UNCHANGED <<swinging, score, win, lose, rows>>

GotSkillDone(c) ==
    /\ Receives(c, "DONE")
    /\ swinging' = [swinging EXCEPT ![c] = FALSE]
    /\ UNCHANGED <<dead, score, win, lose, rows>>

\* Which flag is set depends on the own team, which the lobby has forgotten.
Minds_bug(c) == scene[c] # "LOBBY" /\ Team(Seat(c)) = "A"
Minds(c) == scene[c] # "LOBBY"
GotResult(c) ==
    LET won == Head(s2c[c]).aWon <=> Team(Seat(c)) = "A" IN
    /\ Receives(c, "RESULT")
    /\ win' = [win EXCEPT ![c] = @ \/ (Minds(c) /\ won)]
    /\ lose' = [lose EXCEPT ![c] = @ \/ (Minds(c) /\ ~won)]
    /\ UNCHANGED <<swinging, dead, score, rows>>

GotRow(c) ==
    LET p == Head(s2c[c]) IN
    /\ Receives(c, "ROW")
    /\ rows' = [rows EXCEPT ![c][p.id] = p.row]
    /\ UNCHANGED <<swinging, dead, score, win, lose>>

\* Five seconds after a flag was set the table is shown.  A respawn takes as
\* long, so those that were due before the verdict have happened.
ShowEnding(c) ==
    /\ scene[c] = "GAME" /\ (win[c] \/ lose[c])
    /\ \A i \in DOMAIN timers : timers[i].late
    /\ scene' = [scene EXCEPT ![c] = "ENDING"]
    /\ win' = [win EXCEPT ![c] = FALSE]
    /\ lose' = [lose EXCEPT ![c] = @ /\ win[c]]
    /\ UNCHANGED <<serverVars, c2s, s2c, swinging, dead, score, rows>>

\* A click on the table; HeroInit forgets the match, but not the rows.
Confirm(c) ==
    /\ scene[c] = "ENDING"
    /\ scene' = [scene EXCEPT ![c] = "LOBBY"]
    /\ c2s' = [c2s EXCEPT ![c] = Append(@, [t |-> "CONFIRM"])]
    /\ swinging' = [swinging EXCEPT ![c] = FALSE]
    /\ dead' = [dead EXCEPT ![c] = {}]
    /\ score' = [score EXCEPT ![c] = [A |-> 0, B |-> 0]]
    /\ UNCHANGED <<serverVars, s2c, win, lose, rows>>

Handle(c) == Strike(c) \/ Judge(c) \/ SkillDone(c) \/ LobbyReset(c)
Receive(c) == GotDie(c) \/ GotRespawn(c) \/ GotSkillDone(c)
              \/ GotResult(c) \/ GotRow(c)

Next ==
    \/ Respawn
    \/ \E c \in Players :
          Handle(c) \/ Receive(c) \/ Swing(c) \/ ShowEnding(c) \/ Confirm(c)

Spec == Init /\ [][Next]_vars

\* Workers handle what has arrived, the timer thread runs, clients handle
\* their messages and draw frames.  Players owe neither swings nor clicks.
FairSpec ==
    /\ Spec
    /\ WF_vars(Respawn)
    /\ \A c \in Players : /\ WF_vars(Handle(c))
                          /\ WF_vars(Receive(c))
                          /\ WF_vars(ShowEnding(c))

-----------------------------------------------------------------------------
(* Properties *)

\* Every variable is in its range.
HeroTypeOK ==
    /\ hp \in [Users -> 0 .. MaxHp]
    /\ killcount \in [Users -> Nat] /\ deathcount \in [Users -> Nat]
    /\ gameID \in [Users -> Ids]
    /\ roomNumber \in [Users -> {0, Room}]
RoomTypeOK ==
    /\ members \in SUBSET Players
    /\ fallen \in [{"A", "B"} -> Nat]
    /\ timers \in Seq(Timer)
    /\ verdicts \in Seq(BOOLEAN)
    /\ busy \in [Players -> {Idle} \cup Kill]
NetworkTypeOK ==
    /\ c2s \in [Players -> Seq(ToServer)]
    /\ s2c \in [Players -> Seq(ToClient)]
ClientTypeOK ==
    /\ scene \in [Players -> {"GAME", "ENDING", "LOBBY"}]
    /\ swinging \in [Players -> BOOLEAN]
    /\ dead \in [Players -> SUBSET Ids]
    /\ score \in [Players -> [{"A", "B"} -> Nat]]
    /\ win \in [Players -> BOOLEAN] /\ lose \in [Players -> BOOLEAN]
    /\ rows \in [Players -> [Ids -> Row]]
TypeOK == HeroTypeOK /\ RoomTypeOK /\ NetworkTypeOK /\ ClientTypeOK

Total(f, S) == MapThenSumSet(LAMBDA s : f[s], S)

\* The room counts the fallen by the id in the packet, the clients' records by
\* the slot: until someone leaves they tell the same story.
ScoresAgree ==
    members = Players =>
        /\ Total(killcount, Players) = fallen.A + fallen.B
        /\ \A k \in {"A", "B"} :
              fallen[k] = Total(deathcount, {s \in Players : Team(gameID[s]) = k})

\* Nobody is left lying: while the match is open a hero without health has a
\* respawn under way.
RespawnUnderWay ==
    \A s \in members : (hp[s] = 0 /\ verdicts = <<>>) =>
        \/ \E i \in DOMAIN timers : timers[i].s = s
        \/ \E c \in Players : s \in busy[c].killed

\* A client that has heard everything knows who is dead, and shows the score
\* of the server.
ViewsAgree ==
    \A c \in Players :
        (/\ scene[c] = "GAME" /\ s2c[c] = <<>> /\ members = Players
         /\ \A d \in Players : busy[d] = Idle)
        => /\ score[c] = fallen
           /\ \A g \in Ids : Taken(g) => (g \in dead[c] <=> hp[ServerID(g)] = 0)

\* The table tells one story.  Its rows are sent one by one with each verdict,
\* while hits go on; whatever has been sent when, a client at the table that
\* has heard everything shows as many kills as deaths, and enough deaths of one
\* side for a verdict.
RowsAddUp ==
    \A c \in Players :
        (/\ scene[c] = "ENDING" /\ s2c[c] = <<>> /\ members = Players
         /\ \A d \in Players : busy[d] = Idle)
        => LET kills == [g \in Ids |-> rows[c][g].kills]
               deaths == [g \in Ids |-> rows[c][g].deaths]
           IN /\ Total(kills, Ids) = Total(deaths, Ids)
              /\ \E k \in {"A", "B"} :
                    Total(deaths, {g \in Ids : Team(g) = k}) >= ResultDeath

\* Every hero comes back, or the match is decided.
Respawned ==
    \A s \in Players : hp[s] = 0 ~> (hp[s] > 0 \/ verdicts # <<>>)

\* "When the target number of kills is reached, the packets of victory and
\* defeat are sent": a side that has lost enough heroes has lost the match.
VerdictGiven ==
    ((\E k \in {"A", "B"} : fallen[k] >= ResultDeath)
       /\ \A c \in Players : busy[c] = Idle)
    => verdicts # <<>>

\* A decided match ends for everyone: each client gets to the table.
EveryoneSeesTable ==
    \A c \in Players : verdicts # <<>> ~> scene[c] # "GAME"

\* The same sentence: a match has one result.
OneVerdict == Len(verdicts) <= 1

\* A row of the table never loses what it has shown: nobody is wiped out by a
\* packet about a player who has left and whose numbers are zeros.
RowsKept ==
    [][\A c \in Players, g \in Ids : rows'[c][g].kills >= rows[c][g].kills]_vars

\* "Which room is it?": a respawn is announced in the room it was set for.
RespawnInItsRoom ==
    [][Len(timers') < Len(timers)
         => roomNumber[Head(timers).s] = Head(timers).room]_vars
=============================================================================
