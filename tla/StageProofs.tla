---------------------------- MODULE StageProofs ----------------------------
(***************************************************************************)
(* Proofs about what a client draws over several matches.                  *)
(*                                                                         *)
(* Stage, for every number of seats, matches, deaths and pictures and for  *)
(* frames of any length: what lies over the game shows the match that is   *)
(* on, whatever the matches before have left behind, and the match ends by *)
(* a verdict of its own.                                                   *)
(*                                                                         *)
(* Its scene graph, for every number of houses and walls too: nothing an   *)
(* object holds is deleted, and the program's end leaves what its last     *)
(* scene does not reach.                                                   *)
(***************************************************************************)
EXTENDS Stage, FiniteSetTheorems, TLAPS

-----------------------------------------------------------------------------
(* Types                                                                   *)

Scenes == {"LOBBY", "LOADING", "LOADED", "GAME", "DOWN", "CRASHED"}
Teams == {0, 1}

\* The two pictures of a key: as built, while the key is down, and afterwards
Idle(s) == s = NewSkill
Down(s) == s = [up |-> Away, down |-> 3]
Up(k, s) == s.up = 3 /\ s.down \in {Away, 3} /\ s = [up |-> s.up, down |-> s.down]

StageTypeOK ==
    /\ scene \in Scenes /\ isEnding \in BOOLEAN
    /\ picks \in [Seats -> {0, 1}]
    /\ verdicts \subseteq Kinds /\ heard \subseteq Kinds
    /\ resultTimer \in Int /\ imageTimer \in [Kinds -> Int] /\ imageCount \in [Kinds -> Nat]
    /\ fallen \in [Teams -> Nat] /\ digits \in [Teams -> SUBSET Nat]
    /\ hp \in [Seats -> 0 .. MaxHp]
    /\ bar \in [Seats -> Int \X Int] /\ gauge \in Int
    /\ keys \subseteq Skills /\ DOMAIN skills = Skills
    /\ owed \subseteq Seats /\ astray \subseteq {"verdict", "death"}

\* The constants as the proofs use them
LEMMA Numbers ==
    /\ Mine \in Seats /\ Seats \subseteq 0 .. 7 /\ Seats \subseteq Nat
    /\ MaxHp \in Nat /\ MaxHp > 0 /\ Short \in Nat /\ Long \in Nat /\ Slow \in Nat
    /\ WinPictures \in Nat /\ LosePictures \in Nat
    /\ IsFiniteSet(Seats) /\ IsFiniteSet(Skills)
<1>1. IsFiniteSet(0 .. 7)
  <2>1. \A n \in Int : IsFiniteSet(0 .. n)
    BY FS_Interval
  <2>2. 7 \in Int
    OBVIOUS
  <2> QED
    BY <2>1, <2>2, Zenon
<1>2. IsFiniteSet(Seats)
  BY <1>1, StageAssumption, FS_Subset
<1>3. IsFiniteSet({"D", "S"})
  <2>1. IsFiniteSet({"S"}) /\ {"D", "S"} = {"S"} \cup {"D"}
    BY FS_Singleton
  <2> QED
    BY <2>1, FS_AddElement
<1>4. IsFiniteSet(Skills)
  BY <1>3, StageAssumption, FS_Subset
<1> QED
  BY <1>2, <1>4, StageAssumption

\* A bar of health is at most as long as a full one, and a full one that long.
LEMMA Lengths ==
    ASSUME NEW h \in 0 .. MaxHp
    PROVE  /\ (74 * h) \div MaxHp \in 0 .. 74
           /\ (335 * h) \div MaxHp \in 0 .. 335
           /\ (74 * MaxHp) \div MaxHp = 74
           /\ (335 * MaxHp) \div MaxHp = 335
<1> DEFINE m == MaxHp
<1>1. m \in Nat /\ m > 0
  BY Numbers
<1>2. h \in Int /\ 0 <= h /\ h <= m
  BY <1>1
<1> HIDE DEF m
<1>3. 0 <= 74 * h /\ 74 * h <= 74 * m /\ 0 <= 335 * h /\ 335 * h <= 335 * m
  BY <1>1, <1>2
<1>4. (74 * m) \div m = 74 /\ (335 * m) \div m = 335
  BY <1>1
<1>5. (74 * h) \div m \in 0 .. 74
  BY <1>1, <1>2, <1>3
<1>6. (335 * h) \div m \in 0 .. 335
  BY <1>1, <1>2, <1>3
<1> QED
  BY <1>4, <1>5, <1>6 DEF m

LEMMA TypeInit == Init => StageTypeOK
<1> SUFFICES ASSUME Init PROVE StageTypeOK
  OBVIOUS
<1>1. /\ scene \in Scenes /\ isEnding \in BOOLEAN /\ picks \in [Seats -> {0, 1}]
      /\ verdicts \subseteq Kinds /\ heard \subseteq Kinds
      /\ keys \subseteq Skills /\ DOMAIN skills = Skills
      /\ owed \subseteq Seats /\ astray \subseteq {"verdict", "death"}
  BY DEF Init, Scenes
<1>2. resultTimer \in Int /\ imageTimer \in [Kinds -> Int] /\ imageCount \in [Kinds -> Nat]
  BY DEF Init, Off
<1>3. fallen \in [Teams -> Nat] /\ digits \in [Teams -> SUBSET Nat]
  BY DEF Init, Teams
<1>4. hp \in [Seats -> 0 .. MaxHp] /\ bar \in [Seats -> Int \X Int] /\ gauge \in Int
  BY Numbers DEF Init
<1> QED
  BY <1>1, <1>2, <1>3, <1>4 DEF StageTypeOK

LEMMA BarEndType ==
    ASSUME NEW i \in Seats, NEW h \in 0 .. MaxHp
    PROVE  /\ BarEnd(i, h) = TeamLeft(i % 2, i \div 2) + 3 + (74 * h) \div MaxHp
           /\ BarEnd(i, h) \in Int /\ FullBar(i) \in Int \X Int
           /\ TeamLeft(i % 2, i \div 2) \in Int
           /\ GaugeEnd(h) = 50 + (335 * h) \div MaxHp /\ GaugeEnd(h) \in Int
<1>1. i \in 0 .. 7
  BY Numbers
<1>2. (74 * h) \div MaxHp \in Int /\ (335 * h) \div MaxHp \in Int
  BY Lengths
<1> DEFINE l == (74 * h) \div MaxHp
           g == (335 * h) \div MaxHp
           n == i \div 2
<1>3. n \in 0 .. 3 /\ i % 2 \in {0, 1}
  BY <1>1
<1>4. BarEnd(i, h) = l + n * 80 + n * 5 + IF i % 2 = 0 THEN 8 ELSE 668
  BY DEF BarEnd, Team
<1>5. GaugeEnd(h) = g + 50
  BY DEF GaugeEnd
<1>6. TeamLeft(i % 2, n) = IF i % 2 = 0 THEN n * 85 + 5 ELSE 665 + n * 85
  BY <1>3 DEF TeamLeft
<1> HIDE DEF l, g, n
<1>7. TeamLeft(i % 2, n) \in Int
  BY <1>3, <1>6
<1>8. BarEnd(i, h) = TeamLeft(i % 2, n) + 3 + l
  BY <1>2, <1>3, <1>4, <1>6 DEF l
<1>9. FullBar(i) \in Int \X Int
  BY <1>7 DEF FullBar, n
<1> QED
  BY <1>2, <1>5, <1>7, <1>8, <1>9 DEF l, g, n

LEMMA TypeStep ==
    ASSUME StageTypeOK, [Next]_vars
    PROVE  StageTypeOK'
<1> USE DEF StageTypeOK, world, match, health, buttons, ending
<1>0. CASE UNCHANGED vars
  BY <1>0 DEF vars
<1>1. CASE AllReady
  <2>1. picks' \in [Seats -> {0, 1}] /\ scene' \in Scenes /\ heard' = {} /\ owed' = {}
    BY <1>1 DEF AllReady, Scenes
  <2>2. imageTimer' \in [Kinds -> Int]
    BY <1>1, Numbers DEF AllReady, Off
  <2> QED
    BY <1>1, <2>1, <2>2 DEF AllReady
<1>2. CASE LoadingFrame
  <2>1. bar' \in [Seats -> Int \X Int] /\ gauge' \in Int
    <3>1. \A i \in Seats : FullBar(i) \in Int \X Int
      BY Numbers, BarEndType
    <3> QED
      BY <1>2, <3>1 DEF LoadingFrame, FullGauge
  <2>2. scene' \in Scenes /\ digits' \in [Teams -> SUBSET Nat] /\ DOMAIN skills' = Skills
    BY <1>2 DEF LoadingFrame, Scenes, Teams
  <2> QED
    BY <1>2, <2>1, <2>2 DEF LoadingFrame
<1>3. CASE PutPlayers
  <2>1. hp' \in [Seats -> 0 .. MaxHp]
    BY <1>3, Numbers DEF PutPlayers
  <2>2. scene' \in Scenes /\ digits' \in [Teams -> SUBSET Nat]
    BY <1>3 DEF PutPlayers, Scenes, Teams
  <2> QED
    BY <1>3, <2>1, <2>2 DEF PutPlayers
<1>4. CASE Confirm
  <2>1. isEnding' \in BOOLEAN /\ fallen' \in [Teams -> Nat]
    BY <1>4 DEF Confirm, Teams
  <2> QED
    BY <1>4, <2>1 DEF Confirm
<1>5. CASE Shutdown
  <2>1. scene' \in Scenes /\ isEnding' \in BOOLEAN /\ UNCHANGED picks
    BY <1>5 DEF Shutdown, EndProgram, CrashAtEnd, Scenes
  <2>2. /\ verdicts' \subseteq Kinds /\ heard' \subseteq Kinds /\ keys' \subseteq Skills
        /\ DOMAIN skills' = Skills /\ owed' \subseteq Seats
        /\ astray' \subseteq {"verdict", "death"}
    BY <1>5 DEF Shutdown, Forget
  <2>3. /\ resultTimer' \in Int /\ imageTimer' \in [Kinds -> Int]
        /\ imageCount' \in [Kinds -> Nat] /\ fallen' \in [Teams -> Nat]
        /\ digits' \in [Teams -> SUBSET Nat]
    BY <1>5 DEF Shutdown, Forget, Off, Teams
  <2>4. hp' \in [Seats -> 0 .. MaxHp] /\ bar' \in [Seats -> Int \X Int] /\ gauge' \in Int
    BY <1>5, Numbers DEF Shutdown, Forget
  <2> QED
    BY <2>1, <2>2, <2>3, <2>4
<1>6. ASSUME NEW i \in Seats, Death(i)
      PROVE  StageTypeOK'
  <2>1. Team(i) \in Teams
    BY Numbers DEF Team, Teams
  <2>2. fallen' \in [Teams -> Nat] /\ fallen'[Team(i)] \in Nat
    BY <1>6, <2>1 DEF Death
  <2>3. digits' \in [Teams -> SUBSET Nat]
    <3>1. ShowScore(digits[Team(i)], fallen'[Team(i)]) \in SUBSET Nat
      BY <2>1, <2>2 DEF ShowScore
    <3> QED
      BY <1>6, <2>1, <3>1 DEF Death
  <2>4. hp' \in [Seats -> 0 .. MaxHp]
    BY <1>6, Numbers DEF Death
  <2>5. owed' \subseteq Seats /\ astray' \subseteq {"verdict", "death"}
    BY <1>6 DEF Death
  <2> QED
    BY <1>6, <2>2, <2>3, <2>4, <2>5 DEF Death
<1>7. ASSUME NEW i \in Seats, Respawned(i)
      PROVE  StageTypeOK'
  <2>1. BarEnd(i, MaxHp) \in Int /\ GaugeEnd(MaxHp) \in Int /\ MaxHp \in 0 .. MaxHp
    BY Numbers, BarEndType
  <2>2. hp' \in [Seats -> 0 .. MaxHp]
    BY <1>7, Numbers DEF Respawned
  <2>3. bar' \in [Seats -> Int \X Int]
    <3>1. [bar[i] EXCEPT ![2] = BarEnd(i, MaxHp)] \in Int \X Int
      BY <2>1
    <3>2. bar' = [bar EXCEPT ![i] = [bar[i] EXCEPT ![2] = BarEnd(i, MaxHp)]]
      BY <1>7 DEF Respawned
    <3> QED
      BY <3>1, <3>2
  <2>4. gauge' \in Int
    BY <1>7, <2>1 DEF Respawned
  <2> QED
    BY <1>7, <2>2, <2>3, <2>4 DEF Respawned
<1>8. ASSUME NEW i \in Seats, NEW h \in 0 .. MaxHp, Struck(i, h)
      PROVE  StageTypeOK'
  <2>1. BarEnd(i, h) \in Int /\ GaugeEnd(h) \in Int
    BY BarEndType
  <2>2. hp' \in [Seats -> 0 .. MaxHp]
    BY <1>8 DEF Struck
  <2>3. bar' \in [Seats -> Int \X Int]
    <3>1. [bar[i] EXCEPT ![2] = BarEnd(i, h)] \in Int \X Int
      BY <2>1
    <3>2. bar' = [bar EXCEPT ![i] = [bar[i] EXCEPT ![2] = BarEnd(i, h)]]
      BY <1>8 DEF Struck
    <3> QED
      BY <3>1, <3>2
  <2>4. gauge' \in Int /\ owed' \subseteq Seats
    BY <1>8, <2>1 DEF Struck
  <2> QED
    BY <1>8, <2>2, <2>3, <2>4 DEF Struck
<1>9. ASSUME NEW k \in Kinds, Result(k)
      PROVE  StageTypeOK'
  <2>1. /\ verdicts' \subseteq Kinds /\ heard' \subseteq Kinds
        /\ astray' \subseteq {"verdict", "death"}
    BY <1>9 DEF Result
  <2> QED
    BY <1>9, <2>1 DEF Result
<1>10. ASSUME NEW k \in Skills, Press(k) \/ Release(k)
       PROVE  StageTypeOK'
  <2>1. keys' \subseteq Skills /\ DOMAIN skills' = Skills
    BY <1>10 DEF Press, Release
  <2> QED
    BY <1>10, <2>1 DEF Press, Release
<1>11. ASSUME NEW d \in 1 .. Slow, GameFrame(d)
       PROVE  StageTypeOK'
  <2> DEFINE k == IF "win" \in verdicts THEN "win" ELSE "lose"
  <2>1. k \in Kinds /\ d \in Int /\ Verdict(k, d)
    BY <1>11 DEF GameFrame, Kinds
  <2>2. UNCHANGED <<picks, heard, fallen, digits, hp, bar, gauge, keys, skills, owed, astray>>
    BY <1>11 DEF GameFrame
  <2> HIDE DEF k
  <2>3. scene' \in Scenes /\ isEnding' \in BOOLEAN /\ verdicts' \subseteq Kinds
    BY <2>1 DEF Verdict, End, Scenes
  <2>4. resultTimer' \in Int
    BY <2>1 DEF Verdict, End, Off
  <2>5. imageTimer' \in [Kinds -> Int] /\ imageCount' \in [Kinds -> Nat]
    <3>1. CASE UNCHANGED <<imageTimer, imageCount>>
      BY <3>1
    <3>2. CASE Image(k, d)
      <4>1. imageTimer' \in [Kinds -> Int]
        BY <2>1, <3>2 DEF Image, Off
      <4>2. imageCount' \in [Kinds -> Nat]
        BY <2>1, <3>2 DEF Image
      <4> QED
        BY <4>1, <4>2
    <3> QED
      BY <2>1, <3>1, <3>2 DEF Verdict, End
  <2> QED
    BY <2>2, <2>3, <2>4, <2>5
<1> QED
  BY <1>0, <1>1, <1>2, <1>3, <1>4, <1>5, <1>6, <1>7, <1>8, <1>9, <1>10, <1>11 DEF Next

-----------------------------------------------------------------------------
(* The verdict of a match                                                  *)

\* The table is shown over the lobby; a match begins without a verdict.
NewMatch ==
    /\ isEnding => scene = "LOBBY"
    /\ scene \in {"LOADING", "LOADED"} => heard = {}

\* The flags of a verdict are down outside of a match, and in one only those of
\* the verdict it has been sent are up.
OwnVerdict ==
    "verdict" \notin astray =>
        /\ scene # "GAME" => verdicts = {}
        /\ scene = "GAME" => verdicts \subseteq heard /\ \A j, k \in heard : j = k

VerdictInv == NewMatch /\ OwnVerdict

LEMMA VerdictStep ==
    ASSUME StageTypeOK, VerdictInv, [Next]_vars
    PROVE  VerdictInv'
<1> USE DEF VerdictInv, NewMatch, OwnVerdict, world, match, health, buttons, ending
<1>0. CASE UNCHANGED vars
  BY <1>0 DEF vars
<1>1. CASE AllReady
  BY <1>1 DEF AllReady
<1>2. CASE LoadingFrame
  BY <1>2 DEF LoadingFrame
<1>3. CASE PutPlayers
  BY <1>3 DEF PutPlayers
<1>4. CASE Confirm
  BY <1>4 DEF Confirm
<1>5. CASE Shutdown
  BY <1>5 DEF Shutdown, Forget
<1>6. ASSUME NEW i \in Seats, Death(i)
      PROVE  VerdictInv'
  BY <1>6 DEF Death, InMatch
<1>7. ASSUME NEW i \in Seats, Respawned(i)
      PROVE  VerdictInv'
  BY <1>7 DEF Respawned
<1>8. ASSUME NEW i \in Seats, NEW h \in 0 .. MaxHp, Struck(i, h)
      PROVE  VerdictInv'
  BY <1>8 DEF Struck
<1>9. ASSUME NEW k \in Kinds, Result(k)
      PROVE  VerdictInv'
  <2>1. UNCHANGED <<scene, isEnding>> /\ InMatch
    BY <1>9 DEF Result
  <2>2. scene \notin {"LOADING", "LOADED"}
    BY <2>1 DEF InMatch
  <2>3. CASE scene = "GAME" /\ heard \subseteq {k}
    <3>1. heard' = {k} /\ verdicts' = verdicts \cup {k} /\ astray' = astray
      BY <1>9, <2>3 DEF Result
    <3> QED
      BY <2>1, <2>2, <2>3, <3>1
  <2>4. CASE ~(scene = "GAME" /\ heard \subseteq {k})
    <3>1. "verdict" \in astray'
      BY <1>9, <2>4 DEF Result
    <3> QED
      BY <2>1, <2>2, <3>1
  <2> QED
    BY <2>3, <2>4
<1>10. ASSUME NEW k \in Skills, Press(k) \/ Release(k)
       PROVE  VerdictInv'
  BY <1>10 DEF Press, Release
<1>11. ASSUME NEW d \in 1 .. Slow, GameFrame(d)
       PROVE  VerdictInv'
  <2> DEFINE k == IF "win" \in verdicts THEN "win" ELSE "lose"
  <2>1. /\ scene = "GAME" /\ UNCHANGED <<heard, astray>> /\ Verdict(k, d)
        /\ k \in verdicts
    BY <1>11 DEF GameFrame, StageTypeOK, Kinds
  <2> HIDE DEF k
  <2>2. CASE UNCHANGED <<scene, isEnding, verdicts>>
    BY <2>1, <2>2
  <2>3. CASE End(k)
    <3>1. scene' = "LOBBY" /\ isEnding' /\ verdicts' = verdicts \ {k}
      BY <2>3 DEF End
    <3>2. "verdict" \notin astray => verdicts' = {}
      BY <2>1, <3>1
    <3> QED
      BY <2>1, <3>1, <3>2
  <2> QED
    BY <2>1, <2>2, <2>3 DEF Verdict
<1> QED
  BY <1>0, <1>1, <1>2, <1>3, <1>4, <1>5, <1>6, <1>7, <1>8, <1>9, <1>10, <1>11 DEF Next

LEMMA VerdictsKept == Spec => [](StageTypeOK /\ VerdictInv)
<1>1. Init => StageTypeOK /\ VerdictInv
  BY TypeInit DEF Init, VerdictInv, NewMatch, OwnVerdict
<1>2. StageTypeOK /\ VerdictInv /\ [Next]_vars => (StageTypeOK /\ VerdictInv)'
  BY TypeStep, VerdictStep
<1> QED
  BY <1>1, <1>2, PTL DEF Spec

\* CGameFramework::FrameAdvance (GameFramework.cpp:734-869) goes to the table
\* five seconds after a flag was raised: the flag was raised by the SC_RESULT of
\* this match, unless one that no match waited for has come before.
THEOREM EndsByVerdict == Spec => EndsByItsVerdict
<1> DEFINE Just == scene = "GAME" /\ isEnding' => heard # {} \/ "verdict" \in astray
<1>1. StageTypeOK /\ VerdictInv /\ [Next]_vars => [Just]_vars
  <2> SUFFICES ASSUME StageTypeOK, VerdictInv, [Next]_vars, scene = "GAME", isEnding',
                      "verdict" \notin astray
               PROVE  heard # {}
    BY DEF Just
  <2> USE DEF world, match, health, buttons, ending
  <2>1. ~isEnding
    BY DEF VerdictInv, NewMatch
  <2>2. \E d \in 1 .. Slow : GameFrame(d)
    BY <2>1 DEF Next, vars, AllReady, LoadingFrame, PutPlayers, Confirm, Shutdown, Death,
                Respawned, Struck, Result, Press, Release
  <2>3. verdicts # {} /\ verdicts \subseteq heard
    BY <2>2 DEF GameFrame, VerdictInv, OwnVerdict
  <2> QED
    BY <2>3
<1>2. Spec => [][Just]_vars
  BY <1>1, VerdictsKept, PTL DEF Spec
<1> QED
  BY <1>2 DEF EndsByItsVerdict, Just

-----------------------------------------------------------------------------
(* The score                                                               *)

\* New pictures show no digit.  Before a match nobody has fallen in it, and in
\* it one digit of each team is shown; a death that came late is the exception.
ScoreInv ==
    /\ scene = "LOADED" => \A t \in Teams : digits[t] = {}
    /\ "death" \notin astray =>
           /\ scene \in {"LOADING", "LOADED"} \/ (scene = "LOBBY" /\ ~isEnding) =>
                 \A t \in Teams : fallen[t] = 0
           /\ scene = "GAME" => \A t \in Teams : digits[t] = {fallen[t]}

LEMMA ScoreStep ==
    ASSUME StageTypeOK, NewMatch, ScoreInv, [Next]_vars
    PROVE  ScoreInv'
<1> USE DEF ScoreInv, NewMatch, world, match, health, buttons, ending
<1>0. CASE UNCHANGED vars
  BY <1>0 DEF vars
<1>1. CASE AllReady
  BY <1>1 DEF AllReady
<1>2. CASE LoadingFrame
  <2>1. \A t \in Teams : digits'[t] = {}
    BY <1>2 DEF LoadingFrame, Teams
  <2> QED
    BY <1>2, <2>1 DEF LoadingFrame
<1>3. CASE PutPlayers
  <2>1. scene = "LOADED" /\ scene' = "GAME" /\ UNCHANGED <<fallen, astray>>
    BY <1>3 DEF PutPlayers
  <2>2. \A t \in Teams : digits'[t] = {0}
    BY <1>3, <2>1 DEF PutPlayers, Teams
  <2>3. "death" \notin astray => \A t \in Teams : fallen[t] = 0
    BY <2>1
  <2> QED
    BY <2>1, <2>2, <2>3
<1>4. CASE Confirm
  <2>1. /\ scene' = "LOBBY" /\ UNCHANGED <<digits, astray>>
        /\ \A t \in Teams : fallen'[t] = 0
    BY <1>4 DEF Confirm, Teams
  <2> QED
    BY <2>1
<1>5. CASE Shutdown
  BY <1>5 DEF Shutdown, EndProgram, CrashAtEnd
<1>6. ASSUME NEW i \in Seats, Death(i)
      PROVE  ScoreInv'
  <2>1. Team(i) \in Teams
    BY Numbers DEF Team, Teams
  <2>2. /\ fallen' = [fallen EXCEPT ![Team(i)] = fallen[Team(i)] + 1]
        /\ digits' = [digits EXCEPT
                         ![Team(i)] = ShowScore(digits[Team(i)], fallen'[Team(i)])]
        /\ UNCHANGED <<scene, isEnding>>
        /\ astray' = IF InMatch THEN astray ELSE astray \cup {"death"}
    BY <1>6 DEF Death
  <2>3. CASE ~InMatch
    <3>1. scene = "LOBBY" /\ "death" \in astray'
      BY <1>6, <2>2, <2>3 DEF Death
    <3> QED
      BY <2>2, <3>1
  <2>4. CASE isEnding
    BY <2>2, <2>4
  <2>5. CASE scene = "GAME"
    <3>1. astray' = astray
      BY <2>2, <2>5 DEF InMatch
    <3>2. SUFFICES ASSUME "death" \notin astray, NEW t \in Teams
                   PROVE  digits'[t] = {fallen'[t]}
      BY <2>2, <2>5, <3>1
    <3>3. digits[t] = {fallen[t]} /\ fallen[t] \in Nat
      BY <2>5, <3>2 DEF StageTypeOK
    <3>4. CASE t = Team(i)
      <4>1. fallen'[t] = fallen[t] + 1 /\ digits'[t] = ShowScore(digits[t], fallen'[t])
        BY <2>1, <2>2, <3>4 DEF StageTypeOK
      <4> QED
        BY <3>3, <4>1 DEF ShowScore
    <3>5. CASE t # Team(i)
      BY <2>1, <2>2, <3>3, <3>5 DEF StageTypeOK
    <3> QED
      BY <3>4, <3>5
  <2> QED
    BY <2>3, <2>4, <2>5 DEF InMatch
<1>7. ASSUME NEW i \in Seats, Respawned(i)
      PROVE  ScoreInv'
  BY <1>7 DEF Respawned
<1>8. ASSUME NEW i \in Seats, NEW h \in 0 .. MaxHp, Struck(i, h)
      PROVE  ScoreInv'
  BY <1>8 DEF Struck
<1>9. ASSUME NEW k \in Kinds, Result(k)
      PROVE  ScoreInv'
  <2>1. /\ UNCHANGED <<scene, isEnding, digits, fallen>>
        /\ "death" \notin astray' => "death" \notin astray
    BY <1>9 DEF Result
  <2> QED
    BY <2>1
<1>10. ASSUME NEW k \in Skills, Press(k) \/ Release(k)
       PROVE  ScoreInv'
  BY <1>10 DEF Press, Release
<1>11. ASSUME NEW d \in 1 .. Slow, GameFrame(d)
       PROVE  ScoreInv'
  <2>1. /\ scene = "GAME" /\ UNCHANGED <<fallen, digits, astray>>
        /\ (scene' = "LOBBY" /\ isEnding') \/ UNCHANGED <<scene, isEnding>>
    BY <1>11 DEF GameFrame, Verdict, End
  <2> QED
    BY <2>1
<1> QED
  BY <1>0, <1>1, <1>2, <1>3, <1>4, <1>5, <1>6, <1>7, <1>8, <1>9, <1>10, <1>11 DEF Next

-----------------------------------------------------------------------------
(* Bars of health and the pictures of the skills                           *)

\* The left end of a bar, and both ends for the health h
Left(i) == TeamLeft(i % 2, i \div 2) + 3
TrueBar(i, h) == <<Left(i), Left(i) + (74 * h) \div MaxHp>>

\* A match begins with full bars, and they follow the health.  No bar is ever
\* longer than a full one.
BarInv ==
    /\ scene = "LOADED" => gauge = FullGauge /\ \A i \in Seats : bar[i] = FullBar(i)
    /\ scene = "GAME" =>
           /\ gauge <= FullGauge
           /\ \A i \in Seats : bar[i][1] = Left(i) /\ bar[i][2] <= Left(i) + 74
           /\ \A i \in Playing \ owed :
                  /\ bar[i] = TrueBar(i, hp[i])
                  /\ i = Mine => gauge = GaugeEnd(hp[i])

LEMMA BarsTrue == StageTypeOK /\ BarInv => BarsShowHp
<1> SUFFICES ASSUME StageTypeOK, BarInv, scene = "GAME", NEW i \in Playing \ owed
             PROVE  LET left == Portrait(i, picks[i]).left + 3 IN
                    /\ bar[i] = <<left, left + (74 * hp[i]) \div MaxHp>>
                    /\ i = Mine => gauge = 50 + (335 * hp[i]) \div MaxHp
  BY DEF BarsShowHp
<1>1. i \in Seats /\ hp[i] \in 0 .. MaxHp
  BY DEF Playing, StageTypeOK
<1>2. Portrait(i, picks[i]).left = TeamLeft(i % 2, i \div 2)
  BY DEF Portrait, Picture
<1>3. GaugeEnd(hp[i]) = 50 + (335 * hp[i]) \div MaxHp
  BY <1>1, BarEndType
<1> QED
  BY <1>2, <1>3 DEF BarInv, TrueBar, Left

LEMMA LeftType ==
    ASSUME NEW i \in Seats
    PROVE  TeamLeft(i % 2, i \div 2) \in Int /\ Left(i) \in Int
<1>1. 0 \in 0 .. MaxHp
  BY Numbers
<1>2. TeamLeft(i % 2, i \div 2) \in Int
  BY <1>1, BarEndType
<1> QED
  BY <1>2 DEF Left

LEMMA FullIsTrue ==
    ASSUME NEW i \in Seats
    PROVE  FullBar(i) = TrueBar(i, MaxHp) /\ FullGauge = GaugeEnd(MaxHp)
<1>0. MaxHp \in 0 .. MaxHp
  BY Numbers
<1>1. MaxHp \in 0 .. MaxHp /\ TeamLeft(i % 2, i \div 2) \in Int
  BY <1>0, BarEndType
<1>2. (74 * MaxHp) \div MaxHp = 74 /\ (335 * MaxHp) \div MaxHp = 335
  BY <1>1, Lengths
<1>3. GaugeEnd(MaxHp) = 385
  BY <1>1, <1>2, BarEndType
<1> QED
  BY <1>1, <1>2, <1>3 DEF FullBar, TrueBar, Left, FullGauge

\* A message about player i with the health h moves the end of the bar to its place.
LEMMA BarMoves ==
    ASSUME StageTypeOK, BarInv, scene = "GAME", NEW i \in Seats, NEW h \in 0 .. MaxHp,
           UNCHANGED <<scene, picks>>, owed' = owed \ {i},
           hp' = [hp EXCEPT ![i] = h],
           bar' = [bar EXCEPT ![i] = [bar[i] EXCEPT ![2] = BarEnd(i, h)]],
           gauge' = IF i = Mine THEN GaugeEnd(h) ELSE gauge
    PROVE  BarInv'
<1> SUFFICES ASSUME NEW j \in Seats
             PROVE  /\ gauge' <= FullGauge
                    /\ bar'[j][1] = Left(j) /\ bar'[j][2] <= Left(j) + 74
                    /\ j \in (Playing \ owed)' =>
                          /\ bar'[j] = TrueBar(j, hp'[j])
                          /\ j = Mine => gauge' = GaugeEnd(hp'[j])
  BY DEF BarInv, Playing
<1>1. j \in (Playing \ owed)' => j \in Playing /\ (j = i \/ j \notin owed)
  BY DEF Playing
<1>0. gauge' <= FullGauge
  <2>1. gauge <= FullGauge /\ FullGauge = 385
    BY DEF BarInv, FullGauge
  <2>2. GaugeEnd(h) <= 385
    <3>1. (335 * h) \div MaxHp \in 0 .. 335
      BY Lengths
    <3> QED
      BY <3>1, BarEndType
  <2> QED
    BY <2>1, <2>2
<1>2. CASE j = i
  <2>1. bar'[i] = [bar[i] EXCEPT ![2] = BarEnd(i, h)] /\ hp'[i] = h
    BY DEF StageTypeOK
  <2>2. bar[i] \in Int \X Int /\ bar[i][1] = Left(i)
    BY DEF StageTypeOK, BarInv
  <2>3. bar'[i] = <<Left(i), BarEnd(i, h)>>
    BY <2>1, <2>2
  <2>4. BarEnd(i, h) = Left(i) + (74 * h) \div MaxHp
    BY BarEndType DEF Left
  <2>5. BarEnd(i, h) <= Left(i) + 74
    <3>1. (74 * h) \div MaxHp \in 0 .. 74 /\ Left(i) \in Int
      BY Lengths, BarEndType DEF Left
    <3> QED
      BY <2>4, <3>1
  <2> QED
    BY <1>0, <1>2, <2>1, <2>3, <2>4, <2>5 DEF TrueBar
<1>3. CASE j # i
  <2>1. bar'[j] = bar[j] /\ hp'[j] = hp[j]
    BY <1>3 DEF StageTypeOK
  <2>2. j = Mine => gauge' = gauge
    BY <1>3
  <2>3. j \in (Playing \ owed)' => j \in Playing \ owed
    BY <1>1, <1>3
  <2> QED
    BY <1>0, <2>1, <2>2, <2>3 DEF BarInv
<1> QED
  BY <1>2, <1>3

LEMMA BarStep ==
    ASSUME StageTypeOK, NewMatch, BarInv, [Next]_vars
    PROVE  BarInv'
<1> USE DEF world, match, health, buttons, ending
<1> DEFINE Unmoved == UNCHANGED <<scene, picks, owed, hp, bar, gauge>>
<1>a. Unmoved => BarInv'
  BY DEF BarInv, Playing
<1>b. scene' \notin {"LOADED", "GAME"} => BarInv'
  BY DEF BarInv
<1> HIDE DEF Unmoved
<1>0. CASE UNCHANGED vars
  BY <1>0, <1>a DEF vars, Unmoved
<1>1. CASE AllReady
  BY <1>1, <1>b DEF AllReady
<1>2. CASE LoadingFrame
  <2>1. scene' = "LOADED" /\ gauge' = FullGauge
    BY <1>2 DEF LoadingFrame
  <2>2. \A i \in Seats : bar'[i] = FullBar(i)
    BY <1>2 DEF LoadingFrame
  <2> QED
    BY <2>1, <2>2 DEF BarInv
<1>3. CASE PutPlayers
  <2>1. scene = "LOADED" /\ scene' = "GAME" /\ UNCHANGED <<picks, owed, bar, gauge>>
    BY <1>3 DEF PutPlayers
  <2>2. hp' = [i \in Seats |-> IF i \in Playing THEN MaxHp ELSE hp[i]]
    BY <1>3 DEF PutPlayers
  <2>3. ASSUME NEW i \in Seats
        PROVE  /\ bar'[i] = TrueBar(i, MaxHp)
               /\ bar'[i][1] = Left(i) /\ bar'[i][2] <= Left(i) + 74
               /\ gauge' = GaugeEnd(MaxHp) /\ gauge' <= FullGauge
    <3>1. bar[i] = FullBar(i) /\ gauge = FullGauge
      BY <2>1 DEF BarInv
    <3>2. /\ bar'[i] = <<Left(i), TeamLeft(i % 2, i \div 2) + 80 - 3>>
          /\ TeamLeft(i % 2, i \div 2) \in Int
      BY <2>1, <3>1, LeftType DEF FullBar, Left
    <3>3. bar'[i][2] <= Left(i) + 74
      BY <3>2 DEF Left
    <3> QED
      BY <2>1, <3>1, <3>2, <3>3, FullIsTrue DEF TrueBar, FullGauge
  <2>4. \A i \in Playing' : i \in Seats /\ hp'[i] = MaxHp
    BY <2>1, <2>2 DEF Playing
  <2> QED
    BY <2>1, <2>3, <2>4, Numbers DEF BarInv
<1>4. CASE Confirm
  <2>1. scene' = "LOBBY"
    BY <1>4 DEF Confirm, NewMatch
  <2> QED
    BY <2>1, <1>b
<1>5. CASE Shutdown
  BY <1>5, <1>b DEF Shutdown, EndProgram, CrashAtEnd
<1>6. ASSUME NEW i \in Seats, Death(i)
      PROVE  BarInv'
  <2>1. /\ UNCHANGED <<scene, picks, bar, gauge>>
        /\ hp' = [hp EXCEPT ![i] = 0]
        /\ owed' = IF InMatch THEN owed \cup {i} ELSE owed
    BY <1>6 DEF Death
  <2>2. CASE scene = "GAME"
    <3>1. owed' = owed \cup {i}
      BY <2>1, <2>2 DEF InMatch
    <3>2. \A j \in (Playing \ owed)' : j \in Playing \ owed /\ hp'[j] = hp[j]
      BY <2>1, <3>1 DEF Playing, StageTypeOK
    <3> QED
      BY <2>1, <2>2, <3>2 DEF BarInv
  <2>3. CASE scene # "GAME"
    <3>1. scene' \notin {"LOADED", "GAME"}
      BY <1>6, <2>1, <2>3 DEF Death, InMatch, NewMatch
    <3> QED
      BY <3>1, <1>b
  <2> QED
    BY <2>2, <2>3
<1>7. ASSUME NEW i \in Seats, Respawned(i)
      PROVE  BarInv'
  <2>1. /\ UNCHANGED <<scene, picks>> /\ hp' = [hp EXCEPT ![i] = MaxHp]
        /\ bar' = [bar EXCEPT ![i] = [bar[i] EXCEPT ![2] = BarEnd(i, MaxHp)]]
        /\ gauge' = IF i = Mine THEN GaugeEnd(MaxHp) ELSE gauge
        /\ owed' = owed \ {i}
    BY <1>7 DEF Respawned
  <2>2. CASE scene = "GAME"
    <3>1. MaxHp \in 0 .. MaxHp
      BY Numbers
    <3> QED
      BY <2>1, <2>2, <3>1, BarMoves
  <2>3. CASE scene # "GAME"
    BY <1>7, <1>b, <2>1, <2>3 DEF Respawned, InMatch, NewMatch
  <2> QED
    BY <2>2, <2>3
<1>8. ASSUME NEW i \in Seats, NEW h \in 0 .. MaxHp, Struck(i, h)
      PROVE  BarInv'
  <2>1. /\ UNCHANGED <<scene, picks>> /\ hp' = [hp EXCEPT ![i] = h]
        /\ bar' = [bar EXCEPT ![i] = [bar[i] EXCEPT ![2] = BarEnd(i, h)]]
        /\ gauge' = IF i = Mine THEN GaugeEnd(h) ELSE gauge
        /\ owed' = owed \ {i}
    BY <1>8 DEF Struck
  <2>2. CASE scene = "GAME"
    BY <2>1, <2>2, BarMoves
  <2>3. CASE scene # "GAME"
    BY <1>8, <1>b, <2>1, <2>3 DEF Struck, InMatch, NewMatch
  <2> QED
    BY <2>2, <2>3
<1>9. ASSUME NEW k \in Kinds, Result(k)
      PROVE  BarInv'
  BY <1>9, <1>a DEF Result, Unmoved
<1>10. ASSUME NEW k \in Skills, Press(k) \/ Release(k)
       PROVE  BarInv'
  BY <1>10, <1>a DEF Press, Release, Unmoved
<1>11. ASSUME NEW d \in 1 .. Slow, GameFrame(d)
       PROVE  BarInv'
  <2>1. UNCHANGED <<picks, owed, hp, bar, gauge>> /\ scene' \in {"LOBBY", scene}
    BY <1>11 DEF GameFrame, Verdict, End
  <2> QED
    BY <2>1, <1>a, <1>b DEF Unmoved
<1> QED
  BY <1>0, <1>1, <1>2, <1>3, <1>4, <1>5, <1>6, <1>7, <1>8, <1>9, <1>10, <1>11 DEF Next

\* A key that is down has its picture for that, one that is up the other one, as
\* soon as it has been moved in this match.
SkillInv ==
    \A k \in Skills :
        \/ Idle(skills[k])
        \/ k \in keys /\ Down(skills[k])
        \/ k \notin keys /\ Up(k, skills[k])

LEMMA SkillStep ==
    ASSUME StageTypeOK, SkillInv, [Next]_vars
    PROVE  SkillInv'
<1> USE DEF world, match, health, buttons, ending
<1>0. UNCHANGED <<keys, skills>> => SkillInv'
  BY DEF SkillInv
<1>1. (skills' = [k \in Skills |-> NewSkill]) => SkillInv'
  BY DEF SkillInv, Idle
<1>2. ASSUME NEW k \in Skills, Press(k)
      PROVE  SkillInv'
  <2>1. skills' = [skills EXCEPT ![k] = SkillPressed(k, skills[k])] /\ keys' = keys \cup {k}
    BY <1>2 DEF Press
  <2>2. Down(skills'[k])
    BY <2>1 DEF StageTypeOK, SkillPressed, Down
  <2>3. \A j \in Skills : j # k => skills'[j] = skills[j] /\ (j \in keys' <=> j \in keys)
    BY <2>1 DEF StageTypeOK
  <2> QED
    BY <2>1, <2>2, <2>3 DEF SkillInv
<1>3. ASSUME NEW k \in Skills, Release(k)
      PROVE  SkillInv'
  <2>1. /\ skills' = [skills EXCEPT ![k] = SkillReleased(k, skills[k])] /\ keys' = keys \ {k}
        /\ k \in keys
    BY <1>3 DEF Release
  <2>2. skills[k].down \in {Away, 3}
    BY <2>1 DEF SkillInv, Idle, Down, NewSkill
  <2>3. Up(k, skills'[k])
    BY <2>1, <2>2 DEF StageTypeOK, SkillReleased, Up
  <2>4. \A j \in Skills : j # k => skills'[j] = skills[j] /\ (j \in keys' <=> j \in keys)
    BY <2>1 DEF StageTypeOK
  <2> QED
    BY <2>1, <2>3, <2>4 DEF SkillInv
<1>4. \/ UNCHANGED <<keys, skills>> \/ skills' = [k \in Skills |-> NewSkill]
      \/ \E k \in Skills : Press(k) \/ Release(k)
  <2>1. CASE UNCHANGED vars
    BY <2>1 DEF vars
  <2>2. CASE Next
    BY <2>2 DEF Next, AllReady, LoadingFrame, PutPlayers, Confirm, Shutdown, Forget, Death,
                Respawned, Struck, Result, GameFrame
  <2> QED
    BY <2>1, <2>2
<1> QED
  BY <1>0, <1>1, <1>2, <1>3, <1>4

-----------------------------------------------------------------------------
(* The pictures of a verdict                                               *)

\* The verdict whose animation runs
Kind == IF "win" \in verdicts THEN "win" ELSE "lose"

\* As long as a match has no verdict, or one of its own, the last picture of its
\* animation is the only one on the screen.
ShownInv ==
    /\ scene = "LOADED" => shown = {}
    /\ scene = "GAME" /\ (heard = {} \/ "verdict" \notin astray) =>
           /\ verdicts = {} => shown = {}
           /\ shown \subseteq {<<Kind, imageCount[Kind] - 1>>}

LEMMA ShownStep ==
    ASSUME StageTypeOK, VerdictInv, ShownInv, [Next]_vars
    PROVE  ShownInv'
<1> USE DEF world, match, health, buttons, ending
<1>a. UNCHANGED <<scene, heard, astray, verdicts, shown, imageCount>> => ShownInv'
  BY DEF ShownInv, Kind
<1>b. scene' \notin {"LOADED", "GAME"} => ShownInv'
  BY DEF ShownInv
<1>0. CASE UNCHANGED vars
  BY <1>0, <1>a DEF vars
<1>1. CASE AllReady \/ Shutdown
  BY <1>1, <1>b DEF AllReady, Shutdown, EndProgram, CrashAtEnd
<1>2. CASE LoadingFrame
  BY <1>2 DEF LoadingFrame, ShownInv
<1>3. CASE PutPlayers
  BY <1>3 DEF PutPlayers, ShownInv
<1>4. CASE Confirm
  BY <1>4, <1>a DEF Confirm
<1>6. ASSUME NEW i \in Seats, Death(i)
      PROVE  ShownInv'
  <2>1. /\ UNCHANGED <<scene, heard, verdicts, shown, imageCount>>
        /\ "verdict" \in astray' <=> "verdict" \in astray
    BY <1>6 DEF Death
  <2> QED
    BY <2>1 DEF ShownInv, Kind
<1>7. ASSUME NEW i \in Seats, Respawned(i)
      PROVE  ShownInv'
  BY <1>7, <1>a DEF Respawned
<1>8. ASSUME NEW i \in Seats, NEW h \in 0 .. MaxHp, Struck(i, h)
      PROVE  ShownInv'
  BY <1>8, <1>a DEF Struck
<1>9. ASSUME NEW k \in Kinds, Result(k)
      PROVE  ShownInv'
  <2>1. /\ UNCHANGED <<scene, shown, imageCount>>
        /\ heard' = heard \cup {k} /\ verdicts' = verdicts \cup {k}
    BY <1>9 DEF Result
  <2>2. CASE scene = "GAME" /\ heard \subseteq {k} /\ "verdict" \notin astray
    <3>1. verdicts \subseteq {k}
      BY <2>2 DEF VerdictInv, OwnVerdict
    <3>2. CASE verdicts = {}
      <4>1. shown' = {}
        BY <2>1, <2>2, <3>2 DEF ShownInv, VerdictInv, OwnVerdict
      <4> QED
        BY <2>1, <2>2, <4>1 DEF ShownInv
    <3>3. CASE verdicts = {k}
      <4>1. verdicts' = verdicts
        BY <2>1, <3>3
      <4> QED
        BY <2>1, <2>2, <4>1 DEF ShownInv, Kind
    <3> QED
      BY <3>1, <3>2, <3>3
  <2>3. CASE ~(scene = "GAME" /\ heard \subseteq {k} /\ "verdict" \notin astray)
    <3>1. "verdict" \in astray'
      BY <1>9, <2>3 DEF Result
    <3>2. scene # "LOADED"
      BY <1>9 DEF Result, InMatch, VerdictInv, NewMatch
    <3> QED
      BY <2>1, <3>1, <3>2 DEF ShownInv
  <2> QED
    BY <2>2, <2>3
<1>10. ASSUME NEW k \in Skills, Press(k) \/ Release(k)
       PROVE  ShownInv'
  BY <1>10, <1>a DEF Press, Release
<1>11. ASSUME NEW d \in 1 .. Slow, GameFrame(d)
       PROVE  ShownInv'
  <2>1. /\ scene = "GAME" /\ verdicts # {} /\ Verdict(Kind, d)
        /\ UNCHANGED <<heard, astray>>
    BY <1>11 DEF GameFrame, Kind
  <2>2. CASE UNCHANGED <<scene, verdicts, shown, imageCount>>
    BY <2>1, <2>2, <1>a
  <2>3. CASE scene' = "LOBBY"
    BY <2>3, <1>b
  <2>4. CASE /\ UNCHANGED <<scene, verdicts>>
             /\ imageCount' = [imageCount EXCEPT
                    ![Kind] = IF imageCount[Kind] < Pictures(Kind)
                              THEN imageCount[Kind] + 1 ELSE imageCount[Kind]]
             /\ shown' = ShowPicture(Kind, imageCount[Kind])
    <3> DEFINE n == imageCount[Kind]
               p == Pictures(Kind)
    <3>1. Kind' = Kind /\ Kind \in Kinds
      BY <2>4 DEF Kind, Kinds
    <3>2. n \in Nat /\ p \in Nat
      BY <3>1, Numbers DEF StageTypeOK, Pictures
    <3>3. imageCount'[Kind] = IF n < p THEN n + 1 ELSE n
      BY <2>4, <3>1 DEF StageTypeOK
    <3>4. SUFFICES ASSUME heard = {} \/ "verdict" \notin astray
                   PROVE  shown' \subseteq {<<Kind, imageCount'[Kind] - 1>>}
      BY <2>1, <2>4, <3>1 DEF ShownInv
    <3>5. shown \subseteq {<<Kind, n - 1>>}
      BY <2>1, <3>4 DEF ShownInv
    <3>6. CASE n < p
      <4>1. shown' = {<<Kind, n>>}
        BY <2>4, <3>5, <3>6 DEF ShowPicture
      <4>2. imageCount'[Kind] - 1 = n
        BY <3>2, <3>3, <3>6
      <4> QED
        BY <4>1, <4>2
    <3>7. CASE ~(n < p)
      BY <2>4, <3>3, <3>5, <3>7 DEF ShowPicture
    <3> QED
      BY <3>6, <3>7
  <2> QED
    BY <2>1, <2>2, <2>3, <2>4 DEF Verdict, End, Image
<1> QED
  BY <1>0, <1>1, <1>2, <1>3, <1>4, <1>6, <1>7, <1>8, <1>9, <1>10, <1>11 DEF Next

-----------------------------------------------------------------------------
(* The invariant                                                           *)

StageInv ==
    /\ StageTypeOK /\ VerdictInv /\ ScoreInv /\ BarInv /\ SkillInv /\ ShownInv

LEMMA StageInvHolds == Spec => []StageInv
<1>1. Init => StageInv
  <2> SUFFICES ASSUME Init PROVE StageInv
    OBVIOUS
  <2>1. VerdictInv
    BY DEF Init, VerdictInv, NewMatch, OwnVerdict
  <2>2. ScoreInv
    BY DEF Init, ScoreInv, Teams
  <2>3. BarInv /\ ShownInv
    BY DEF Init, BarInv, ShownInv
  <2>4. SkillInv
    BY DEF Init, SkillInv, Idle
  <2> QED
    BY <2>1, <2>2, <2>3, <2>4, TypeInit DEF StageInv
<1>2. StageInv /\ [Next]_vars => StageInv'
  BY TypeStep, VerdictStep, ScoreStep, BarStep, SkillStep, ShownStep
     DEF StageInv, VerdictInv
<1> QED
  BY <1>1, <1>2, PTL DEF Spec

-----------------------------------------------------------------------------
(* What is drawn over the game                                             *)

\* The sequence SetToSeq lists a set without repetition.
LEMMA SetToSeqLists ==
    ASSUME NEW S, IsFiniteSet(S)
    PROVE  /\ Cardinality(S) \in Nat /\ DOMAIN SetToSeq(S) = 1 .. Cardinality(S)
           /\ SetToSeq(S) \in Seq(S)
           /\ \A i, j \in DOMAIN SetToSeq(S) : SetToSeq(S)[i] = SetToSeq(S)[j] => i = j
           /\ \A k \in S : \E i \in DOMAIN SetToSeq(S) : SetToSeq(S)[i] = k
<1> DEFINE n == Cardinality(S)
<1>1. n \in Nat /\ ExistsBijection(1 .. n, S)
  BY FS_CardinalityType
<1>2. PICK f \in Bijection(1 .. n, S) : TRUE
  BY <1>1 DEF ExistsBijection
<1>3. f \in [1 .. n -> S] /\ IsInjective(f)
  BY <1>2 DEF Bijection, Injection, IsInjective
<1>4. SetToSeq(S) \in [1 .. n -> S] /\ IsInjective(SetToSeq(S))
  BY <1>3 DEF SetToSeq
<1>5. SetToSeq(S) \in Injection(1 .. n, S)
  BY <1>4 DEF Injection, IsInjective
<1>6. Cardinality(1 .. n) = n
  BY <1>1, FS_Interval
<1>7. SetToSeq(S) \in Surjection(1 .. n, S)
  BY <1>5, <1>6, FS_Injection
<1>8. SetToSeq(S) \in Seq(S)
  BY <1>1, <1>4
<1> QED
  BY <1>1, <1>4, <1>7, <1>8 DEF IsInjective, Surjection

\* q may be drawn after p: it is in front, or apart, or p's other picture of a
\* skill.
Fine(p, q) == Hides(p, q) => p.left = q.left /\ q \in SkillPictures
Clear(ps) == \A i, j \in DOMAIN ps : i < j => Fine(ps[i], ps[j])

LEMMA JoinClear ==
    ASSUME NEW S, NEW T, NEW s \in Seq(S), NEW t \in Seq(T), Clear(s), Clear(t),
           \A p \in S, q \in T : Fine(p, q)
    PROVE  s \o t \in Seq(S \cup T) /\ Clear(s \o t)
<1> DEFINE u == s \o t
<1>1. /\ Len(s) \in Nat /\ Len(t) \in Nat
      /\ DOMAIN s = 1 .. Len(s) /\ DOMAIN t = 1 .. Len(t)
      /\ DOMAIN u = 1 .. Len(s) + Len(t)
  OBVIOUS
<1>2. \A i \in DOMAIN s : u[i] = s[i] /\ u[i] \in S
  OBVIOUS
<1>3. \A i \in DOMAIN u : i \notin DOMAIN s =>
          i - Len(s) \in DOMAIN t /\ u[i] = t[i - Len(s)] /\ u[i] \in T
  OBVIOUS
<1>4. u \in Seq(S \cup T)
  <2>1. \A i \in 1 .. Len(s) + Len(t) : u[i] \in S \cup T
    BY <1>1, <1>2, <1>3
  <2> QED
    BY <1>1, <2>1
<1>5. ASSUME NEW i \in DOMAIN u, NEW j \in DOMAIN u, i < j
      PROVE  Fine(u[i], u[j])
  <2>1. CASE j \in DOMAIN s
    <3>1. i \in DOMAIN s
      BY <1>1, <1>5, <2>1
    <3> QED
      BY <1>2, <1>5, <2>1, <3>1 DEF Clear
  <2>2. CASE i \in DOMAIN s /\ j \notin DOMAIN s
    BY <1>2, <1>3, <2>2
  <2>3. CASE i \notin DOMAIN s
    <3>1. j \notin DOMAIN s
      BY <1>1, <1>5, <2>3
    <3>2. i - Len(s) < j - Len(s)
      BY <1>1, <1>5
    <3> QED
      BY <1>3, <2>3, <3>1, <3>2 DEF Clear
  <2> QED
    BY <2>1, <2>2, <2>3
<1> QED
  BY <1>4, <1>5 DEF Clear

\* The parts of what is drawn
Listed(S, f) == [i \in DOMAIN SetToSeq(S) |-> f[SetToSeq(S)[i]]]
Own == <<HpBar, Gauge(gauge)>>
Ups == Listed(Skills, [k \in Skills |-> SkillUp(k, skills[k].up)])
Downs == Listed(Skills, [k \in Skills |-> SkillDown(k, skills[k].down)])
Score(t, place) == Listed(digits[t], [n \in digits[t] |-> Digit(place, n)])
Portraits == Listed(Seats, [i \in Seats |-> Portrait(i, picks[i])])
Edges == [k \in 1 .. 8 |-> Edge(k - 1)]
Bars == Listed(Seats, [i \in Seats |-> Bar(i, bar[i])])
Verdicts == Listed(shown, [v \in shown |-> VerdictPicture(v)])

LEMMA RenderParts ==
    ASSUME \A t \in Teams : IsFiniteSet(digits[t]), IsFiniteSet(shown)
    PROVE  Render = Own \o Ups \o Downs \o <<ScoreBoard>> \o Score(1, "left")
                        \o Score(0, "right") \o Portraits \o Edges \o Bars \o Ups \o Downs
                        \o Verdicts \o <<Veil(IF heard = {} THEN Away ELSE 2)>>
<1>1. ASSUME NEW S, IsFiniteSet(S)
      PROVE  \A i \in DOMAIN SetToSeq(S) : SetToSeq(S)[i] \in S
  BY <1>1, SetToSeqLists
<1>2. InOrder(Skills, LAMBDA k : SkillUp(k, skills[k].up)) = Ups
  BY <1>1, Numbers DEF InOrder, Ups, Listed
<1>3. InOrder(Skills, LAMBDA k : SkillDown(k, skills[k].down)) = Downs
  BY <1>1, Numbers DEF InOrder, Downs, Listed
<1>4. /\ InOrder(digits[1], LAMBDA n : Digit("left", n)) = Score(1, "left")
      /\ InOrder(digits[0], LAMBDA n : Digit("right", n)) = Score(0, "right")
  BY <1>1 DEF InOrder, Score, Listed, Teams
<1>5. InOrder(Seats, LAMBDA i : Portrait(i, picks[i])) = Portraits
  BY <1>1, Numbers DEF InOrder, Portraits, Listed
<1>6. InOrder(Seats, LAMBDA i : Bar(i, bar[i])) = Bars
  BY <1>1, Numbers DEF InOrder, Bars, Listed
<1>7. InOrder(shown, VerdictPicture) = Verdicts
  BY <1>1 DEF InOrder, Verdicts, Listed
<1> QED
  BY <1>2, <1>3, <1>4, <1>5, <1>6, <1>7 DEF Render, Own, Edges

\* The pictures of each part
OwnPictures == {HpBar, Gauge(gauge)}
DigitPictures(t, place) == {Digit(place, n) : n \in digits[t]}
PortraitPictures == {Portrait(i, picks[i]) : i \in Seats}
EdgePictures == {Edge(k - 1) : k \in 1 .. 8}
BarPictures == {Bar(i, bar[i]) : i \in Seats}
VerdictPictures == {VerdictPicture(v) : v \in shown}

\* The parts of the window, by their edges
Placed(p) == p.left \in Int /\ p.top \in Int /\ p.right \in Int /\ p.bottom \in Int
InFoot(p) == Placed(p) /\ p.top >= 668
InBoard(p) == Placed(p) /\ p.bottom <= 80 /\ p.left >= 355 /\ p.right <= 655
InTeam(p) == Placed(p) /\ p.bottom <= 100 /\ (p.right <= 340 \/ p.left >= 665)
InMiddle(p) == Placed(p) /\ p.top >= 350 /\ p.bottom <= 450

LEMMA PartsApart ==
    ASSUME NEW p, NEW q,
           \/ InFoot(p) /\ (InBoard(q) \/ InTeam(q) \/ InMiddle(q))
           \/ InBoard(p) /\ (InFoot(q) \/ InTeam(q) \/ InMiddle(q))
           \/ InTeam(p) /\ (InFoot(q) \/ InBoard(q) \/ InMiddle(q))
    PROVE  Fine(p, q)
BY DEF Fine, Hides, Overlap, Placed, InFoot, InBoard, InTeam, InMiddle

\* The places of the seats are beside each other.
LEMMA TeamPlaces ==
    /\ \A k \in 0 .. 7 : LET l == TeamLeft(k \div 4, k % 4) IN
          l \in Int /\ 5 <= l /\ (l <= 260 \/ l >= 665)
    /\ \A j, k \in 0 .. 7 : j < k =>
          TeamLeft(j \div 4, j % 4) + 85 <= TeamLeft(k \div 4, k % 4)
    /\ \A k \in 0 .. 7 : LET l == TeamLeft(k % 2, k \div 2) IN
          l \in Int /\ 5 <= l /\ (l <= 260 \/ l >= 665)
    /\ \A j, k \in 0 .. 7 : j # k =>
          \/ TeamLeft(j % 2, j \div 2) + 85 <= TeamLeft(k % 2, k \div 2)
          \/ TeamLeft(k % 2, k \div 2) + 85 <= TeamLeft(j % 2, j \div 2)
<1>1. \A k \in 0 .. 7 :
         /\ TeamLeft(k \div 4, k % 4)
               = IF k < 4 THEN 85 * k + 5 ELSE 665 + 85 * (k - 4)
         /\ TeamLeft(k % 2, k \div 2)
               = IF k % 2 = 0 THEN 85 * (k \div 2) + 5 ELSE 665 + 85 * (k \div 2)
  BY DEF TeamLeft
<1>2. \A k \in 0 .. 7 : k \div 2 \in 0 .. 3 /\ k % 2 \in {0, 1} /\ k = 2 * (k \div 2) + (k % 2)
  OBVIOUS
<1> QED
  BY <1>1, <1>2

LEMMA PicturePlaces ==
    ASSUME StageInv, scene = "GAME"
    PROVE  /\ \A p \in OwnPictures : InFoot(p) /\ p.right <= 400
           /\ \A p \in SkillPictures : InFoot(p) /\ p.left >= 600
           /\ InBoard(ScoreBoard)
           /\ \A n : InBoard(Digit("left", n)) /\ InBoard(Digit("right", n))
           /\ \A i \in Seats : InTeam(Portrait(i, picks[i])) /\ InTeam(Bar(i, bar[i]))
           /\ \A k \in 1 .. 8 : InTeam(Edge(k - 1))
           /\ \A v \in shown : InMiddle(VerdictPicture(v))
<1> USE DEF Picture, Placed
<1>1. \A p \in OwnPictures : InFoot(p) /\ p.right <= 400
  <2>1. gauge \in Int /\ gauge <= 385
    BY DEF StageInv, StageTypeOK, BarInv, FullGauge
  <2> QED
    BY <2>1 DEF OwnPictures, HpBar, Gauge, InFoot
<1>2. \A p \in SkillPictures : InFoot(p) /\ p.left >= 600
  <2>1. ASSUME NEW k, NEW d
        PROVE  /\ InFoot(SkillUp(k, d)) /\ SkillUp(k, d).left >= 600
               /\ InFoot(SkillDown(k, d)) /\ SkillDown(k, d).left >= 600
    BY DEF SkillUp, SkillDown, SkillLeft, InFoot
  <2> QED
    BY <2>1 DEF SkillPictures
<1>3. InBoard(ScoreBoard)
  BY DEF ScoreBoard, InBoard
<1>4. \A n : InBoard(Digit("left", n)) /\ InBoard(Digit("right", n))
  BY DEF Digit, InBoard
<1>5. ASSUME NEW i \in Seats
      PROVE  InTeam(Portrait(i, picks[i])) /\ InTeam(Bar(i, bar[i]))
  <2> DEFINE l == TeamLeft(i % 2, i \div 2)
  <2>1. i \in 0 .. 7
    BY Numbers
  <2>2. l \in Int /\ (l <= 260 \/ l >= 665)
    BY <2>1, TeamPlaces
  <2>3. bar[i] \in Int \X Int /\ bar[i][1] = l + 3 /\ bar[i][2] <= l + 3 + 74
    BY DEF StageInv, StageTypeOK, BarInv, Left
  <2> HIDE DEF l
  <2>4. Portrait(i, picks[i]).left = l /\ Portrait(i, picks[i]).right = l + 80
        /\ Portrait(i, picks[i]).top = 0 /\ Portrait(i, picks[i]).bottom = 80
    BY DEF Portrait, l
  <2>5. Bar(i, bar[i]).left = bar[i][1] /\ Bar(i, bar[i]).right = bar[i][2]
        /\ Bar(i, bar[i]).top = 85 /\ Bar(i, bar[i]).bottom = 97
    BY DEF Bar
  <2> QED
    BY <2>2, <2>3, <2>4, <2>5 DEF InTeam
<1>6. ASSUME NEW k \in 1 .. 8
      PROVE  InTeam(Edge(k - 1))
  <2> DEFINE l == TeamLeft((k - 1) \div 4, (k - 1) % 4)
  <2>1. k - 1 \in 0 .. 7
    OBVIOUS
  <2>2. l \in Int /\ (l <= 260 \/ l >= 665)
    BY <2>1, TeamPlaces
  <2> HIDE DEF l
  <2>3. Edge(k - 1).left = l /\ Edge(k - 1).right = l + 80
        /\ Edge(k - 1).top = 0 /\ Edge(k - 1).bottom = 100
    BY DEF Edge, l
  <2> QED
    BY <2>2, <2>3 DEF InTeam
<1>7. \A v \in shown : InMiddle(VerdictPicture(v))
  BY DEF VerdictPicture, InMiddle
<1> QED
  BY <1>1, <1>2, <1>3, <1>4, <1>5, <1>6, <1>7

\* Within each part, and between those that share a place, what is drawn later
\* is nearer.
LEMMA PartsFine ==
    ASSUME StageInv, scene = "GAME"
    PROVE  /\ Fine(HpBar, Gauge(gauge))
           /\ \A p \in OwnPictures \cup SkillPictures, q \in SkillPictures : Fine(p, q)
           /\ \A place, n : Fine(ScoreBoard, Digit(place, n))
           /\ \A m, n : Fine(Digit("left", m), Digit("right", n))
           /\ \A i, j \in Seats : i # j => /\ Fine(Portrait(i, picks[i]), Portrait(j, picks[j]))
                                           /\ Fine(Bar(i, bar[i]), Bar(j, bar[j]))
           /\ \A p \in PortraitPictures, q \in EdgePictures : Fine(p, q)
           /\ \A j, k \in 1 .. 8 : j < k => Fine(Edge(j - 1), Edge(k - 1))
           /\ \A p \in PortraitPictures \cup EdgePictures, q \in BarPictures : Fine(p, q)
<1> USE DEF Picture, Hides, Overlap
<1>1. Fine(HpBar, Gauge(gauge))
  BY DEF Fine, HpBar, Gauge
<1>2. ASSUME NEW p \in OwnPictures, NEW q \in SkillPictures
      PROVE  Fine(p, q)
  BY <1>2, PicturePlaces DEF Fine, InFoot, Placed
<1>3. ASSUME NEW p \in SkillPictures, NEW q \in SkillPictures
      PROVE  Fine(p, q)
  <2>1. \A r \in SkillPictures : r.left \in {600, 700} /\ r.right = r.left + 100
    BY DEF SkillPictures, SkillUp, SkillDown, SkillLeft
  <2>2. Overlap(p, q) => p.left = q.left
    BY <2>1
  <2> QED
    BY <2>2 DEF Fine
<1>4. \A place, n : Fine(ScoreBoard, Digit(place, n))
  BY DEF Fine, ScoreBoard, Digit
<1>5. \A m, n : Fine(Digit("left", m), Digit("right", n))
  BY DEF Fine, Digit
<1>6. ASSUME NEW i \in Seats, NEW j \in Seats, i # j
      PROVE  /\ Fine(Portrait(i, picks[i]), Portrait(j, picks[j]))
             /\ Fine(Bar(i, bar[i]), Bar(j, bar[j]))
  <2> DEFINE l == TeamLeft(i % 2, i \div 2)
             m == TeamLeft(j % 2, j \div 2)
  <2>1. i \in 0 .. 7 /\ j \in 0 .. 7
    BY Numbers
  <2>2. l \in Int /\ m \in Int /\ (l + 85 <= m \/ m + 85 <= l)
    BY <1>6, <2>1, TeamPlaces
  <2>3. /\ bar[i] \in Int \X Int /\ bar[i][1] = l + 3 /\ bar[i][2] <= l + 3 + 74
        /\ bar[j] \in Int \X Int /\ bar[j][1] = m + 3 /\ bar[j][2] <= m + 3 + 74
    BY DEF StageInv, StageTypeOK, BarInv, Left
  <2>4. /\ Portrait(i, picks[i]).left = l /\ Portrait(i, picks[i]).right = l + 80
        /\ Portrait(j, picks[j]).left = m /\ Portrait(j, picks[j]).right = m + 80
    BY DEF Portrait
  <2>5. /\ Bar(i, bar[i]).left = bar[i][1] /\ Bar(i, bar[i]).right = bar[i][2]
        /\ Bar(j, bar[j]).left = bar[j][1] /\ Bar(j, bar[j]).right = bar[j][2]
    BY DEF Bar
  <2> HIDE DEF l, m
  <2>6. ~Overlap(Portrait(i, picks[i]), Portrait(j, picks[j]))
    BY <2>2, <2>4
  <2>7. ~Overlap(Bar(i, bar[i]), Bar(j, bar[j]))
    BY <2>2, <2>3, <2>5
  <2> QED
    BY <2>6, <2>7 DEF Fine
<1>7. \A p \in PortraitPictures, q \in EdgePictures : Fine(p, q)
  <2>1. \A p \in PortraitPictures : p.depth = 5
    BY DEF PortraitPictures, Portrait
  <2>2. \A q \in EdgePictures : q.depth = 4
    BY DEF EdgePictures, Edge
  <2> QED
    BY <2>1, <2>2 DEF Fine
<1>8. ASSUME NEW j \in 1 .. 8, NEW k \in 1 .. 8, j < k
      PROVE  Fine(Edge(j - 1), Edge(k - 1))
  <2> DEFINE l == TeamLeft((j - 1) \div 4, (j - 1) % 4)
             m == TeamLeft((k - 1) \div 4, (k - 1) % 4)
  <2>1. j - 1 \in 0 .. 7 /\ k - 1 \in 0 .. 7 /\ j - 1 < k - 1
    BY <1>8
  <2>2. l \in Int /\ m \in Int /\ l + 85 <= m
    BY <2>1, TeamPlaces
  <2>3. Edge(j - 1).right = l + 80 /\ Edge(k - 1).left = m
    BY DEF Edge
  <2> HIDE DEF l, m
  <2>4. ~Overlap(Edge(j - 1), Edge(k - 1))
    BY <2>2, <2>3
  <2> QED
    BY <2>4 DEF Fine
<1>9. \A p \in PortraitPictures \cup EdgePictures, q \in BarPictures : Fine(p, q)
  <2>1. \A p \in PortraitPictures \cup EdgePictures : p.depth \in {4, 5}
    BY DEF PortraitPictures, Portrait, EdgePictures, Edge
  <2>2. \A q \in BarPictures : q.depth = 3
    BY DEF BarPictures, Bar
  <2> QED
    BY <2>1, <2>2 DEF Fine
<1>10. \A p \in OwnPictures \cup SkillPictures, q \in SkillPictures : Fine(p, q)
  BY <1>2, <1>3
<1> QED
  BY <1>1, <1>4, <1>5, <1>6, <1>7, <1>8, <1>9, <1>10

LEMMA ListedClear ==
    ASSUME NEW S, IsFiniteSet(S), NEW f,
           \A k, l \in S : k # l => Fine(f[k], f[l])
    PROVE  Clear(Listed(S, f)) /\ Listed(S, f) \in Seq({f[k] : k \in S})
<1> DEFINE s == SetToSeq(S)
<1>1. /\ s \in Seq(S) /\ \A i, j \in DOMAIN s : s[i] = s[j] => i = j
      /\ Cardinality(S) \in Nat /\ DOMAIN s = 1 .. Cardinality(S)
  BY SetToSeqLists
<1>2. \A i \in DOMAIN s : s[i] \in S
  BY <1>1
<1> HIDE DEF s
<1>3. Listed(S, f) = [i \in DOMAIN s |-> f[s[i]]]
  BY DEF Listed, s
<1>4. Listed(S, f) \in Seq({f[k] : k \in S})
  <2>1. \A i \in 1 .. Cardinality(S) : f[s[i]] \in {f[k] : k \in S}
    BY <1>1, <1>2
  <2> DEFINE F == {f[k] : k \in S}
             n == Cardinality(S)
  <2> HIDE DEF F, n
  <2>2. n \in Nat /\ Listed(S, f) \in [1 .. n -> F]
    BY <1>1, <1>3, <2>1 DEF F, n
  <2>3. Listed(S, f) \in Seq(F)
    BY <2>2
  <2> QED
    BY <2>3 DEF F
<1>5. Clear(Listed(S, f))
  <2> SUFFICES ASSUME NEW i \in DOMAIN s, NEW j \in DOMAIN s, i < j
               PROVE  Fine(f[s[i]], f[s[j]])
    BY <1>3 DEF Clear
  <2>1. s[i] # s[j]
    BY <1>1
  <2> QED
    BY <1>2, <2>1
<1> QED
  BY <1>4, <1>5

LEMMA PartLists ==
    ASSUME StageInv, scene = "GAME", heard = {}
    PROVE  /\ Own \in Seq(OwnPictures) /\ Clear(Own)
           /\ Ups \in Seq(SkillPictures) /\ Clear(Ups)
           /\ Downs \in Seq(SkillPictures) /\ Clear(Downs)
           /\ \A t \in Teams : \A place : IsFiniteSet(digits[t]) =>
                 Listed(digits[t], [n \in digits[t] |-> Digit(place, n)])
                     \in Seq(DigitPictures(t, place))
           /\ Portraits \in Seq(PortraitPictures) /\ Clear(Portraits)
           /\ Edges \in Seq(EdgePictures) /\ Clear(Edges)
           /\ Bars \in Seq(BarPictures) /\ Clear(Bars)
           /\ Verdicts \in Seq(VerdictPictures) /\ Clear(Verdicts) /\ IsFiniteSet(shown)
<1>1. Own \in Seq(OwnPictures) /\ Clear(Own)
  <2>1. Own \in Seq(OwnPictures)
    BY DEF Own, OwnPictures
  <2>2. DOMAIN Own = {1, 2} /\ Own[1] = HpBar /\ Own[2] = Gauge(gauge)
    BY DEF Own
  <2> QED
    BY <2>1, <2>2, PartsFine DEF Clear
<1>2. Ups \in Seq(SkillPictures) /\ Clear(Ups)
  <2> DEFINE f == [k \in Skills |-> SkillUp(k, skills[k].up)]
  <2>1. \A k \in Skills : f[k] \in SkillPictures
    BY DEF SkillPictures
  <2>2. \A k, l \in Skills : Fine(f[k], f[l])
    BY <2>1, PartsFine
  <2>3. {f[k] : k \in Skills} \subseteq SkillPictures
    BY <2>1
  <2> HIDE DEF f
  <2>4. Clear(Listed(Skills, f)) /\ Listed(Skills, f) \in Seq({f[k] : k \in Skills})
    BY <2>2, Numbers, ListedClear
  <2>5. Listed(Skills, f) \in Seq(SkillPictures)
    <3> DEFINE F == {f[k] : k \in Skills}
    <3> HIDE DEF F
    <3>1. Listed(Skills, f) \in Seq(F) /\ F \subseteq SkillPictures
      BY <2>3, <2>4 DEF F
    <3> QED
      BY <3>1
  <2> QED
    BY <2>4, <2>5 DEF f, Ups
<1>3. Downs \in Seq(SkillPictures) /\ Clear(Downs)
  <2> DEFINE f == [k \in Skills |-> SkillDown(k, skills[k].down)]
  <2>1. \A k \in Skills : f[k] \in SkillPictures
    BY DEF SkillPictures
  <2>2. \A k, l \in Skills : Fine(f[k], f[l])
    BY <2>1, PartsFine
  <2>3. {f[k] : k \in Skills} \subseteq SkillPictures
    BY <2>1
  <2> HIDE DEF f
  <2>4. Clear(Listed(Skills, f)) /\ Listed(Skills, f) \in Seq({f[k] : k \in Skills})
    BY <2>2, Numbers, ListedClear
  <2>5. Listed(Skills, f) \in Seq(SkillPictures)
    <3> DEFINE F == {f[k] : k \in Skills}
    <3> HIDE DEF F
    <3>1. Listed(Skills, f) \in Seq(F) /\ F \subseteq SkillPictures
      BY <2>3, <2>4 DEF F
    <3> QED
      BY <3>1
  <2> QED
    BY <2>4, <2>5 DEF f, Downs
<1>4. ASSUME NEW t \in Teams, NEW place, IsFiniteSet(digits[t])
      PROVE  Listed(digits[t], [n \in digits[t] |-> Digit(place, n)])
                 \in Seq(DigitPictures(t, place))
  <2> DEFINE D == digits[t]
             s == SetToSeq(D)
  <2>1. s \in Seq(D) /\ Cardinality(D) \in Nat /\ DOMAIN s = 1 .. Cardinality(D)
    BY <1>4, SetToSeqLists
  <2>2. \A i \in DOMAIN s : s[i] \in D /\ Digit(place, s[i]) \in DigitPictures(t, place)
    BY <2>1 DEF DigitPictures
  <2>3. Listed(D, [n \in D |-> Digit(place, n)])
            = [i \in 1 .. Cardinality(D) |-> Digit(place, s[i])]
    BY <2>1, <2>2 DEF Listed
  <2> QED
    BY <2>1, <2>2, <2>3
<1>5. Portraits \in Seq(PortraitPictures) /\ Clear(Portraits)
  <2> DEFINE f == [i \in Seats |-> Portrait(i, picks[i])]
  <2>1. \A k, l \in Seats : k # l => Fine(f[k], f[l])
    BY PartsFine
  <2>2. {f[k] : k \in Seats} = PortraitPictures
    BY DEF PortraitPictures
  <2> HIDE DEF f
  <2>3. Clear(Listed(Seats, f)) /\ Listed(Seats, f) \in Seq({f[k] : k \in Seats})
    BY <2>1, Numbers, ListedClear
  <2> QED
    BY <2>2, <2>3 DEF f, Portraits
<1>6. Edges \in Seq(EdgePictures) /\ Clear(Edges)
  BY PartsFine DEF Edges, EdgePictures, Clear
<1>7. Bars \in Seq(BarPictures) /\ Clear(Bars)
  <2> DEFINE f == [i \in Seats |-> Bar(i, bar[i])]
  <2>1. \A k, l \in Seats : k # l => Fine(f[k], f[l])
    BY PartsFine
  <2>2. {f[k] : k \in Seats} = BarPictures
    BY DEF BarPictures
  <2> HIDE DEF f
  <2>3. Clear(Listed(Seats, f)) /\ Listed(Seats, f) \in Seq({f[k] : k \in Seats})
    BY <2>1, Numbers, ListedClear
  <2> QED
    BY <2>2, <2>3 DEF f, Bars
<1>8. Verdicts \in Seq(VerdictPictures) /\ Clear(Verdicts) /\ IsFiniteSet(shown)
  <2> DEFINE f == [v \in shown |-> VerdictPicture(v)]
             one == <<Kind, imageCount[Kind] - 1>>
  <2>1. shown \subseteq {one}
    BY DEF StageInv, ShownInv
  <2>2. IsFiniteSet(shown)
    <3> HIDE DEF one
    <3>1. IsFiniteSet({one})
      BY FS_Singleton
    <3> QED
      BY <2>1, <3>1, FS_Subset
  <2>3. \A k, l \in shown : k # l => Fine(f[k], f[l])
    BY <2>1
  <2>4. {f[k] : k \in shown} = VerdictPictures
    BY DEF VerdictPictures
  <2> HIDE DEF f
  <2>5. Clear(Listed(shown, f)) /\ Listed(shown, f) \in Seq({f[k] : k \in shown})
    BY <2>2, <2>3, ListedClear
  <2> QED
    BY <2>2, <2>4, <2>5 DEF f, Verdicts
<1> QED
  BY <1>1, <1>2, <1>3, <1>4, <1>5, <1>6, <1>7, <1>8

\* The digits of a score that no late death has spoiled
LEMMA ScoreLists ==
    ASSUME StageInv, scene = "GAME", heard = {}, "death" \notin astray,
           NEW t \in Teams, NEW place
    PROVE  /\ IsFiniteSet(digits[t])
           /\ Score(t, place) \in Seq(DigitPictures(t, place)) /\ Clear(Score(t, place))
<1> DEFINE f == [n \in digits[t] |-> Digit(place, n)]
<1>1. digits[t] = {fallen[t]}
  BY DEF StageInv, ScoreInv
<1>2. IsFiniteSet(digits[t])
  BY <1>1, FS_Singleton
<1>3. \A k, l \in digits[t] : k # l => Fine(f[k], f[l])
  BY <1>1
<1>4. Listed(digits[t], f) \in Seq(DigitPictures(t, place))
  BY <1>2, PartLists
<1> HIDE DEF f
<1>5. Clear(Listed(digits[t], f))
  BY <1>2, <1>3, ListedClear
<1> QED
  BY <1>2, <1>4, <1>5 DEF f, Score

LEMMA NothingHidden ==
    ASSUME StageInv, scene = "GAME", heard = {}, "death" \notin astray
    PROVE  Clear(Render)
<1> DEFINE Veiled == Veil(IF heard = {} THEN Away ELSE 2)
           A1 == OwnPictures \cup SkillPictures
           A2 == A1 \cup {ScoreBoard}
           A3 == A2 \cup DigitPictures(1, "left")
           A4 == A3 \cup DigitPictures(0, "right")
           A5 == A4 \cup PortraitPictures
           A6 == A5 \cup EdgePictures
           A7 == A6 \cup BarPictures
           A8 == A7 \cup VerdictPictures
           R1 == Own \o Ups
           R2 == R1 \o Downs
           R3 == R2 \o <<ScoreBoard>>
           R4 == R3 \o Score(1, "left")
           R5 == R4 \o Score(0, "right")
           R6 == R5 \o Portraits
           R7 == R6 \o Edges
           R8 == R7 \o Bars
           R9 == R8 \o Ups
           R10 == R9 \o Downs
           R11 == R10 \o Verdicts
<1>1. Render = R11 \o <<Veiled>>
  <2>1. \A t \in Teams : IsFiniteSet(digits[t])
    BY ScoreLists
  <2> QED
    BY <2>1, PartLists, RenderParts
\* Where the pictures are
<1>2. /\ \A p \in A1 : InFoot(p)
      /\ \A p \in DigitPictures(1, "left") \cup DigitPictures(0, "right") : InBoard(p)
      /\ InBoard(ScoreBoard)
      /\ \A p \in PortraitPictures \cup EdgePictures \cup BarPictures : InTeam(p)
      /\ \A p \in VerdictPictures : InMiddle(p)
  BY PicturePlaces DEF DigitPictures, PortraitPictures, EdgePictures, BarPictures,
                       VerdictPictures
<1>3. /\ \A p \in A4 : InFoot(p) \/ InBoard(p)
      /\ \A p \in A7 : InFoot(p) \/ InBoard(p) \/ InTeam(p)
  BY <1>2
\* One part after the other
<1>4. R1 \in Seq(A1) /\ Clear(R1)
  BY PartLists, PartsFine, JoinClear
<1> HIDE DEF R1
<1>5. R2 \in Seq(A1) /\ Clear(R2)
  <2>1. R2 \in Seq(A1 \cup SkillPictures) /\ Clear(R2)
    BY <1>4, PartLists, PartsFine, JoinClear
  <2>2. A1 \cup SkillPictures = A1
    OBVIOUS
  <2> QED
    BY <2>1, <2>2
<1> HIDE DEF R2
<1>6. R3 \in Seq(A2) /\ Clear(R3)
  <2> DEFINE one == <<ScoreBoard>>
             O == {ScoreBoard}
  <2>1. one \in Seq(O) /\ Clear(one)
    BY DEF Clear
  <2>2. \A p \in A1, q \in O : Fine(p, q)
    BY <1>2, PartsApart
  <2> HIDE DEF one, O
  <2>3. R2 \o one \in Seq(A1 \cup O) /\ Clear(R2 \o one)
    BY <1>5, <2>1, <2>2, JoinClear
  <2> QED
    BY <2>3 DEF one, O
<1> HIDE DEF R3
<1>7. R4 \in Seq(A3) /\ Clear(R4)
  <2>1. \A p \in A2, q \in DigitPictures(1, "left") : Fine(p, q)
    <3>1. \A q \in DigitPictures(1, "left") : Fine(ScoreBoard, q)
      BY PartsFine DEF DigitPictures
    <3> QED
      BY <1>2, <3>1, PartsApart
  <2>2. Score(1, "left") \in Seq(DigitPictures(1, "left")) /\ Clear(Score(1, "left"))
    BY ScoreLists DEF Teams
  <2> QED
    BY <1>6, <2>1, <2>2, JoinClear
<1> HIDE DEF R4
<1>8. R5 \in Seq(A4) /\ Clear(R5)
  <2>1. \A p \in A3, q \in DigitPictures(0, "right") : Fine(p, q)
    <3>1. \A q \in DigitPictures(0, "right") :
             /\ Fine(ScoreBoard, q)
             /\ \A p \in DigitPictures(1, "left") : Fine(p, q)
      BY PartsFine DEF DigitPictures
    <3> QED
      BY <1>2, <3>1, PartsApart
  <2>2. Score(0, "right") \in Seq(DigitPictures(0, "right")) /\ Clear(Score(0, "right"))
    BY ScoreLists DEF Teams
  <2> QED
    BY <1>7, <2>1, <2>2, JoinClear
<1> HIDE DEF R5
<1>9. R6 \in Seq(A5) /\ Clear(R6)
  <2>1. \A p \in A4, q \in PortraitPictures : Fine(p, q)
    BY <1>2, <1>3, PartsApart
  <2> QED
    BY <1>8, <2>1, PartLists, JoinClear
<1> HIDE DEF R6
<1>10. R7 \in Seq(A6) /\ Clear(R7)
  <2>1. \A p \in A4, q \in EdgePictures : Fine(p, q)
    BY <1>2, <1>3, PartsApart
  <2>2. \A p \in A5, q \in EdgePictures : Fine(p, q)
    BY <2>1, PartsFine
  <2> QED
    BY <1>9, <2>2, PartLists, JoinClear
<1> HIDE DEF R7
<1>11. R8 \in Seq(A7) /\ Clear(R8)
  <2>1. \A p \in A4, q \in BarPictures : Fine(p, q)
    BY <1>2, <1>3, PartsApart
  <2>2. \A p \in A6, q \in BarPictures : Fine(p, q)
    BY <2>1, PartsFine
  <2> QED
    BY <1>10, <2>2, PartLists, JoinClear
<1> HIDE DEF R8
<1>12. \A p \in A7, q \in SkillPictures : Fine(p, q)
  <2>1. \A q \in SkillPictures : InFoot(q)
    BY <1>2
  <2>2. ASSUME NEW p \in A7, p \notin A1, NEW q \in SkillPictures
        PROVE  Fine(p, q)
    <3>1. InBoard(p) \/ InTeam(p)
      BY <1>2, <2>2
    <3> QED
      BY <2>1, <2>2, <3>1, PartsApart
  <2> QED
    BY <2>2, PartsFine
<1>13. A7 \cup SkillPictures = A7
  OBVIOUS
<1>14. R9 \in Seq(A7) /\ Clear(R9)
  <2>1. R9 \in Seq(A7 \cup SkillPictures) /\ Clear(R9)
    <3> HIDE DEF A7
    <3> QED
      BY <1>11, <1>12, PartLists, JoinClear
  <2> QED
    BY <1>13, <2>1
<1> HIDE DEF R9
<1>15. R10 \in Seq(A7) /\ Clear(R10)
  <2>1. R10 \in Seq(A7 \cup SkillPictures) /\ Clear(R10)
    <3> HIDE DEF A7
    <3> QED
      BY <1>12, <1>14, PartLists, JoinClear
  <2> QED
    BY <1>13, <2>1
<1> HIDE DEF R10
<1>16. R11 \in Seq(A8) /\ Clear(R11)
  <2>1. \A p \in A7, q \in VerdictPictures : Fine(p, q)
    BY <1>2, <1>3, PartsApart
  <2> HIDE DEF A7
  <2> QED
    BY <1>15, <2>1, PartLists, JoinClear
<1> HIDE DEF R11
<1>17. Clear(R11 \o <<Veiled>>)
  <2> DEFINE one == <<Veiled>>
             O == {Veiled}
  <2>1. one \in Seq(O) /\ Clear(one)
    BY DEF Clear
  <2>2. \A p \in A8, q \in O : Fine(p, q)
    BY DEF Fine, Hides, InSight, Veil, Picture, Away
  <2> HIDE DEF A8, Veiled, one, O
  <2>3. Clear(R11 \o one)
    BY <1>16, <2>1, <2>2, JoinClear
  <2> QED
    BY <2>3 DEF one
<1> QED
  BY <1>1, <1>17

\* The digits of a score are finitely many, also after late deaths.
FewDigits == \A t \in Teams : IsFiniteSet(digits[t])

LEMMA FewDigitsStep ==
    ASSUME StageTypeOK, FewDigits, [Next]_vars
    PROVE  FewDigits'
<1> USE DEF world, match, health, buttons, ending
<1>1. UNCHANGED digits => FewDigits'
  BY DEF FewDigits
<1>2. (digits' = [t \in {0, 1} |-> {}]) => FewDigits'
  BY FS_EmptySet DEF FewDigits, Teams
<1>3. ASSUME PutPlayers
      PROVE  FewDigits'
  <2>1. \A t \in Teams : digits'[t] = digits[t] \cup {0}
    BY <1>3 DEF PutPlayers, Teams
  <2>2. \A t \in Teams : IsFiniteSet(digits[t] \cup {0})
    BY FS_AddElement DEF FewDigits
  <2> QED
    BY <2>1, <2>2 DEF FewDigits
<1>4. ASSUME NEW i \in Seats, Death(i)
      PROVE  FewDigits'
  <2> DEFINE s == fallen'[Team(i)]
  <2>1. digits' = [digits EXCEPT ![Team(i)] = ShowScore(digits[Team(i)], s)]
    BY <1>4 DEF Death
  <2>2. Team(i) \in Teams
    BY Numbers DEF Team, Teams
  <2> HIDE DEF s
  <2>3. IsFiniteSet(digits[Team(i)] \cup {s})
    BY <2>2, FS_AddElement DEF FewDigits
  <2>4. IsFiniteSet(ShowScore(digits[Team(i)], s))
    BY <2>3, FS_Subset DEF ShowScore
  <2>5. \A t \in Teams : digits'[t] = IF t = Team(i) THEN ShowScore(digits[Team(i)], s)
                                      ELSE digits[t]
    BY <2>1, <2>2 DEF StageTypeOK
  <2> QED
    BY <2>4, <2>5 DEF FewDigits
<1>5. \/ UNCHANGED digits \/ digits' = [t \in {0, 1} |-> {}] \/ PutPlayers
      \/ \E i \in Seats : Death(i)
  <2>1. CASE UNCHANGED vars
    BY <2>1 DEF vars
  <2>2. CASE Next
    BY <2>2 DEF Next, AllReady, LoadingFrame, Confirm, Shutdown, Forget, Respawned, Struck,
                Result, Press, Release, GameFrame
  <2> QED
    BY <2>1, <2>2
<1> QED
  BY <1>1, <1>2, <1>3, <1>4, <1>5

\* What is seen at a point: the picture drawn first, if all that lie there are
\* equally deep.
Lies(p, x, y) == InSight(p) /\ Overlap(p, Picture("", x, y, x + 1, y + 1, 0))

LEMMA FirstIsSeen ==
    ASSUME NEW ps, NEW x, NEW y, NEW c \in DOMAIN ps, DOMAIN ps \subseteq Int,
           Lies(ps[c], x, y), ps[c].depth \in Int,
           \A i \in DOMAIN ps : Lies(ps[i], x, y) => ps[i].depth = ps[c].depth /\ c <= i
    PROVE  SeenAt(ps, x, y) = {ps[c].texture}
<1> DEFINE at == {i \in DOMAIN ps : Lies(ps[i], x, y)}
           d(i) == ps[i].depth
           front == {i \in at : \A j \in at : d(i) < d(j) \/ (d(i) = d(j) /\ i <= j)}
<1>1. c \in at /\ c \in Int /\ d(c) \in Int /\ \A i \in at : d(i) = d(c) /\ c <= i /\ i \in Int
  OBVIOUS
<1>2. SeenAt(ps, x, y) = {ps[i].texture : i \in front}
  BY Zenon DEF SeenAt, Lies
<1> HIDE DEF at, d
<1>3. c \in front
  BY <1>1
<1>4. ASSUME NEW i \in front PROVE i = c
  <2>1. d(i) < d(c) \/ (d(i) = d(c) /\ i <= c)
    BY <1>1
  <2> QED
    BY <1>1, <2>1
<1> HIDE DEF front
<1>5. front = {c}
  BY <1>3, <1>4
<1> QED
  BY <1>2, <1>5

\* A sequence that begins with r and goes on with pictures of a set
Continues(s, r, U, O) ==
    /\ s \in Seq(U) /\ r \in Seq(U) /\ Len(r) <= Len(s)
    /\ \A i \in DOMAIN s : IF i <= Len(r) THEN s[i] = r[i] ELSE s[i] \in O

LEMMA ContinuesOn ==
    ASSUME NEW U, NEW O \in SUBSET U, NEW T \in SUBSET O, NEW r, NEW s, Continues(s, r, U, O),
           NEW t \in Seq(T)
    PROVE  Continues(s \o t, r, U, O)
<1> DEFINE u == s \o t
<1>1. s \in Seq(U) /\ r \in Seq(U) /\ Len(r) \in Nat /\ Len(s) \in Nat /\ Len(t) \in Nat
      /\ Len(r) <= Len(s) /\ DOMAIN s = 1 .. Len(s)
  BY DEF Continues
<1>2. t \in Seq(U)
  OBVIOUS
<1>3. u \in Seq(U) /\ Len(u) = Len(s) + Len(t) /\ DOMAIN u = 1 .. Len(u)
  BY <1>1, <1>2
<1>4. ASSUME NEW i \in DOMAIN u
      PROVE  IF i <= Len(r) THEN u[i] = r[i] ELSE u[i] \in O
  <2>1. CASE i <= Len(s)
    <3>1. i \in DOMAIN s /\ u[i] = s[i]
      BY <1>1, <1>2, <1>3, <2>1
    <3> QED
      BY <3>1 DEF Continues
  <2>2. CASE i > Len(s)
    <3>1. i - Len(s) \in 1 .. Len(t) /\ u[i] = t[i - Len(s)]
      BY <1>1, <1>2, <1>3, <2>2
    <3>2. u[i] \in T
      BY <3>1
    <3> QED
      BY <1>1, <2>2, <3>2
  <2> QED
    BY <1>1, <1>3, <2>1, <2>2
<1> QED
  BY <1>1, <1>3, <1>4 DEF Continues

\* The pictures drawn after those at the foot of the window
LateScore == {ScoreBoard} \cup DigitPictures(1, "left") \cup DigitPictures(0, "right")
Late == SkillPictures \cup LateScore \cup PortraitPictures \cup EdgePictures
            \cup BarPictures \cup VerdictPictures \cup {Veil(IF heard = {} THEN Away ELSE 2)}

LEMMA FootFirst ==
    ASSUME StageInv, FewDigits, scene = "GAME", heard = {}
    PROVE  Continues(Render, Own \o Ups \o Downs, OwnPictures \cup Late, Late)
<1> DEFINE U == OwnPictures \cup Late
           O == Late
           r == Own \o Ups \o Downs
           Veiled == Veil(IF heard = {} THEN Away ELSE 2)
           R3 == r \o <<ScoreBoard>>
           R4 == R3 \o Score(1, "left")
           R5 == R4 \o Score(0, "right")
           R6 == R5 \o Portraits
           R7 == R6 \o Edges
           R8 == R7 \o Bars
           R9 == R8 \o Ups
           R10 == R9 \o Downs
           R11 == R10 \o Verdicts
           one == <<ScoreBoard>>
           last == <<Veiled>>
           B == {ScoreBoard}
           V == {Veiled}
<1>1. Render = R11 \o last
  BY PartLists, RenderParts DEF FewDigits
<1>2. /\ O \in SUBSET U /\ SkillPictures \in SUBSET O
      /\ DigitPictures(1, "left") \in SUBSET O /\ DigitPictures(0, "right") \in SUBSET O
      /\ PortraitPictures \in SUBSET O /\ EdgePictures \in SUBSET O
      /\ BarPictures \in SUBSET O /\ VerdictPictures \in SUBSET O
  BY DEF Late, LateScore
<1>3. one \in Seq(B) /\ B \in SUBSET O /\ last \in Seq(V) /\ V \in SUBSET O
  BY DEF Late, LateScore
<1>4. /\ Score(1, "left") \in Seq(DigitPictures(1, "left"))
      /\ Score(0, "right") \in Seq(DigitPictures(0, "right"))
  BY PartLists DEF FewDigits, Score, Teams
<1>5. Continues(r, r, U, O)
  <2>1. Own \in Seq(U)
    BY DEF Own, OwnPictures
  <2>2. SkillPictures \subseteq U
    BY <1>2
  <2> HIDE DEF U
  <2>3. Ups \in Seq(U) /\ Downs \in Seq(U)
    BY <2>2, PartLists
  <2>4. r \in Seq(U)
    BY <2>1, <2>3
  <2> HIDE DEF r
  <2> QED
    BY <2>4 DEF Continues
<1> HIDE DEF U, O, r, one, last, B, V
<1>6. Continues(R3, r, U, O)
  <2>1. Continues(r \o one, r, U, O)
    BY <1>2, <1>3, <1>5, ContinuesOn
  <2> QED
    BY <2>1 DEF one
<1> HIDE DEF R3
<1>7. Continues(R4, r, U, O)
  BY <1>2, <1>4, <1>6, ContinuesOn
<1> HIDE DEF R4
<1>8. Continues(R5, r, U, O)
  BY <1>2, <1>4, <1>7, ContinuesOn
<1> HIDE DEF R5
<1>9. Continues(R6, r, U, O)
  BY <1>2, <1>8, PartLists, ContinuesOn
<1> HIDE DEF R6
<1>10. Continues(R7, r, U, O)
  BY <1>2, <1>9, PartLists, ContinuesOn
<1> HIDE DEF R7
<1>11. Continues(R8, r, U, O)
  BY <1>2, <1>10, PartLists, ContinuesOn
<1> HIDE DEF R8
<1>12. Continues(R9, r, U, O)
  BY <1>2, <1>11, PartLists, ContinuesOn
<1> HIDE DEF R9
<1>13. Continues(R10, r, U, O)
  BY <1>2, <1>12, PartLists, ContinuesOn
<1> HIDE DEF R10
<1>14. Continues(R11, r, U, O)
  BY <1>2, <1>13, PartLists, ContinuesOn
<1> HIDE DEF R11
<1>15. Continues(R11 \o last, r, U, O)
  BY <1>2, <1>3, <1>14, ContinuesOn
<1> QED
  BY <1>1, <1>15 DEF U, O, r

\* Below its upper edge nothing lies over a skill but its own two pictures.
LEMMA OverSkill ==
    ASSUME StageInv, scene = "GAME", heard = {}, NEW k \in Skills,
           NEW p \in OwnPictures \cup Late, Lies(p, SkillLeft(k) + 50, 718)
    PROVE  p \in {SkillUp(k, skills[k].up), SkillDown(k, skills[k].down)}
<1> DEFINE x == SkillLeft(k) + 50
           P == Picture("", x, 718, x + 1, 718 + 1, 0)
<1>1. /\ x \in {650, 750} /\ P.left = x /\ P.right = x + 1 /\ P.top = 718 /\ P.bottom = 719
  BY DEF SkillLeft, Picture
<1>2. InSight(p) /\ Overlap(p, P)
  BY Zenon DEF Lies
<1> HIDE DEF P, x
<1>3. p \notin OwnPictures
  BY <1>1, <1>2, PicturePlaces DEF Overlap, InFoot, Placed
<1>4. ~InBoard(p) /\ ~InTeam(p) /\ ~InMiddle(p)
  BY <1>1, <1>2 DEF Overlap, InBoard, InTeam, InMiddle, Placed
<1>5. ~InSight(Veil(IF heard = {} THEN Away ELSE 2))
  BY DEF InSight, Veil, Picture
<1>6. p \in SkillPictures
  <2>1. p \in Late
    BY <1>3
  <2>2. /\ \A q \in LateScore : InBoard(q)
        /\ \A q \in PortraitPictures \cup EdgePictures \cup BarPictures : InTeam(q)
        /\ \A q \in VerdictPictures : InMiddle(q)
    BY PicturePlaces DEF LateScore, DigitPictures, PortraitPictures, EdgePictures,
                         BarPictures, VerdictPictures
  <2> QED
    BY <1>2, <1>4, <1>5, <2>1, <2>2 DEF Late
<1>7. PICK l \in Skills : p \in {SkillUp(l, skills[l].up), SkillDown(l, skills[l].down)}
  BY <1>6 DEF SkillPictures
<1>8. p.left = SkillLeft(l) /\ p.right = SkillLeft(l) + 100
  BY <1>7 DEF SkillUp, SkillDown, Picture
<1>9. l = k
  <2>1. l \in {"D", "S"} /\ k \in {"D", "S"}
    BY StageAssumption
  <2> QED
    BY <1>1, <1>2, <1>8, <2>1 DEF Overlap, SkillLeft, x
<1> QED
  BY <1>7, <1>9

LEMMA Concat ==
    ASSUME NEW A, NEW s \in Seq(A), NEW t \in Seq(A)
    PROVE  /\ s \o t \in Seq(A) /\ Len(s \o t) = Len(s) + Len(t)
           /\ \A i \in 1 .. Len(s) : (s \o t)[i] = s[i]
           /\ \A i \in 1 .. Len(t) : (s \o t)[Len(s) + i] = t[i]
OBVIOUS

\* Of the two pictures of a skill the one is seen that belongs to its key.
LEMMA SkillSeen ==
    ASSUME StageInv, FewDigits, scene = "GAME", heard = {}, NEW k \in Skills
    PROVE  SeenAt(Render, SkillLeft(k) + 50, 718) =
               {<<k, IF k \in keys /\ skills[k] # NewSkill THEN "down" ELSE "up">>}
<1> DEFINE ps == Render
           x == SkillLeft(k) + 50
           n == Cardinality(Skills)
           s == SetToSeq(Skills)
           r == Own \o Ups \o Downs
           up == SkillUp(k, skills[k].up)
           down == SkillDown(k, skills[k].down)
<1>1. /\ n \in Nat /\ DOMAIN s = 1 .. n /\ \A i \in 1 .. n : s[i] \in Skills
      /\ \A i, j \in 1 .. n : s[i] = s[j] => i = j
  BY Numbers, SetToSeqLists
<1>2. PICK j \in 1 .. n : s[j] = k
  BY Numbers, SetToSeqLists
<1>3. /\ DOMAIN Ups = 1 .. n /\ DOMAIN Downs = 1 .. n
      /\ \A i \in 1 .. n : /\ Ups[i] = SkillUp(s[i], skills[s[i]].up)
                           /\ Downs[i] = SkillDown(s[i], skills[s[i]].down)
  BY <1>1 DEF Ups, Downs, Listed
<1>4. /\ Len(r) = 2 + n + n
      /\ r[1] = HpBar /\ r[2] = Gauge(gauge)
      /\ \A i \in 1 .. n : r[2 + i] = Ups[i] /\ r[2 + n + i] = Downs[i]
  <2>1. Own \in Seq(OwnPictures) /\ Ups \in Seq(SkillPictures) /\ Downs \in Seq(SkillPictures)
    BY PartLists
  <2>2. Len(Own) = 2 /\ Own[1] = HpBar /\ Own[2] = Gauge(gauge)
    BY DEF Own
  <2>3. Len(Ups) = n /\ Len(Downs) = n
    BY <1>1, <1>3, <2>1
  <2> DEFINE A == OwnPictures \cup SkillPictures
  <2>4. Own \in Seq(A) /\ Ups \in Seq(A) /\ Downs \in Seq(A)
    BY <2>1
  <2> DEFINE q == Own \o Ups
  <2> HIDE DEF A
  <2>5. /\ q \in Seq(A) /\ Len(q) = Len(Own) + Len(Ups)
        /\ \A i \in 1 .. Len(Own) : q[i] = Own[i]
        /\ \A i \in 1 .. Len(Ups) : q[Len(Own) + i] = Ups[i]
    BY <2>4, Concat
  <2> HIDE DEF q, n
  <2>6. Len(q) = 2 + n /\ q[1] = HpBar /\ q[2] = Gauge(gauge)
        /\ \A i \in 1 .. n : q[2 + i] = Ups[i]
    BY <2>2, <2>3, <2>5
  <2>7. /\ Len(q \o Downs) = Len(q) + Len(Downs)
        /\ \A i \in 1 .. Len(q) : (q \o Downs)[i] = q[i]
        /\ \A i \in 1 .. Len(Downs) : (q \o Downs)[Len(q) + i] = Downs[i]
    <3>1. q \in Seq(A) /\ Downs \in Seq(A)
      BY <2>4, <2>5
    <3> QED
      BY ONLY <3>1, Concat
  <2>8. r = q \o Downs
    BY DEF q
  <2> HIDE DEF r
  <2>9. Len(r) = 2 + n + n /\ r[1] = HpBar /\ r[2] = Gauge(gauge)
    BY <1>1, <2>3, <2>6, <2>7, <2>8
  <2>10. ASSUME NEW i \in 1 .. n
         PROVE  r[2 + i] = Ups[i] /\ r[2 + n + i] = Downs[i]
    <3>1. 2 + i \in 1 .. Len(q) /\ i \in 1 .. Len(Downs) /\ Len(q) + i = 2 + n + i
      BY <1>1, <2>3, <2>6
    <3>2. r[2 + i] = q[2 + i]
      BY <2>7, <2>8, <3>1
    <3>3. r[2 + n + i] = Downs[i]
      BY <2>7, <2>8, <3>1
    <3> QED
      BY <2>6, <3>2, <3>3
  <2> QED
    BY <2>9, <2>10
<1>5. Continues(ps, r, OwnPictures \cup Late, Late)
  BY FootFirst
<1>6. /\ DOMAIN ps = 1 .. Len(ps) /\ Len(ps) \in Nat /\ Len(r) <= Len(ps)
      /\ \A i \in DOMAIN ps : /\ ps[i] \in OwnPictures \cup Late
                              /\ i <= Len(r) => ps[i] = r[i]
  BY <1>5 DEF Continues
<1> HIDE DEF ps, n, s, r
<1> DEFINE a == 2 + j
           b == 2 + n + j
<1>7. /\ a \in DOMAIN ps /\ b \in DOMAIN ps /\ a < b
      /\ ps[a] = up /\ ps[b] = down
  <2>1. a \in DOMAIN ps /\ b \in DOMAIN ps /\ a < b /\ a <= Len(r) /\ b <= Len(r)
    BY <1>1, <1>2, <1>4, <1>6
  <2>2. ps[a] = r[2 + j] /\ ps[b] = r[2 + n + j]
    BY <1>6, <2>1
  <2>3. r[2 + j] = Ups[j] /\ r[2 + n + j] = Downs[j]
    BY <1>4
  <2>4. Ups[j] = up /\ Downs[j] = down
    BY <1>2, <1>3
  <2> QED
    BY <2>1, <2>2, <2>3, <2>4
<1>8. up # down /\ up.texture = <<k, "up">> /\ down.texture = <<k, "down">>
      /\ up.depth = skills[k].up /\ down.depth = skills[k].down
  BY DEF SkillUp, SkillDown, Picture
<1>9. \A l \in Skills : \A d : SkillUp(l, d) # down /\ (SkillUp(l, d) = up => l = k)
                           /\ SkillDown(l, d) # up /\ (SkillDown(l, d) = down => l = k)
  BY DEF SkillUp, SkillDown, Picture
<1> HIDE DEF up, down
<1>10. ASSUME NEW i \in DOMAIN ps, Lies(ps[i], x, 718)
       PROVE  (ps[i] = up /\ a <= i) \/ (ps[i] = down /\ b <= i)
  <2>1. ps[i] \in {up, down}
    BY <1>6, <1>10, OverSkill DEF up, down
  <2>2. CASE i <= 2
    <3>1. ps[i] \in OwnPictures
      <4>1. i \in {1, 2} /\ i <= Len(r)
        BY <1>1, <1>4, <1>6, <2>2
      <4>2. ps[i] = r[i] /\ r[i] \in {HpBar, Gauge(gauge)}
        BY <1>4, <1>6, <4>1
      <4> QED
        BY <4>2 DEF OwnPictures
    <3>2. ps[i].left # SkillLeft(k)
      BY <3>1 DEF OwnPictures, HpBar, Gauge, Picture, SkillLeft
    <3> QED
      BY <2>1, <3>2 DEF up, down, SkillUp, SkillDown, Picture
  <2>3. CASE i > 2 /\ i <= 2 + n
    <3>1. i - 2 \in 1 .. n /\ i = 2 + (i - 2) /\ i <= Len(r)
      BY <1>1, <1>4, <1>6, <2>3
    <3>2. ps[i] = SkillUp(s[i - 2], skills[s[i - 2]].up)
      BY <1>3, <1>4, <1>6, <3>1
    <3>3. ps[i] = up /\ s[i - 2] = k
      BY <1>1, <1>9, <2>1, <3>1, <3>2
    <3>4. i - 2 = j
      BY <1>1, <1>2, <3>1, <3>3
    <3> QED
      BY <3>1, <3>3, <3>4
  <2>4. CASE i > 2 + n /\ i <= 2 + n + n
    <3>1. i - 2 - n \in 1 .. n /\ i = 2 + n + (i - 2 - n) /\ i <= Len(r)
      BY <1>1, <1>4, <1>6, <2>4
    <3>2. ps[i] = SkillDown(s[i - 2 - n], skills[s[i - 2 - n]].down)
      BY <1>3, <1>4, <1>6, <3>1
    <3>3. ps[i] = down /\ s[i - 2 - n] = k
      BY <1>1, <1>9, <2>1, <3>1, <3>2
    <3>4. i - 2 - n = j
      BY <1>1, <1>2, <3>1, <3>3
    <3> QED
      BY <1>1, <3>1, <3>3, <3>4
  <2>5. CASE i > 2 + n + n
    BY <1>1, <1>2, <1>6, <2>1, <2>5
  <2> QED
    BY <1>1, <1>6, <2>2, <2>3, <2>4, <2>5
<1>11. (up.depth # Away => Lies(up, x, 718)) /\ (down.depth # Away => Lies(down, x, 718))
  BY DEF up, down, SkillUp, SkillDown, SkillLeft, Picture, Lies, InSight, Overlap
<1>12. \A i \in DOMAIN ps : Lies(ps[i], x, 718) => ps[i].depth # Away
  BY Zenon DEF Lies, InSight
<1> HIDE DEF x
<1>13. DOMAIN ps \subseteq Int /\ a \in Int /\ b \in Int
  BY <1>1, <1>6
<1>14. CASE k \in keys /\ Down(skills[k])
  <2>1. up.depth = Away /\ down.depth = 3 /\ skills[k] # NewSkill
    BY <1>8, <1>14 DEF Down, NewSkill, Away
  <2>2. Lies(ps[b], x, 718) /\ ps[b].depth \in Int
    BY <1>7, <1>11, <2>1 DEF Away
  <2>3. \A i \in DOMAIN ps : Lies(ps[i], x, 718) => ps[i].depth = ps[b].depth /\ b <= i
    BY <1>7, <1>10, <1>12, <2>1
  <2>4. SeenAt(ps, x, 718) = {ps[b].texture}
    BY <1>7, <1>13, <2>2, <2>3, FirstIsSeen
  <2> QED
    BY <1>7, <1>8, <1>14, <2>1, <2>4 DEF ps, x
<1>15. CASE Idle(skills[k]) \/ (k \notin keys /\ Up(k, skills[k]))
  <2>1. /\ up.depth \in {3, 5} /\ down.depth \in {Away, up.depth}
        /\ k \in keys => skills[k] = NewSkill
    BY <1>8, <1>15 DEF Idle, Up, NewSkill
  <2>2. Lies(ps[a], x, 718) /\ ps[a].depth \in Int
    BY <1>7, <1>11, <2>1 DEF Away
  <2>3. \A i \in DOMAIN ps : Lies(ps[i], x, 718) => ps[i].depth = ps[a].depth /\ a <= i
    BY <1>7, <1>10, <1>12, <1>13, <2>1
  <2>4. SeenAt(ps, x, 718) = {ps[a].texture}
    BY <1>7, <1>13, <2>2, <2>3, FirstIsSeen
  <2> QED
    BY <1>7, <1>8, <2>1, <2>4 DEF ps, x
<1> QED
  BY <1>14, <1>15 DEF StageInv, SkillInv

-----------------------------------------------------------------------------
(* What lies over the game                                                 *)

HudInv == StageInv /\ FewDigits

LEMMA HudInvHolds == Spec => []HudInv
<1>1. Init => FewDigits
  <2> SUFFICES ASSUME Init, NEW t \in Teams PROVE IsFiniteSet(digits[t])
    BY DEF FewDigits
  <2>1. digits[t] = {}
    BY DEF Init, Teams
  <2> QED
    BY <2>1, FS_EmptySet
<1>2. StageInv /\ FewDigits /\ [Next]_vars => FewDigits'
  BY FewDigitsStep DEF StageInv
<1> QED
  BY <1>1, <1>2, StageInvHolds, PTL DEF Spec, HudInv

LEMMA AllClear == StageInv => BoardClear
<1> DEFINE ps == Render
<1> SUFFICES ASSUME StageInv, scene = "GAME", heard = {}, "death" \notin astray
             PROVE  \A i, j \in DOMAIN ps :
                        (i < j /\ Hides(ps[i], ps[j])) =>
                            ps[i].left = ps[j].left /\ ps[j] \in SkillPictures
  BY DEF BoardClear
<1>1. Clear(ps)
  BY NothingHidden
<1> HIDE DEF ps
<1> QED
  BY <1>1 DEF Clear, Fine

LEMMA AtMostOne == StageInv => OnePicture
<1> SUFFICES ASSUME StageInv, scene = "GAME", astray = {}
             PROVE  Cardinality(shown) <= 1
  BY DEF OnePicture
<1> DEFINE last == <<Kind, imageCount[Kind] - 1>>
<1>1. shown \subseteq {last}
  BY DEF StageInv, ShownInv
<1> HIDE DEF last
<1>2. CASE shown = {}
  BY <1>2, FS_EmptySet
<1>3. CASE shown = {last}
  <2>1. Cardinality({last}) = 1
    BY FS_Singleton
  <2> QED
    BY <1>3, <2>1
<1> QED
  BY <1>1, <1>2, <1>3

\* CScene::Render (Scene.cpp) draws the pictures of the game in the order of
\* its loops, at places and in layers that BuildObjects and the handlers of
\* SC_PUT_PLAYER, SC_ATTACK_HIT, SC_CHAR_DIE, SC_RESPAWN and SC_RESULT set.  In
\* every match, after any matches before it: the digits are the numbers of the
\* fallen, the bars are as long as the healths, none of it is hidden by another
\* picture, each skill shows the picture for its key, and a verdict shows one
\* picture at a time.
THEOREM HudAlwaysTrue == Spec => []HudTrue
<1>1. HudInv => HudTrue
  <2> SUFFICES ASSUME HudInv PROVE HudTrue
    OBVIOUS
  <2>1. DigitsMatch
    BY DEF HudInv, StageInv, ScoreInv, DigitsMatch, Teams
  <2>2. BarsShowHp
    BY BarsTrue DEF HudInv, StageInv
  <2>3. BoardClear /\ OnePicture
    BY AllClear, AtMostOne DEF HudInv
  <2>4. ButtonShows
    BY SkillSeen DEF HudInv, ButtonShows
  <2> QED
    BY <2>1, <2>2, <2>3, <2>4 DEF HudTrue
<1> QED
  BY <1>1, HudInvHolds, PTL

-----------------------------------------------------------------------------
(* Counting holders                                                         *)

Holders(ptr, O, a) == {x \in O \X Parts : ptr[x[1]][x[2]] = a}

\* An object holds an asset at most once.
OnceOnly(ptr, O, a) ==
    \A o \in O : \A p, q \in Parts : ptr[o][p] = a /\ ptr[o][q] = a => p = q

LEMMA PartsFinite == IsFiniteSet(Parts)
<1>1. IsFiniteSet({"mesh"})
  BY FS_Singleton
<1>2. IsFiniteSet({"mesh"} \cup {"material"})
  BY <1>1, FS_AddElement
<1>3. IsFiniteSet(({"mesh"} \cup {"material"}) \cup {"texture"})
  BY <1>2, FS_AddElement
<1>4. Parts = ({"mesh"} \cup {"material"}) \cup {"texture"}
  BY DEF Parts
<1> QED
  BY <1>3, <1>4

\* A count is a number, and zero when nobody holds the asset.
LEMMA CountType ==
    ASSUME NEW ptr, NEW O, IsFiniteSet(O), NEW a
    PROVE  /\ IsFiniteSet(Holders(ptr, O, a))
           /\ Count(ptr, O, a) = Cardinality(Holders(ptr, O, a))
           /\ Count(ptr, O, a) \in Nat
           /\ Count(ptr, O, a) = 0 <=> \A o \in O, p \in Parts : ptr[o][p] # a
<1>1. IsFiniteSet(O \X Parts)
  BY PartsFinite, FS_Product
<1>2. Holders(ptr, O, a) \in SUBSET (O \X Parts)
  BY DEF Holders
<1>3. IsFiniteSet(Holders(ptr, O, a))
  BY <1>1, <1>2, FS_Subset
<1>4. Count(ptr, O, a) = Cardinality(Holders(ptr, O, a))
  BY DEF Count, Holders
<1>5. Count(ptr, O, a) \in Nat
  BY <1>3, <1>4, FS_CardinalityType
<1>6. Count(ptr, O, a) = 0 <=> Holders(ptr, O, a) = {}
  BY <1>3, <1>4, FS_EmptySet
<1>7. Holders(ptr, O, a) = {} <=> \A o \in O, p \in Parts : ptr[o][p] # a
  <2>1. ASSUME NEW o \in O, NEW p \in Parts, ptr[o][p] = a
        PROVE  <<o, p>> \in Holders(ptr, O, a)
    BY <2>1 DEF Holders
  <2>2. ASSUME NEW x \in Holders(ptr, O, a)
        PROVE  x[1] \in O /\ x[2] \in Parts /\ ptr[x[1]][x[2]] = a
    BY <2>2 DEF Holders
  <2> QED
    BY <2>1, <2>2
<1> QED
  BY <1>3, <1>4, <1>5, <1>6, <1>7

\* The holders among two sets of objects are counted one set after the other.
LEMMA CountSplit ==
    ASSUME NEW ptr, NEW O, NEW U, IsFiniteSet(O), IsFiniteSet(U), O \cap U = {}, NEW a
    PROVE  Count(ptr, O \cup U, a) = Count(ptr, O, a) + Count(ptr, U, a)
<1> DEFINE S == Holders(ptr, O, a)
           T == Holders(ptr, U, a)
<1>1. /\ IsFiniteSet(S) /\ Count(ptr, O, a) = Cardinality(S)
      /\ IsFiniteSet(T) /\ Count(ptr, U, a) = Cardinality(T)
  BY CountType
<1>2. Holders(ptr, O \cup U, a) = S \cup T
  BY DEF Holders
<1>3. S \cap T = {}
  <2>1. \A x \in S \cap T : x[1] \in O \cap U
    BY DEF Holders
  <2> QED
    BY <2>1
<1>4. Cardinality(S \cup T) = Cardinality(S) + Cardinality(T) - Cardinality(S \cap T)
  BY <1>1, FS_Union
<1>5. Cardinality(S \cap T) = 0 /\ Cardinality(S) \in Nat /\ Cardinality(T) \in Nat
  BY <1>1, <1>3, FS_EmptySet, FS_CardinalityType
<1>6. Count(ptr, O \cup U, a) = Cardinality(S \cup T)
  BY <1>2 DEF Count, Holders
<1> HIDE DEF S, T
<1> QED
  BY <1>1, <1>4, <1>5, <1>6

\* Only what the objects hold matters.
LEMMA CountSame ==
    ASSUME NEW f, NEW g, NEW O, NEW a, \A o \in O : f[o] = g[o]
    PROVE  Count(f, O, a) = Count(g, O, a)
<1>1. {x \in O \X Parts : f[x[1]][x[2]] = a} = {x \in O \X Parts : g[x[1]][x[2]] = a}
  <2>1. \A x \in O \X Parts : f[x[1]] = g[x[1]]
    OBVIOUS
  <2> QED
    BY <2>1
<1> QED
  BY <1>1 DEF Count

\* Counting pairs of object and part is counting objects.
LEMMA CountObjects ==
    ASSUME NEW ptr, NEW O, IsFiniteSet(O), NEW a, OnceOnly(ptr, O, a)
    PROVE  Count(ptr, O, a) = Cardinality({o \in O : \E p \in Parts : ptr[o][p] = a})
<1> DEFINE S == Holders(ptr, O, a)
           T == {o \in O : \E p \in Parts : ptr[o][p] = a}
           f == [x \in S |-> x[1]]
<1>1. IsFiniteSet(S) /\ Count(ptr, O, a) = Cardinality(S)
  BY CountType
<1>2. f \in [S -> T]
  BY DEF Holders
<1>3. \A x, y \in S : f[x] = f[y] => x = y
  <2> SUFFICES ASSUME NEW x \in S, NEW y \in S, f[x] = f[y]
               PROVE  x = y
    OBVIOUS
  <2>1. x[1] = y[1] /\ x[1] \in O
    BY DEF Holders
  <2>2. x[2] = y[2]
    BY <2>1 DEF Holders, OnceOnly
  <2>3. x = <<x[1], x[2]>> /\ y = <<y[1], y[2]>>
    BY DEF Holders
  <2> QED
    BY <2>1, <2>2, <2>3
<1>4. \A o \in T : \E x \in S : f[x] = o
  <2> SUFFICES ASSUME NEW o \in T
               PROVE  \E x \in S : f[x] = o
    OBVIOUS
  <2>1. PICK p \in Parts : ptr[o][p] = a
    OBVIOUS
  <2>2. <<o, p>> \in S
    BY <2>1 DEF Holders
  <2>3. f[<<o, p>>] = o
    BY <2>2
  <2> QED
    BY <2>2, <2>3
<1> HIDE DEF f, S, T
<1>5. f \in Bijection(S, T)
  BY <1>2, <1>3, <1>4 DEF Bijection, Injection, Surjection, IsInjective
<1>6. Cardinality(S) = Cardinality(T)
  BY <1>1, <1>5, FS_Bijection DEF ExistsBijection
<1> QED
  BY <1>1, <1>6 DEF T

-----------------------------------------------------------------------------
(* What a match is built of                                                 *)

ObjectKinds == {"sky", "hero", "house", "wall", "sign"}
MeshKinds == {"mesh", "no mesh", "house mesh", "wall mesh", "sky mesh", "sign mesh"}
TextureKinds ==
    {"texture", "no texture", "house texture", "wall texture", "red", "blue"}
KindsOf(p) ==
    IF p = "mesh" THEN MeshKinds
    ELSE IF p = "material" THEN {"material"} ELSE TextureKinds
AssetKinds == MeshKinds \cup {"material"} \cup TextureKinds

\* The kind of an asset says which part of an object it can be, and it is none
\* of an object's.
LEMMA KindsApart ==
    /\ \A p \in Parts : KindsOf(p) \subseteq AssetKinds
    /\ \A p, q \in Parts : KindsOf(p) \cap KindsOf(q) # {} => p = q
    /\ AssetKinds \cap ObjectKinds = {}
    /\ None[1] \notin AssetKinds \cup ObjectKinds
BY DEF Parts, KindsOf, AssetKinds, MeshKinds, TextureKinds, ObjectKinds, None

\* The set of the objects <<k, n, i>> is finite when that of the i is.
LEMMA NumberedFinite ==
    ASSUME NEW S, IsFiniteSet(S), NEW k, NEW n
    PROVE  IsFiniteSet({<<k, n, i>> : i \in S})
<1> DEFINE T == {<<k, n, i>> : i \in S}
           f == [i \in S |-> <<k, n, i>>]
<1>1. f \in Surjection(S, T)
  BY DEF Surjection
<1> QED
  BY <1>1, FS_Surjection

\* A match has finitely many objects.
LEMMA ObjectsFinite == ASSUME NEW n PROVE IsFiniteSet(Objects(n))
<1>1. IsFiniteSet({Sky(n)})
  BY FS_Singleton
<1>2. /\ IsFiniteSet({Hero(i) : i \in Seats}) /\ IsFiniteSet({Sign(n, i) : i \in Seats})
      /\ IsFiniteSet({House(n, k) : k \in Houses}) /\ IsFiniteSet({Wall(n, k) : k \in Walls})
  <2>1. IsFiniteSet(Seats) /\ IsFiniteSet(Houses) /\ IsFiniteSet(Walls)
    BY AssetsAssumption
  <2>2. IsFiniteSet({Hero(i) : i \in Seats})
    BY <2>1, NumberedFinite DEF Hero
  <2>3. IsFiniteSet({Sign(n, i) : i \in Seats})
    BY <2>1, NumberedFinite DEF Sign
  <2>4. IsFiniteSet({House(n, k) : k \in Houses})
    BY <2>1, NumberedFinite DEF House
  <2>5. IsFiniteSet({Wall(n, k) : k \in Walls})
    BY <2>1, NumberedFinite DEF Wall
  <2> QED
    BY <2>2, <2>3, <2>4, <2>5
<1>3. IsFiniteSet({Sky(n)} \cup {Hero(i) : i \in Seats})
  BY <1>1, <1>2, FS_Union
<1>4. IsFiniteSet({Sky(n)} \cup {Hero(i) : i \in Seats} \cup {House(n, k) : k \in Houses})
  BY <1>2, <1>3, FS_Union
<1>5. IsFiniteSet({Sky(n)} \cup {Hero(i) : i \in Seats} \cup {House(n, k) : k \in Houses}
                      \cup {Wall(n, k) : k \in Walls})
  BY <1>2, <1>4, FS_Union
<1>6. IsFiniteSet({Sky(n)} \cup {Hero(i) : i \in Seats} \cup {House(n, k) : k \in Houses}
                      \cup {Wall(n, k) : k \in Walls} \cup {Sign(n, i) : i \in Seats})
  BY <1>2, <1>5, FS_Union
<1> QED
  BY <1>6 DEF Objects

\* An object is a hero, which is as old as the scene, or of the match it was
\* made for.
LEMMA ObjectNames ==
    ASSUME NEW n \in Nat, NEW o \in Objects(n)
    PROVE  /\ o[1] \in ObjectKinds
           /\ o[1] = "hero" => o[2] = 0 /\ \E i \in Seats : o = Hero(i)
           /\ o[1] # "hero" => o[2] = n
           /\ o[1] = "sky" => o = Sky(n)
           /\ o[3] \in Nat
           /\ o[1] \in {"hero", "sign"} => o[3] \in Seats
<1>1. CASE o = Sky(n)
  BY <1>1 DEF Sky, ObjectKinds
<1>2. CASE \E i \in Seats : o = Hero(i)
  BY <1>2, AssetsAssumption DEF Hero, ObjectKinds
<1>3. CASE \E k \in Houses : o = House(n, k)
  BY <1>3, AssetsAssumption DEF House, ObjectKinds
<1>4. CASE \E k \in Walls : o = Wall(n, k)
  BY <1>4, AssetsAssumption DEF Wall, ObjectKinds
<1>5. CASE \E i \in Seats : o = Sign(n, i)
  BY <1>5, AssetsAssumption DEF Sign, ObjectKinds
<1> QED
  BY <1>1, <1>2, <1>3, <1>4, <1>5 DEF Objects

\* An object gets assets of the match, each in its part.
Fits(a, p, n) == a # None => a[1] \in KindsOf(p) /\ a[2] = n
AllFit(w, n) == \A p \in Parts : Fits(w[p], p, n)

LEMMA OutfitFits ==
    ASSUME NEW a, NEW b, NEW c, NEW n,
           Fits(a, "mesh", n), Fits(b, "material", n), Fits(c, "texture", n)
    PROVE  AllFit(Outfit(a, b, c), n)
<1>1. /\ Outfit(a, b, c)["mesh"] = a /\ Outfit(a, b, c)["material"] = b
      /\ Outfit(a, b, c)["texture"] = c
  BY DEF Outfit
<1> QED
  BY <1>1 DEF AllFit, Parts

LEMMA OutfitParts ==
    ASSUME NEW h, NEW n \in Nat, NEW cast, NEW o \in Objects(n)
    PROVE  AllFit(Outfits(h, n, cast)[o], n)
<1>1. Outfits(h, n, cast)[o] =
          CASE o = Sky(n) -> BuildSky(n)
            [] o[1] = "hero" -> Dress(h, n, o[3], cast[o[3]])
            [] o[1] = "house" -> BuildHouse(n)
            [] o[1] = "wall" -> BuildWall(n)
            [] o[1] = "sign" -> BuildSign(n, o[3], cast[o[3]])
  BY DEF Outfits
<1>2. Fits(None, "material", n) /\ Fits(None, "texture", n) /\ Fits(Material(n), "material", n)
  BY DEF Fits, KindsOf, Material
<1>3. CASE o[1] = "sky"
  <2>1. o = Sky(n)
    BY <1>3, ObjectNames
  <2>2. Fits(<<"sky mesh", n, 0>>, "mesh", n)
    BY DEF Fits, KindsOf, MeshKinds
  <2>3. Outfits(h, n, cast)[o] = BuildSky(n)
    BY <1>1, <1>3, <2>1
  <2> QED
    BY <1>2, <2>2, <2>3, OutfitFits DEF BuildSky
<1>4. CASE o[1] = "hero"
  <2>1. Outfits(h, n, cast)[o] = Dress(h, n, o[3], cast[o[3]])
    BY <1>1, <1>4 DEF Sky
  <2>2. /\ Fits(NoMesh(n), "mesh", n) /\ Fits(OwnMesh(n, o[3]), "mesh", n)
        /\ Fits(<<"no texture", n, 0>>, "texture", n)
        /\ Fits(<<"texture", n, o[3]>>, "texture", n)
    BY DEF NoMesh, OwnMesh, Fits, KindsOf, MeshKinds, TextureKinds
  <2> QED
    BY <1>2, <2>1, <2>2, OutfitFits DEF Dress
<1>5. CASE o[1] = "house"
  <2>1. Outfits(h, n, cast)[o] = BuildHouse(n)
    BY <1>1, <1>5 DEF Sky
  <2>2. Fits(<<"house mesh", n, 0>>, "mesh", n) /\ Fits(<<"house texture", n, 0>>, "texture", n)
    BY DEF Fits, KindsOf, MeshKinds, TextureKinds
  <2> QED
    BY <1>2, <2>1, <2>2, OutfitFits DEF BuildHouse
<1>6. CASE o[1] = "wall"
  <2>1. Outfits(h, n, cast)[o] = BuildWall(n)
    BY <1>1, <1>6 DEF Sky
  <2>2. Fits(<<"wall mesh", n, 0>>, "mesh", n) /\ Fits(<<"wall texture", n, 0>>, "texture", n)
    BY DEF Fits, KindsOf, MeshKinds, TextureKinds
  <2> QED
    BY <1>2, <2>1, <2>2, OutfitFits DEF BuildWall
<1>7. CASE o[1] = "sign"
  <2>1. Outfits(h, n, cast)[o] = BuildSign(n, o[3], cast[o[3]])
    BY <1>1, <1>7 DEF Sky
  <2>2. /\ Fits(<<"sign mesh", n, o[3]>>, "mesh", n)
        /\ Fits(<<"red", n, 0>>, "texture", n) /\ Fits(<<"blue", n, 0>>, "texture", n)
    BY DEF Fits, KindsOf, MeshKinds, TextureKinds
  <2> QED
    BY <1>2, <2>1, <2>2, OutfitFits DEF BuildSign
<1> QED
  BY <1>3, <1>4, <1>5, <1>6, <1>7, ObjectNames DEF ObjectKinds

-----------------------------------------------------------------------------
(* The scene graph in the n-th match                                        *)

\* Objects and assets have names of their kind and of a match up to this one,
\* and all that is not an object is an asset.
Named(h, n) ==
    /\ IsFiniteSet(DOMAIN h.ptr) /\ DOMAIN h.ptr \subseteq DOMAIN h.refs
    /\ \A o \in DOMAIN h.ptr : o[1] \in ObjectKinds
    /\ \A a \in DOMAIN h.refs :
           h.refs[a] \in Int /\ a[2] \in 0 .. n /\ (a \in DOMAIN h.ptr \/ a[1] \in AssetKinds)

\* What an object holds is alive.
Pointing(h) ==
    \A o \in DOMAIN h.ptr, p \in Parts :
        h.ptr[o][p] # None => h.ptr[o][p] \in DOMAIN h.refs /\ h.ptr[o][p][1] \in KindsOf(p)

\* A count is the number of holders.
Counted(h) ==
    \A a \in DOMAIN h.refs \ DOMAIN h.ptr : h.refs[a] = Count(h.ptr, DOMAIN h.ptr, a)

\* Which objects there are, how often each was hung up, and which are now
Aged(h, n) ==
    /\ \A i \in Seats : Hero(i) \in DOMAIN h.ptr
    /\ n > 0 => Objects(n) \subseteq DOMAIN h.ptr
    /\ \A o \in DOMAIN h.ptr :
           /\ o[1] = "hero" => o[2] = 0 /\ (\E i \in Seats : o = Hero(i)) /\ h.refs[o] = n
           /\ o[1] # "hero" => h.refs[o] <= 1
           /\ o[1] # "hero" /\ o[2] = 0 => o[1] = "sign"
           /\ o[2] = n /\ n > 0 => o \in Objects(n)
    /\ h.hung = IF n = 0 THEN {} ELSE Objects(n) \ {LostHouse(n)}

Sound(h, n) == Named(h, n) /\ Pointing(h) /\ Counted(h) /\ Aged(h, n)

\* A new scene
LEMMA EmptySound == Sound(EmptyScene, 0)
<1> DEFINE O == {Hero(i) : i \in Seats} \cup {Sign(0, i) : i \in Seats}
<1>1. /\ EmptyScene.refs = [o \in O |-> 0] /\ EmptyScene.ptr = [o \in O |-> Bare]
      /\ EmptyScene.hung = {}
  BY DEF EmptyScene
<1>2. IsFiniteSet(O)
  <2>1. IsFiniteSet(Seats)
    BY AssetsAssumption
  <2>2. IsFiniteSet({Hero(i) : i \in Seats})
    BY <2>1, NumberedFinite DEF Hero
  <2>3. IsFiniteSet({Sign(0, i) : i \in Seats})
    BY <2>1, NumberedFinite DEF Sign
  <2> QED
    BY <2>2, <2>3, FS_Union
<1>3. \A o \in O : /\ o[1] \in {"hero", "sign"} /\ o[2] = 0
                   /\ o[1] = "hero" => \E i \in Seats : o = Hero(i)
  BY DEF Hero, Sign
<1>4. \A i \in Seats : Hero(i) \in O
  OBVIOUS
<1> HIDE DEF O
<1>5. \A o \in O, p \in Parts : EmptyScene.ptr[o][p] = None
  BY <1>1 DEF Bare
<1>6. Named(EmptyScene, 0)
  BY <1>1, <1>2, <1>3 DEF Named, ObjectKinds
<1>7. Pointing(EmptyScene)
  BY <1>1, <1>5 DEF Pointing
<1>8. Counted(EmptyScene)
  BY <1>1 DEF Counted
<1>9. Aged(EmptyScene, 0)
  BY <1>1, <1>3, <1>4 DEF Aged
<1> QED
  BY <1>6, <1>7, <1>8, <1>9 DEF Sound

\* Nothing holds an object, or None by its name.
LEMMA AssetsHeld ==
    ASSUME NEW h, NEW n \in Nat, Named(h, n), Pointing(h),
           NEW o \in DOMAIN h.ptr, NEW p \in Parts, h.ptr[o][p] # None
    PROVE  /\ h.ptr[o][p] \in DOMAIN h.refs \ DOMAIN h.ptr
           /\ h.ptr[o][p][1] \in AssetKinds
<1>1. h.ptr[o][p] \in DOMAIN h.refs /\ h.ptr[o][p][1] \in KindsOf(p)
  BY DEF Pointing
<1>2. h.ptr[o][p][1] \in AssetKinds /\ h.ptr[o][p][1] \notin ObjectKinds
  BY <1>1, KindsApart
<1> QED
  BY <1>1, <1>2 DEF Named

\* What survives when the objects K let go of what they hold
Kept(h, K) == {a \in DOMAIN h.refs : Survives(h.refs, a, Count(h.ptr, K, a))}

\* What some other object holds is not deleted; nor is an object.
LEMMA StaysHeld ==
    ASSUME NEW h, NEW n \in Nat, Sound(h, n), NEW K, K \subseteq DOMAIN h.ptr,
           NEW a \in DOMAIN h.refs
    PROVE  LET U == DOMAIN h.ptr \ K
           IN /\ Count(h.ptr, K, a) \in Nat /\ Count(h.ptr, U, a) \in Nat
              /\ a \in DOMAIN h.ptr =>
                     a \in Kept(h, K) /\ Count(h.ptr, K, a) = 0 /\ Count(h.ptr, U, a) = 0
              /\ a \notin DOMAIN h.ptr => h.refs[a] = Count(h.ptr, K, a) + Count(h.ptr, U, a)
              /\ Count(h.ptr, U, a) # 0 => a \in Kept(h, K)
<1> DEFINE U == DOMAIN h.ptr \ K
<1>1. IsFiniteSet(DOMAIN h.ptr) /\ Named(h, n) /\ Pointing(h) /\ Counted(h)
  BY DEF Sound, Named
<1>2. IsFiniteSet(K) /\ IsFiniteSet(U) /\ K \cap U = {} /\ K \cup U = DOMAIN h.ptr
  <2>1. K \in SUBSET DOMAIN h.ptr /\ U \in SUBSET DOMAIN h.ptr
    OBVIOUS
  <2>2. IsFiniteSet(K) /\ IsFiniteSet(U)
    BY <1>1, <2>1, FS_Subset
  <2> QED
    BY <2>2
<1>3. Count(h.ptr, K, a) \in Nat /\ Count(h.ptr, U, a) \in Nat
  BY <1>2, CountType
<1>4. Count(h.ptr, DOMAIN h.ptr, a) = Count(h.ptr, K, a) + Count(h.ptr, U, a)
  <2>1. Count(h.ptr, K \cup U, a) = Count(h.ptr, K, a) + Count(h.ptr, U, a)
    BY <1>2, CountSplit
  <2> QED
    BY <1>2, <2>1
<1>5. ASSUME a \in DOMAIN h.ptr
      PROVE  Count(h.ptr, K, a) = 0 /\ Count(h.ptr, U, a) = 0
  <2>1. \A o \in DOMAIN h.ptr, p \in Parts : h.ptr[o][p] # a
    <3> SUFFICES ASSUME NEW o \in DOMAIN h.ptr, NEW p \in Parts, h.ptr[o][p] = a
                 PROVE  FALSE
      OBVIOUS
    <3>1. a # None
      BY <1>1, <1>5, KindsApart DEF Named
    <3> QED
      BY <1>1, <1>5, <3>1, AssetsHeld
  <2>2. \A o \in K, p \in Parts : h.ptr[o][p] # a
    BY <1>2, <2>1
  <2>3. \A o \in U, p \in Parts : h.ptr[o][p] # a
    BY <2>1
  <2> QED
    BY <1>2, <2>2, <2>3, CountType
<1>6. h.refs[a] \in Int /\ (a \notin DOMAIN h.ptr => h.refs[a] = Count(h.ptr, DOMAIN h.ptr, a))
  BY <1>1 DEF Named, Counted
<1>7. a \in Kept(h, K) <=> Count(h.ptr, K, a) = 0 \/ h.refs[a] > Count(h.ptr, K, a)
  BY DEF Kept, Survives
<1> HIDE DEF U
<1>8. /\ a \in DOMAIN h.ptr => a \in Kept(h, K)
      /\ a \notin DOMAIN h.ptr => h.refs[a] = Count(h.ptr, K, a) + Count(h.ptr, U, a)
      /\ Count(h.ptr, U, a) # 0 => a \in Kept(h, K)
  BY <1>3, <1>4, <1>5, <1>6, <1>7
<1> QED
  BY <1>3, <1>5, <1>8 DEF U

-----------------------------------------------------------------------------
(* New parts for the objects                                                *)

\* What the outfits of a match are made of.
Complete(h, n, made, new) ==
    /\ IsFiniteSet(DOMAIN new)
    /\ \A o \in DOMAIN new : AllFit(new[o], n + 1)
    /\ \A o \in DOMAIN new, p \in Parts : new[o][p] # None => new[o][p] \in made
    /\ \A a \in made : a[1] \in AssetKinds /\ a[2] = n + 1
    /\ \A o \in DOMAIN new :
           o[1] \in ObjectKinds /\ IF o \in DOMAIN h.ptr THEN o[2] = 0 ELSE o[2] = n + 1

Known(h, new) == DOMAIN new \cap DOMAIN h.ptr

\* Equip, part by part
LEMMA EquipParts ==
    ASSUME NEW h, NEW made, NEW new
    PROVE  LET g == Equip(h, made, new)
           IN /\ g.ptr = Assign(h.ptr, new) /\ g.hung = h.hung
              /\ DOMAIN g.ptr = DOMAIN h.ptr \cup DOMAIN new
              /\ \A o \in DOMAIN new : g.ptr[o] = new[o]
              /\ \A o \in DOMAIN h.ptr \ DOMAIN new : g.ptr[o] = h.ptr[o]
              /\ DOMAIN g.refs = Kept(h, Known(h, new)) \cup made \cup DOMAIN new
              /\ \A a \in DOMAIN g.refs : g.refs[a] =
                     (IF a \in Kept(h, Known(h, new)) THEN h.refs[a] - Count(h.ptr, Known(h, new), a) ELSE 0)
                         + Count(new, DOMAIN new, a)
BY DEF Equip, Assign, Kept, Known

\* The same for the objects that get new parts
LEMMA RestHeld ==
    ASSUME NEW h, NEW n \in Nat, Sound(h, n), NEW new, NEW a \in DOMAIN h.refs
    PROVE  LET K == Known(h, new)
               U == DOMAIN h.ptr \ DOMAIN new
           IN /\ Count(h.ptr, K, a) \in Nat /\ Count(h.ptr, U, a) \in Nat
              /\ a \in DOMAIN h.ptr =>
                     a \in Kept(h, K) /\ Count(h.ptr, K, a) = 0 /\ Count(h.ptr, U, a) = 0
              /\ a \notin DOMAIN h.ptr => h.refs[a] = Count(h.ptr, K, a) + Count(h.ptr, U, a)
              /\ Count(h.ptr, U, a) # 0 => a \in Kept(h, K)
<1> DEFINE K == Known(h, new)
<1>1. K \subseteq DOMAIN h.ptr /\ DOMAIN h.ptr \ K = DOMAIN h.ptr \ DOMAIN new
  BY DEF Known
<1> HIDE DEF K
<1>2. /\ Count(h.ptr, K, a) \in Nat /\ Count(h.ptr, DOMAIN h.ptr \ K, a) \in Nat
      /\ a \in DOMAIN h.ptr =>
             /\ a \in Kept(h, K) /\ Count(h.ptr, K, a) = 0
             /\ Count(h.ptr, DOMAIN h.ptr \ K, a) = 0
      /\ a \notin DOMAIN h.ptr =>
             h.refs[a] = Count(h.ptr, K, a) + Count(h.ptr, DOMAIN h.ptr \ K, a)
      /\ Count(h.ptr, DOMAIN h.ptr \ K, a) # 0 => a \in Kept(h, K)
  BY <1>1, StaysHeld
<1> QED
  BY <1>1, <1>2 DEF K

\* The objects keep their counts, and new ones begin with none.
LEMMA EquipObjects ==
    ASSUME NEW h, NEW n \in Nat, Sound(h, n), NEW made, NEW new, Complete(h, n, made, new),
           NEW o \in DOMAIN h.ptr \cup DOMAIN new
    PROVE  LET g == Equip(h, made, new)
           IN o \in DOMAIN g.refs /\ g.refs[o] = IF o \in DOMAIN h.ptr THEN h.refs[o] ELSE 0
<1> DEFINE g == Equip(h, made, new)
<1>1. Count(new, DOMAIN new, o) = 0
  <2>1. IsFiniteSet(DOMAIN new)
    BY DEF Complete
  <2>2. o[1] \in ObjectKinds
    BY DEF Complete, Sound, Named
  <2>3. \A x \in DOMAIN new, p \in Parts : new[x][p] # o
    <3> SUFFICES ASSUME NEW x \in DOMAIN new, NEW p \in Parts, new[x][p] = o
                 PROVE  FALSE
      OBVIOUS
    <3>1. o # None
      BY <2>2, KindsApart
    <3>2. o \in made
      BY <3>1 DEF Complete
    <3>3. o[1] \in AssetKinds
      BY <3>2 DEF Complete
    <3> QED
      BY <2>2, <3>3, KindsApart
  <2> QED
    BY <2>1, <2>3, CountType
<1>2. CASE o \in DOMAIN h.ptr
  <2>1. o \in DOMAIN h.refs /\ h.refs[o] \in Int
    BY <1>2 DEF Sound, Named
  <2>2. o \in Kept(h, Known(h, new)) /\ Count(h.ptr, Known(h, new), o) = 0
    <3>1. o \in DOMAIN h.ptr =>
              /\ o \in Kept(h, Known(h, new)) /\ Count(h.ptr, Known(h, new), o) = 0
              /\ Count(h.ptr, DOMAIN h.ptr \ DOMAIN new, o) = 0
      BY <2>1, RestHeld
    <3> QED
      BY <1>2, <3>1
  <2>3. o \in DOMAIN g.refs
    BY <2>2, EquipParts
  <2>4. g.refs[o] = (h.refs[o] - 0) + 0
    BY <1>1, <2>2, <2>3, EquipParts
  <2> QED
    BY <1>2, <2>1, <2>3, <2>4
<1>3. CASE o \notin DOMAIN h.ptr
  <2>1. o \in DOMAIN new /\ o[2] = n + 1
    BY <1>3 DEF Complete
  <2>2. o \notin DOMAIN h.refs
    <3>1. \A a \in DOMAIN h.refs : a[2] \in 0 .. n
      BY DEF Sound, Named
    <3>2. n + 1 \notin 0 .. n
      OBVIOUS
    <3> QED
      BY <2>1, <3>1, <3>2
  <2>3. o \notin Kept(h, Known(h, new))
    BY <2>2 DEF Kept
  <2>4. o \in DOMAIN g.refs
    BY <2>1, EquipParts
  <2>5. g.refs[o] = 0 + 0
    BY <1>1, <2>3, <2>4, EquipParts
  <2> QED
    BY <1>3, <2>4, <2>5
<1> QED
  BY <1>2, <1>3

\* What an object holds is alive afterwards: its new parts are, and the old ones
\* of the others are still held.
LEMMA EquipPointing ==
    ASSUME NEW h, NEW n \in Nat, Sound(h, n), NEW made, NEW new, Complete(h, n, made, new)
    PROVE  Pointing(Equip(h, made, new))
<1> DEFINE g == Equip(h, made, new)
           U == DOMAIN h.ptr \ DOMAIN new
<1> SUFFICES ASSUME NEW o \in DOMAIN g.ptr, NEW p \in Parts, g.ptr[o][p] # None
             PROVE  g.ptr[o][p] \in DOMAIN g.refs /\ g.ptr[o][p][1] \in KindsOf(p)
  BY DEF Pointing
<1>1. DOMAIN g.ptr = DOMAIN h.ptr \cup DOMAIN new
  BY EquipParts
<1>2. CASE o \in DOMAIN new
  <2>1. g.ptr[o] = new[o]
    BY <1>2, EquipParts
  <2>2. new[o][p] \in made
    BY <1>2, <2>1 DEF Complete
  <2>3. new[o][p][1] \in KindsOf(p)
    <3>1. AllFit(new[o], n + 1)
      BY <1>2 DEF Complete
    <3>2. Fits(new[o][p], p, n + 1)
      BY <3>1 DEF AllFit
    <3> QED
      BY <2>1, <3>2 DEF Fits
  <2> QED
    BY <2>1, <2>2, <2>3, EquipParts
<1>3. CASE o \notin DOMAIN new
  <2>1. o \in DOMAIN h.ptr /\ o \in U /\ g.ptr[o] = h.ptr[o]
    BY <1>1, <1>3, EquipParts
  <2> DEFINE a == h.ptr[o][p]
  <2>2. a \in DOMAIN h.refs /\ a[1] \in KindsOf(p)
    BY <2>1 DEF Sound, Pointing
  <2>3. Count(h.ptr, U, a) # 0
    <3>1. IsFiniteSet(DOMAIN h.ptr) /\ U \in SUBSET DOMAIN h.ptr
      BY DEF Sound, Named
    <3>2. IsFiniteSet(U)
      BY <3>1, FS_Subset
    <3> QED
      BY <2>1, <3>2, CountType
  <2>4. a \in Kept(h, Known(h, new))
    BY <2>2, <2>3, RestHeld
  <2> QED
    BY <2>1, <2>2, <2>4, EquipParts
<1> QED
  BY <1>2, <1>3

\* Objects and assets are those there were and the new ones.
LEMMA EquipNamed ==
    ASSUME NEW h, NEW n \in Nat, Sound(h, n), NEW made, NEW new, Complete(h, n, made, new)
    PROVE  Named(Equip(h, made, new), n + 1)
<1> DEFINE g == Equip(h, made, new)
<1>1. /\ IsFiniteSet(DOMAIN h.ptr) /\ IsFiniteSet(DOMAIN new)
      /\ \A o \in DOMAIN h.ptr : o[1] \in ObjectKinds
      /\ \A o \in DOMAIN new : o[1] \in ObjectKinds /\ (o[2] = 0 \/ o[2] = n + 1)
      /\ \A a \in DOMAIN h.refs : /\ h.refs[a] \in Int /\ a[2] \in 0 .. n
                                  /\ a \in DOMAIN h.ptr \/ a[1] \in AssetKinds
      /\ \A a \in made : a[1] \in AssetKinds /\ a[2] = n + 1
  BY DEF Sound, Named, Complete
<1>2. DOMAIN g.ptr = DOMAIN h.ptr \cup DOMAIN new
  BY EquipParts
<1>3. IsFiniteSet(DOMAIN g.ptr)
  <2>1. IsFiniteSet(DOMAIN h.ptr \cup DOMAIN new)
    BY <1>1, FS_Union
  <2> QED
    BY <1>2, <2>1, Zenon
<1>4. DOMAIN g.ptr \subseteq DOMAIN g.refs
  BY <1>2, EquipObjects
<1>5. \A o \in DOMAIN g.ptr : o[1] \in ObjectKinds
  BY <1>1, <1>2
<1>6. ASSUME NEW a \in DOMAIN g.refs
      PROVE  /\ g.refs[a] \in Int /\ a[2] \in 0 .. n + 1
             /\ a \in DOMAIN g.ptr \/ a[1] \in AssetKinds
  <2>1. Count(new, DOMAIN new, a) \in Nat
    BY <1>1, CountType
  <2>2. a \in DOMAIN h.refs \/ a \in made \/ a \in DOMAIN new
    BY EquipParts DEF Kept
  <2>3. a[2] \in 0 .. n + 1 /\ (a \in DOMAIN g.ptr \/ a[1] \in AssetKinds)
    BY <1>1, <1>2, <2>2
  <2>4. ASSUME a \in Kept(h, Known(h, new))
        PROVE  h.refs[a] \in Int /\ Count(h.ptr, Known(h, new), a) \in Nat
    BY <1>1, <2>4, RestHeld DEF Kept
  <2>5. g.refs[a] = (IF a \in Kept(h, Known(h, new)) THEN h.refs[a] - Count(h.ptr, Known(h, new), a) ELSE 0)
                        + Count(new, DOMAIN new, a)
    BY EquipParts
  <2>6. g.refs[a] \in Int
    BY <2>1, <2>4, <2>5
  <2> QED
    BY <2>3, <2>6
<1> QED
  BY <1>3, <1>4, <1>5, <1>6 DEF Named

\* Each asset has lost the holders that got new parts, and won the new ones.
LEMMA EquipCounted ==
    ASSUME NEW h, NEW n \in Nat, Sound(h, n), NEW made, NEW new, Complete(h, n, made, new)
    PROVE  Counted(Equip(h, made, new))
<1> DEFINE g == Equip(h, made, new)
           K == Known(h, new)
           N == DOMAIN new
           U == DOMAIN h.ptr \ N
<1> SUFFICES ASSUME NEW a \in DOMAIN g.refs \ DOMAIN g.ptr
             PROVE  g.refs[a] = Count(g.ptr, DOMAIN g.ptr, a)
  BY DEF Counted
<1>1. /\ IsFiniteSet(N) /\ IsFiniteSet(U) /\ U \cap N = {} /\ DOMAIN g.ptr = U \cup N
  <2>1. IsFiniteSet(DOMAIN h.ptr) /\ U \in SUBSET DOMAIN h.ptr
    BY DEF Sound, Named
  <2>2. IsFiniteSet(U) /\ IsFiniteSet(N)
    BY <2>1, FS_Subset DEF Complete
  <2> QED
    BY <2>2, EquipParts
<1>2. Count(g.ptr, DOMAIN g.ptr, a) = Count(h.ptr, U, a) + Count(new, N, a)
  <2>1. Count(g.ptr, U \cup N, a) = Count(g.ptr, U, a) + Count(g.ptr, N, a)
    BY <1>1, CountSplit
  <2>2. (\A o \in U : g.ptr[o] = h.ptr[o]) /\ (\A o \in N : g.ptr[o] = new[o])
    BY EquipParts
  <2>3. Count(g.ptr, U, a) = Count(h.ptr, U, a)
    BY <2>2, CountSame
  <2>4. Count(g.ptr, N, a) = Count(new, N, a)
    BY <2>2, CountSame
  <2> QED
    BY <1>1, <2>1, <2>3, <2>4
<1>3. Count(new, N, a) \in Nat
  BY <1>1, CountType
<1>4. g.refs[a] = (IF a \in Kept(h, Known(h, new)) THEN h.refs[a] - Count(h.ptr, K, a) ELSE 0)
                      + Count(new, N, a)
  BY EquipParts
<1>5. a \notin DOMAIN h.ptr /\ a \notin N
  BY <1>1
<1>6. CASE a \in Kept(h, Known(h, new))
  <2>1. a \in DOMAIN h.refs
    BY <1>6 DEF Kept
  <2>2. /\ h.refs[a] = Count(h.ptr, K, a) + Count(h.ptr, U, a)
        /\ Count(h.ptr, K, a) \in Nat /\ Count(h.ptr, U, a) \in Nat
    <3>1. a \notin DOMAIN h.ptr => h.refs[a] = Count(h.ptr, K, a) + Count(h.ptr, U, a)
      BY <2>1, RestHeld
    <3>2. Count(h.ptr, K, a) \in Nat /\ Count(h.ptr, U, a) \in Nat
      BY <2>1, RestHeld
    <3> QED
      BY <1>5, <3>1, <3>2
  <2> HIDE DEF g, K, U, N
  <2> QED
    BY <1>2, <1>3, <1>4, <1>6, <2>2
<1>7. CASE a \notin Kept(h, Known(h, new))
  <2>1. CASE a \in DOMAIN h.refs
    <3>1. Count(h.ptr, U, a) = 0
      BY <1>7, <2>1, RestHeld
    <3> HIDE DEF g, K, U, N
    <3> QED
      BY <1>2, <1>3, <1>4, <1>7, <3>1
  <2>2. CASE a \notin DOMAIN h.refs
    <3>1. a # None
      <4>1. a \in made
        BY <1>5, <1>7, EquipParts
      <4> QED
        BY <4>1, KindsApart DEF Complete
    <3>2. \A o \in U, p \in Parts : h.ptr[o][p] # a
      BY <2>2, <3>1 DEF Sound, Pointing
    <3>3. Count(h.ptr, U, a) = 0
      BY <1>1, <3>2, CountType
    <3> HIDE DEF g, K, U, N
    <3> QED
      BY <1>2, <1>3, <1>4, <1>7, <3>3
  <2> QED
    BY <2>1, <2>2
<1> QED
  BY <1>6, <1>7

-----------------------------------------------------------------------------
(* A new match                                                              *)

Made(n, new) ==
    BuildTextures(n) \cup BuildMeshes(n)
        \cup ({new[o][p] : o \in DOMAIN new, p \in Parts} \ {None})

\* BuildObjects makes all that its objects get, under new names.
LEMMA OutfitsComplete ==
    ASSUME NEW h, NEW n \in Nat, Sound(h, n), NEW cast
    PROVE  LET new == Outfits(h, n + 1, cast)
           IN DOMAIN new = Objects(n + 1) /\ Complete(h, n, Made(n + 1, new), new)
<1> DEFINE m == n + 1
           new == Outfits(h, m, cast)
           made == Made(m, new)
<1>1. m \in Nat /\ DOMAIN new = Objects(m)
  BY DEF Outfits
<1>2. IsFiniteSet(DOMAIN new)
  BY <1>1, ObjectsFinite
<1>3. \A o \in DOMAIN new : AllFit(new[o], m)
  BY <1>1, OutfitParts
<1>4. \A o \in DOMAIN new, p \in Parts : new[o][p] # None => new[o][p] \in made
  BY DEF Made
<1>5. ASSUME NEW a \in made
      PROVE  a[1] \in AssetKinds /\ a[2] = m
  <2>1. CASE a \in BuildTextures(m) \cup BuildMeshes(m)
    <3>1. PICK k \in AssetKinds : a = <<k, m, 0>>
      BY <2>1 DEF BuildTextures, BuildMeshes, AssetKinds, MeshKinds, TextureKinds
    <3> QED
      BY <3>1
  <2>2. CASE a \notin BuildTextures(m) \cup BuildMeshes(m)
    <3>1. PICK o \in DOMAIN new, p \in Parts : a = new[o][p] /\ a # None
      BY <2>2 DEF Made
    <3>2. Fits(new[o][p], p, m)
      BY <1>3 DEF AllFit
    <3> QED
      BY <3>1, <3>2, KindsApart DEF Fits
  <2> QED
    BY <2>1, <2>2
<1>6. ASSUME NEW o \in DOMAIN new
      PROVE  o[1] \in ObjectKinds /\ IF o \in DOMAIN h.ptr THEN o[2] = 0 ELSE o[2] = m
  <2>1. /\ o[1] \in ObjectKinds
        /\ o[1] = "hero" => o[2] = 0 /\ \E i \in Seats : o = Hero(i)
        /\ o[1] # "hero" => o[2] = m
    BY <1>1, ObjectNames
  <2>2. o[1] = "hero" => o \in DOMAIN h.ptr
    BY <2>1 DEF Sound, Aged
  <2>3. o \in DOMAIN h.ptr => o[2] \in 0 .. n
    BY DEF Sound, Named
  <2>4. m \notin 0 .. n
    OBVIOUS
  <2> QED
    BY <2>1, <2>2, <2>3, <2>4
<1> QED
  BY <1>1, <1>2, <1>3, <1>4, <1>5, <1>6 DEF Complete

\* Hanging objects up changes their counts only.
LEMMA AddedSound ==
    ASSUME NEW h, NEW n \in Nat, NEW S, NEW O, O \subseteq DOMAIN h.ptr,
           Named(h, n), Pointing(h), Counted(h)
    PROVE  LET g == AddObjects(h, S, O)
           IN /\ g.ptr = h.ptr /\ g.hung = S \cup O /\ DOMAIN g.refs = DOMAIN h.refs
              /\ \A a \in DOMAIN h.refs : g.refs[a] = h.refs[a] + IF a \in O THEN 1 ELSE 0
              /\ Named(g, n) /\ Pointing(g) /\ Counted(g)
<1> DEFINE g == AddObjects(h, S, O)
<1>1. /\ g.ptr = h.ptr /\ g.hung = S \cup O /\ DOMAIN g.refs = DOMAIN h.refs
      /\ \A a \in DOMAIN h.refs : g.refs[a] = IF a \in O THEN h.refs[a] + 1 ELSE h.refs[a]
  BY DEF AddObjects
<1> HIDE DEF g
<1>2. \A a \in DOMAIN h.refs : h.refs[a] \in Int
  BY DEF Named
<1>3. \A a \in DOMAIN h.refs : g.refs[a] = h.refs[a] + IF a \in O THEN 1 ELSE 0
  BY <1>1, <1>2
<1>4. Named(g, n)
  BY <1>1 DEF Named
<1>5. Pointing(g)
  BY <1>1 DEF Pointing
<1>6. Counted(g)
  BY <1>1 DEF Counted
<1> QED
  BY <1>1, <1>3, <1>4, <1>5, <1>6 DEF g

\* The heroes have been hung up once more, the other objects of the match once
\* or never, and those of matches before as often as before.
LEMMA BuildSound ==
    ASSUME NEW h, NEW n \in Nat, Sound(h, n), NEW cast
    PROVE  /\ Sound(BuildObjects(h, n + 1, cast), n + 1)
           /\ \A o \in Objects(n + 1) :
                  BuildObjects(h, n + 1, cast).ptr[o] = Outfits(h, n + 1, cast)[o]
<1> DEFINE m == n + 1
           new == Outfits(h, m, cast)
           made == Made(m, new)
           e == Equip(h, made, new)
           up == DOMAIN new \ {Sky(m), LostHouse(m)}
           g == BuildObjects(h, m, cast)
<1>1. m \in Nat /\ m > 0 /\ DOMAIN new = Objects(m) /\ Complete(h, n, made, new)
  BY OutfitsComplete
<1>2. g = AddObjects(e, {Sky(m)}, up)
  BY DEF BuildObjects, Made
<1>3. Named(e, m) /\ Pointing(e) /\ Counted(e)
  BY <1>1, EquipNamed, EquipPointing, EquipCounted
<1>4. /\ DOMAIN e.ptr = DOMAIN h.ptr \cup Objects(m)
      /\ \A o \in Objects(m) : e.ptr[o] = new[o]
      /\ \A o \in DOMAIN e.ptr :
             o \in DOMAIN e.refs /\ e.refs[o] = IF o \in DOMAIN h.ptr THEN h.refs[o] ELSE 0
  BY <1>1, EquipParts, EquipObjects
<1> HIDE DEF m, new, made, e, g
<1>5. /\ g.ptr = e.ptr /\ g.hung = {Sky(m)} \cup up /\ DOMAIN g.refs = DOMAIN e.refs
      /\ \A a \in DOMAIN e.refs : g.refs[a] = e.refs[a] + IF a \in up THEN 1 ELSE 0
      /\ Named(g, m) /\ Pointing(g) /\ Counted(g)
  <2>1. up \subseteq DOMAIN e.ptr
    BY <1>1, <1>4
  <2> HIDE DEF up
  <2> QED
    BY <1>1, <1>2, <1>3, <2>1, AddedSound
<1>6. Aged(g, m)
  <2>1. \A i \in Seats : Hero(i) \in DOMAIN g.ptr
    BY <1>4, <1>5 DEF Sound, Aged
  <2>2. Objects(m) \subseteq DOMAIN g.ptr
    BY <1>4, <1>5
  <2>3. ASSUME NEW o \in DOMAIN g.ptr
        PROVE  /\ o[1] = "hero" => o[2] = 0 /\ (\E i \in Seats : o = Hero(i)) /\ g.refs[o] = m
               /\ o[1] # "hero" => g.refs[o] <= 1
               /\ o[1] # "hero" /\ o[2] = 0 => o[1] = "sign"
               /\ o[2] = m => o \in Objects(m)
    <3>1. g.refs[o] = (IF o \in DOMAIN h.ptr THEN h.refs[o] ELSE 0) + IF o \in up THEN 1 ELSE 0
      BY <1>4, <1>5
    <3>2. CASE o \in DOMAIN h.ptr
      <4>1. /\ o[1] = "hero" => o[2] = 0 /\ (\E i \in Seats : o = Hero(i)) /\ h.refs[o] = n
            /\ o[1] # "hero" => h.refs[o] <= 1
            /\ o[1] # "hero" /\ o[2] = 0 => o[1] = "sign"
            /\ o[2] \in 0 .. n /\ h.refs[o] \in Int
        BY <3>2 DEF Sound, Named, Aged
      <4>2. o[2] # m
        BY <4>1 DEF m
      <4>3. o[1] = "hero" => o \in up
        BY <1>1, <4>1 DEF Objects, Hero, Sky, LostHouse, House
      <4>4. o[1] # "hero" => o \notin up
        BY <1>1, <4>2, ObjectNames
      <4> QED
        BY <3>1, <3>2, <4>1, <4>2, <4>3, <4>4 DEF m
    <3>3. CASE o \notin DOMAIN h.ptr
      <4>1. o \in Objects(m)
        BY <1>4, <1>5, <3>3
      <4>2. o[1] # "hero"
        <5>1. \A i \in Seats : Hero(i) \in DOMAIN h.ptr
          BY DEF Sound, Aged
        <5> QED
          BY <1>1, <3>3, <4>1, <5>1, ObjectNames
      <4>3. o[2] = m
        BY <1>1, <4>1, <4>2, ObjectNames
      <4> QED
        BY <1>1, <3>1, <3>3, <4>1, <4>2, <4>3
    <3> QED
      BY <3>2, <3>3
  <2>4. g.hung = Objects(m) \ {LostHouse(m)}
    <3>1. Sky(m) \in Objects(m) /\ Sky(m) # LostHouse(m)
      BY DEF Objects, Sky, LostHouse, House
    <3> QED
      BY <1>1, <1>5, <3>1
  <2> QED
    BY <1>1, <2>1, <2>2, <2>3, <2>4 DEF Aged
<1> QED
  BY <1>4, <1>5, <1>6 DEF Sound, m, new, g

-----------------------------------------------------------------------------
(* The program's end                                                        *)

\* What hangs and was hung up once, or was not counted, is deleted.
LEMMA ReleaseParts ==
    ASSUME NEW h, NEW n \in Nat, Sound(h, n)
    PROVE  LET g == ReleaseObjects(h)
               L == {o \in h.hung : h.refs[o] <= 1}
           IN /\ h.hung \subseteq DOMAIN h.ptr /\ L \subseteq DOMAIN h.ptr
              /\ g.hung = {} /\ DOMAIN g.ptr = DOMAIN h.ptr \ L
              /\ \A o \in DOMAIN g.ptr : g.ptr[o] = h.ptr[o]
              /\ DOMAIN g.refs = Kept(h, L) \ L
              /\ \A a \in DOMAIN g.refs : g.refs[a] =
                     (IF a \in h.hung THEN h.refs[a] - 1 ELSE h.refs[a]) - Count(h.ptr, L, a)
<1> DEFINE L == {o \in h.hung : h.refs[o] <= 1}
           k == [refs |-> [a \in DOMAIN h.refs |->
                              IF a \in h.hung THEN h.refs[a] - 1 ELSE h.refs[a]],
                 ptr |-> h.ptr, hung |-> {}]
           g == ReleaseObjects(h)
<1>1. h.hung \subseteq DOMAIN h.ptr
  BY DEF Sound, Aged
<1>2. g = Delete(k, L)
  BY DEF ReleaseObjects
<1>3. /\ k.ptr = h.ptr /\ k.hung = {} /\ DOMAIN k.refs = DOMAIN h.refs
      /\ \A a \in DOMAIN h.refs : k.refs[a] = IF a \in h.hung THEN h.refs[a] - 1 ELSE h.refs[a]
  OBVIOUS
<1> HIDE DEF k
<1>4. /\ g.hung = {} /\ DOMAIN g.ptr = DOMAIN h.ptr \ L
      /\ \A o \in DOMAIN g.ptr : g.ptr[o] = h.ptr[o]
      /\ DOMAIN g.refs = {a \in DOMAIN h.refs \ L : Survives(k.refs, a, Count(h.ptr, L, a))}
      /\ \A a \in DOMAIN g.refs : g.refs[a] = k.refs[a] - Count(h.ptr, L, a)
  BY <1>2, <1>3 DEF Delete
<1>5. L \subseteq DOMAIN h.ptr
  BY <1>1
<1> HIDE DEF L, g
<1>6. ASSUME NEW a \in DOMAIN h.refs
      PROVE  Survives(k.refs, a, Count(h.ptr, L, a)) <=> Survives(h.refs, a, Count(h.ptr, L, a))
  <2>1. CASE a \in DOMAIN h.ptr
    <3>1. Count(h.ptr, L, a) = 0
      BY <1>5, <2>1, StaysHeld
    <3> QED
      BY <3>1 DEF Survives
  <2>2. CASE a \notin DOMAIN h.ptr
    <3>1. k.refs[a] = h.refs[a]
      BY <1>1, <1>3, <2>2
    <3> QED
      BY <3>1 DEF Survives
  <2> QED
    BY <2>1, <2>2
<1>7. DOMAIN g.refs = Kept(h, L) \ L
  BY <1>4, <1>6 DEF Kept
<1>8. \A a \in DOMAIN g.refs : g.refs[a] =
          (IF a \in h.hung THEN h.refs[a] - 1 ELSE h.refs[a]) - Count(h.ptr, L, a)
  BY <1>3, <1>4
<1> QED
  BY <1>1, <1>4, <1>5, <1>7, <1>8 DEF L, g

\* What the remaining objects hold stays, and is counted right.
LEMMA ReleaseSound ==
    ASSUME NEW h, NEW n \in Nat, Sound(h, n)
    PROVE  LET g == ReleaseObjects(h)
           IN g.hung = {} /\ Named(g, n) /\ Pointing(g) /\ Counted(g)
<1> DEFINE L == {o \in h.hung : h.refs[o] <= 1}
           U == DOMAIN h.ptr \ L
           g == ReleaseObjects(h)
<1>1. /\ h.hung \subseteq DOMAIN h.ptr /\ L \subseteq DOMAIN h.ptr
      /\ g.hung = {} /\ DOMAIN g.ptr = U
      /\ \A o \in DOMAIN g.ptr : g.ptr[o] = h.ptr[o]
      /\ DOMAIN g.refs = Kept(h, L) \ L
      /\ \A a \in DOMAIN g.refs : g.refs[a] =
             (IF a \in h.hung THEN h.refs[a] - 1 ELSE h.refs[a]) - Count(h.ptr, L, a)
  BY ReleaseParts
<1> HIDE DEF L, g
<1>2. Named(h, n) /\ Pointing(h) /\ Counted(h)
  BY DEF Sound
<1>3. IsFiniteSet(U)
  <2>1. U \in SUBSET DOMAIN h.ptr /\ IsFiniteSet(DOMAIN h.ptr)
    BY <1>2 DEF Named
  <2> QED
    BY <2>1, FS_Subset
<1>4. Kept(h, L) \subseteq DOMAIN h.refs /\ U \subseteq DOMAIN h.ptr
  BY DEF Kept
<1>5. U \subseteq DOMAIN g.refs
  <2> SUFFICES ASSUME NEW o \in U
               PROVE  o \in Kept(h, L)
    BY <1>1
  <2>1. o \in DOMAIN h.ptr /\ o \in DOMAIN h.refs
    BY <1>2 DEF Named
  <2> QED
    BY <1>1, <2>1, StaysHeld
<1>6. Named(g, n)
  <2>1. ASSUME NEW a \in DOMAIN g.refs
        PROVE  g.refs[a] \in Int /\ a[2] \in 0 .. n /\ (a \in DOMAIN g.ptr \/ a[1] \in AssetKinds)
    <3>1. a \in DOMAIN h.refs /\ a \notin L
      BY <1>1, <1>4
    <3>2. Count(h.ptr, L, a) \in Nat
      BY <1>1, <3>1, StaysHeld
    <3>3. h.refs[a] \in Int /\ a[2] \in 0 .. n /\ (a \in DOMAIN h.ptr \/ a[1] \in AssetKinds)
      BY <1>2, <3>1 DEF Named
    <3> QED
      BY <1>1, <3>1, <3>2, <3>3
  <2>2. \A o \in U : o[1] \in ObjectKinds
    BY <1>2, <1>4 DEF Named
  <2> QED
    BY <1>1, <1>3, <1>5, <2>1, <2>2 DEF Named
<1>7. Pointing(g)
  <2> SUFFICES ASSUME NEW o \in U, NEW p \in Parts, h.ptr[o][p] # None
               PROVE  h.ptr[o][p] \in DOMAIN g.refs /\ h.ptr[o][p][1] \in KindsOf(p)
    BY <1>1 DEF Pointing
  <2> DEFINE a == h.ptr[o][p]
  <2>1. a \in DOMAIN h.refs \ DOMAIN h.ptr /\ a[1] \in KindsOf(p)
    BY <1>2, <1>4, AssetsHeld DEF Pointing
  <2>2. Count(h.ptr, U, a) # 0
    BY <1>3, CountType
  <2>3. a \in Kept(h, L)
    BY <1>1, <2>1, <2>2, StaysHeld
  <2> QED
    BY <1>1, <2>1, <2>3
<1>8. Counted(g)
  <2> SUFFICES ASSUME NEW a \in DOMAIN g.refs \ DOMAIN g.ptr
               PROVE  g.refs[a] = Count(g.ptr, DOMAIN g.ptr, a)
    BY DEF Counted
  <2>1. a \in DOMAIN h.refs /\ a \notin DOMAIN h.ptr
    BY <1>1, <1>4
  <2>2. h.refs[a] = Count(h.ptr, L, a) + Count(h.ptr, U, a)
    <3>1. a \notin DOMAIN h.ptr => h.refs[a] = Count(h.ptr, L, a) + Count(h.ptr, U, a)
      BY <1>1, <2>1, StaysHeld
    <3> QED
      BY <2>1, <3>1
  <2>3. Count(h.ptr, L, a) \in Nat /\ Count(h.ptr, U, a) \in Nat
    BY <1>1, <2>1, StaysHeld
  <2>4. Count(g.ptr, U, a) = Count(h.ptr, U, a)
    BY <1>1, CountSame
  <2>5. g.refs[a] = h.refs[a] - Count(h.ptr, L, a)
    BY <1>1, <2>1
  <2> HIDE DEF U
  <2> QED
    BY <1>1, <2>2, <2>3, <2>4, <2>5
<1> QED
  BY <1>1, <1>6, <1>7, <1>8 DEF g

\* What the end of the program leaves of the objects
LEMMA ReleaseLeaves ==
    ASSUME NEW h, NEW n \in Nat, Sound(h, n), NEW o \in DOMAIN ReleaseObjects(h).ptr
    PROVE  \/ o[2] \notin {0, n}
           \/ o = LostHouse(n)
           \/ o[1] = "sign" /\ o[2] = 0
           \/ o[1] = "hero" /\ n # 1
<1>1. o \in DOMAIN h.ptr /\ ~(o \in h.hung /\ h.refs[o] <= 1)
  BY ReleaseParts
<1>2. /\ o[1] = "hero" => o[2] = 0 /\ (\E i \in Seats : o = Hero(i)) /\ h.refs[o] = n
      /\ o[1] # "hero" => h.refs[o] <= 1
      /\ o[1] # "hero" /\ o[2] = 0 => o[1] = "sign"
      /\ o[2] = n /\ n > 0 => o \in Objects(n)
      /\ h.hung = IF n = 0 THEN {} ELSE Objects(n) \ {LostHouse(n)}
  BY <1>1 DEF Sound, Aged
<1>3. (\E i \in Seats : o = Hero(i)) => o \in Objects(n) /\ o # LostHouse(n)
  BY DEF Objects, Hero, LostHouse, House
<1> QED
  BY <1>1, <1>2, <1>3

-----------------------------------------------------------------------------
(* The scene graph of a run                                                 *)

GraphInv ==
    /\ scenes \in Nat
    /\ program = "UP" => Sound(heap, scenes)
    /\ program # "CRASHED" =>
           /\ Named(heap, scenes) /\ Pointing(heap) /\ Counted(heap)
           /\ heap.hung \subseteq DOMAIN heap.ptr
    /\ HeroesDressed
    /\ program = "DOWN" => DOMAIN heap.ptr \subseteq Unreached

LEMMA SoundParts ==
    ASSUME NEW h, NEW n \in Nat, Sound(h, n)
    PROVE  Named(h, n) /\ Pointing(h) /\ Counted(h) /\ h.hung \subseteq DOMAIN h.ptr
BY DEF Sound, Aged

\* A hero gets the mesh of its player, or that of nobody.
LEMMA HeroDressed ==
    ASSUME NEW h, NEW n, NEW cast, NEW i \in Seats
    PROVE  Outfits(h, n, cast)[Hero(i)].mesh =
               IF cast[i] = 0 THEN NoMesh(n) ELSE OwnMesh(n, i)
<1>1. Hero(i) \in Objects(n) /\ Hero(i)[1] = "hero" /\ Hero(i)[3] = i /\ Hero(i) # Sky(n)
  BY DEF Objects, Hero, Sky
<1>2. Outfits(h, n, cast)[Hero(i)] = Dress(h, n, i, cast[i])
  BY <1>1 DEF Outfits
<1>3. \A a, b, c : Outfit(a, b, c).mesh = a
  BY DEF Outfit
<1> DEFINE none == <<"no texture", n, 0>>
           own == <<"texture", n, i>>
<1>4. Outfits(h, n, cast)[Hero(i)] = IF cast[i] = 0 THEN Outfit(NoMesh(n), Material(n), none)
                                     ELSE Outfit(OwnMesh(n, i), Material(n), own)
  BY <1>2 DEF Dress
<1> HIDE DEF none, own
<1> QED
  BY <1>3, <1>4

LEMMA GraphInitInv == GraphInit => GraphInv
<1> SUFFICES ASSUME GraphInit
             PROVE  GraphInv
  OBVIOUS
<1>1. program = "UP" /\ scenes = 0 /\ heap = EmptyScene /\ scenes \in Nat
  BY DEF GraphInit
<1>2. Sound(heap, scenes)
  BY <1>1, EmptySound
<1>3. HeroesDressed
  BY <1>1 DEF HeroesDressed
<1> QED
  BY <1>1, <1>2, <1>3, SoundParts DEF GraphInv

LEMMA GraphStep == GraphInv /\ [GraphNext]_graph => GraphInv'
<1> SUFFICES ASSUME GraphInv, [GraphNext]_graph
             PROVE  GraphInv'
  OBVIOUS
<1>1. ASSUME NEW cast \in [Seats -> {0, 1}], BuildScene(cast)
      PROVE  GraphInv'
  <2>1. /\ program = "UP" /\ program' = "UP" /\ scenes \in Nat /\ scenes' = scenes + 1
        /\ heap' = BuildObjects(heap, scenes + 1, heroes') /\ Sound(heap, scenes)
    BY <1>1 DEF BuildScene, GraphInv
  <2>2. /\ Sound(heap', scenes')
        /\ \A o \in Objects(scenes') : heap'.ptr[o] = Outfits(heap, scenes', heroes')[o]
    BY <2>1, BuildSound
  <2>3. scenes' \in Nat
    BY <2>1
  <2>4. HeroesDressed'
    <3> SUFFICES ASSUME NEW i \in Seats
                 PROVE  heap'.ptr[Hero(i)].mesh =
                            IF heroes'[i] = 0 THEN NoMesh(scenes') ELSE OwnMesh(scenes', i)
      BY DEF HeroesDressed
    <3>1. Hero(i) \in Objects(scenes')
      BY DEF Objects
    <3> QED
      BY <2>2, <3>1, HeroDressed
  <2>5. /\ Named(heap', scenes') /\ Pointing(heap') /\ Counted(heap')
        /\ heap'.hung \subseteq DOMAIN heap'.ptr
    BY <2>2, <2>3, SoundParts
  <2> QED
    BY <2>1, <2>2, <2>3, <2>4, <2>5 DEF GraphInv
<1>2. CASE EndProgram
  <2>1. /\ program = "UP" /\ program' = "DOWN" /\ scenes' = scenes /\ scenes \in Nat
        /\ heap' = ReleaseObjects(heap) /\ Sound(heap, scenes)
    BY <1>2 DEF EndProgram, GraphInv
  <2>2. heap'.hung = {} /\ Named(heap', scenes) /\ Pointing(heap') /\ Counted(heap')
    BY <2>1, ReleaseSound
  <2>3. DOMAIN heap'.ptr \subseteq Unreached'
    <3> SUFFICES ASSUME NEW o \in DOMAIN heap'.ptr
                 PROVE  \/ o[2] \notin {0, scenes}
                        \/ o = LostHouse(scenes)
                        \/ o[1] = "sign" /\ o[2] = 0
                        \/ o[1] = "hero" /\ scenes # 1
      BY <2>1 DEF Unreached
    <3> QED
      BY <2>1, ReleaseLeaves
  <2>4. HeroesDressed'
    BY <2>1 DEF HeroesDressed
  <2> QED
    BY <2>1, <2>2, <2>3, <2>4 DEF GraphInv
<1>3. CASE CrashAtEnd
  <2>1. program' = "CRASHED" /\ scenes' = scenes /\ scenes \in Nat
    BY <1>3 DEF CrashAtEnd, GraphInv
  <2> QED
    BY <2>1 DEF GraphInv, HeroesDressed
<1>4. CASE UNCHANGED graph
  BY <1>4 DEF graph, GraphInv, HeroesDressed, Unreached
<1> QED
  BY <1>1, <1>2, <1>3, <1>4 DEF GraphNext

LEMMA InvHeld == GraphInv => HeldAlive
<1> SUFFICES ASSUME GraphInv, program # "CRASHED"
             PROVE  /\ heap.hung \subseteq DOMAIN heap.ptr
                    /\ DOMAIN heap.ptr \subseteq DOMAIN heap.refs
                    /\ \A o \in DOMAIN heap.ptr : Fields(o) \subseteq DOMAIN heap.refs \cup {None}
                    /\ \A a \in DOMAIN heap.refs \ DOMAIN heap.ptr :
                           heap.refs[a] = Cardinality({o \in DOMAIN heap.ptr : a \in Fields(o)})
  BY DEF HeldAlive
<1>1. /\ Named(heap, scenes) /\ Pointing(heap) /\ Counted(heap)
      /\ heap.hung \subseteq DOMAIN heap.ptr /\ scenes \in Nat
  BY DEF GraphInv
<1>2. DOMAIN heap.ptr \subseteq DOMAIN heap.refs /\ IsFiniteSet(DOMAIN heap.ptr)
  BY <1>1 DEF Named
<1>3. \A o : Fields(o) = {heap.ptr[o][p] : p \in Parts}
  BY DEF Fields, Parts
<1>4. \A o \in DOMAIN heap.ptr : Fields(o) \subseteq DOMAIN heap.refs \cup {None}
  BY <1>1, <1>3 DEF Pointing
<1>5. ASSUME NEW a \in DOMAIN heap.refs \ DOMAIN heap.ptr
      PROVE  heap.refs[a] = Cardinality({o \in DOMAIN heap.ptr : a \in Fields(o)})
  <2>1. a # None
    BY <1>1, KindsApart DEF Named
  <2>2. OnceOnly(heap.ptr, DOMAIN heap.ptr, a)
    BY <1>1, <2>1, KindsApart DEF OnceOnly, Pointing
  <2>3. Count(heap.ptr, DOMAIN heap.ptr, a) =
            Cardinality({o \in DOMAIN heap.ptr : \E p \in Parts : heap.ptr[o][p] = a})
    BY <1>2, <2>2, CountObjects
  <2>4. {o \in DOMAIN heap.ptr : \E p \in Parts : heap.ptr[o][p] = a} =
            {o \in DOMAIN heap.ptr : a \in Fields(o)}
    BY <1>3
  <2> QED
    BY <1>1, <2>3, <2>4 DEF Counted
<1> QED
  BY <1>1, <1>2, <1>4, <1>5

LEMMA InvLeaks == GraphInv => OnlyLostLeaks
<1> SUFFICES ASSUME GraphInv, program = "DOWN", NEW a \in DOMAIN heap.refs
             PROVE  \/ a \in Unreached
                    \/ \E o \in Unreached : a \in Fields(o)
                    \/ a \notin DOMAIN heap.ptr /\ heap.refs[a] = 0
  BY DEF OnlyLostLeaks
<1>1. DOMAIN heap.ptr \subseteq Unreached /\ Named(heap, scenes) /\ Counted(heap)
  BY DEF GraphInv
<1>2. CASE a \in DOMAIN heap.ptr
  BY <1>1, <1>2
<1>3. CASE a \notin DOMAIN heap.ptr
  <2>1. heap.refs[a] = Count(heap.ptr, DOMAIN heap.ptr, a) /\ IsFiniteSet(DOMAIN heap.ptr)
    BY <1>1, <1>3 DEF Counted, Named
  <2>2. CASE \E o \in DOMAIN heap.ptr, p \in Parts : heap.ptr[o][p] = a
    <3>1. \A o : Fields(o) = {heap.ptr[o][p] : p \in Parts}
      BY DEF Fields, Parts
    <3> QED
      BY <1>1, <2>2, <3>1
  <2>3. CASE \A o \in DOMAIN heap.ptr, p \in Parts : heap.ptr[o][p] # a
    BY <1>3, <2>1, <2>3, CountType
  <2> QED
    BY <2>2, <2>3
<1> QED
  BY <1>2, <1>3

LEMMA GraphSpecSound == GraphSpec => []GraphSound
<1>1. GraphInv => GraphSound
  BY InvHeld, InvLeaks DEF GraphInv, GraphSound
<1> QED
  BY <1>1, GraphInitInv, GraphStep, PTL DEF GraphSpec

\* The frame that builds a scene comes after the SC_ALLREADY of a match this
\* client plays in.
PlaysItself == scene = "LOADING" => picks[Mine] # 0

LEMMA PlaysItselfStep ==
    ASSUME StageTypeOK, PlaysItself, [Next]_vars
    PROVE  PlaysItself'
<1> USE DEF PlaysItself, world, match, health, buttons, ending
<1>1. CASE AllReady
  BY <1>1 DEF AllReady
<1>2. CASE LoadingFrame \/ PutPlayers \/ Confirm
  BY <1>2 DEF LoadingFrame, PutPlayers, Confirm
<1>3. CASE Shutdown
  BY <1>3 DEF Shutdown, EndProgram, CrashAtEnd
<1>4. CASE \E i \in Seats : Death(i) \/ Respawned(i) \/ \E h \in 0 .. MaxHp : Struck(i, h)
  BY <1>4 DEF Death, Respawned, Struck
<1>5. CASE \E k \in Kinds : Result(k)
  BY <1>5 DEF Result
<1>6. CASE \E k \in Skills : Press(k) \/ Release(k)
  BY <1>6 DEF Press, Release
<1>7. ASSUME NEW d \in 1 .. Slow, GameFrame(d)
      PROVE  PlaysItself'
  BY <1>7 DEF GameFrame, Verdict, End
<1>8. CASE UNCHANGED vars
  BY <1>8 DEF vars
<1> QED
  BY <1>1, <1>2, <1>3, <1>4, <1>5, <1>6, <1>7, <1>8 DEF Next

\* Of all that happens to a client two things touch its scene graph: the frame
\* that builds the scene of a match and the end of the program.
LEMMA StageStepsGraph ==
    ASSUME StageTypeOK, PlaysItself, [Next]_vars
    PROVE  [GraphNext]_graph
<1> USE DEF world, match, health, buttons, ending
<1>1. CASE LoadingFrame
  <2>1. BuildScene(picks) /\ picks[Mine] # 0
    BY <1>1 DEF LoadingFrame, PlaysItself
  <2>2. picks \in [Seats -> {0, 1}] /\ Mine \in Seats
    BY Numbers DEF StageTypeOK
  <2> QED
    BY <2>1, <2>2 DEF GraphNext
<1>2. CASE Shutdown
  BY <1>2 DEF Shutdown, GraphNext
<1>3. CASE AllReady \/ PutPlayers \/ Confirm
  BY <1>3 DEF AllReady, PutPlayers, Confirm
<1>4. CASE \E i \in Seats : Death(i) \/ Respawned(i) \/ \E h \in 0 .. MaxHp : Struck(i, h)
  BY <1>4 DEF Death, Respawned, Struck
<1>5. CASE \E k \in Kinds : Result(k)
  BY <1>5 DEF Result
<1>6. CASE \E k \in Skills : Press(k) \/ Release(k)
  BY <1>6 DEF Press, Release
<1>7. CASE \E d \in 1 .. Slow : GameFrame(d)
  BY <1>7 DEF GameFrame
<1>8. CASE UNCHANGED vars
  BY <1>8 DEF vars
<1> QED
  BY <1>1, <1>2, <1>3, <1>4, <1>5, <1>6, <1>7, <1>8 DEF Next

\* The matches of a client, with all that is drawn and comes in late, run its
\* scene graph as Assets says.
THEOREM StageRunsGraph == Spec => GraphSpec
<1>1. Init => GraphInit /\ PlaysItself
  BY DEF Init, PlaysItself
<1> QED
  BY <1>1, VerdictsKept, PlaysItselfStep, StageStepsGraph, PTL DEF Spec, GraphSpec

\* In every match, however many there were before, nothing an object of the scene
\* holds is deleted, every count of a mesh, material or texture is the number of
\* its holders and the heroes look as picked; and the end of the program leaves
\* only what the shaders of the last match do not reach (AddObject and Release
\* over several calls of BuildObjects).
THEOREM GraphAlwaysSound == Spec => []GraphSound
BY StageRunsGraph, GraphSpecSound, PTL
=============================================================================
