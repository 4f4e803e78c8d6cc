------------------------------- MODULE Stage -------------------------------
(***************************************************************************)
(* One client over several matches: the score board, the bars of health at *)
(* the top of the screen, the verdict with its animation and the way back  *)
(* to the lobby (the frame of GameFramework.cpp, CScene, the match         *)
(* messages of LunaticProject.cpp).  What BuildObjects makes of meshes and *)
(* objects is in module Assets.                                            *)
(*                                                                         *)
(* The room between two matches is in module Screens, and what the server  *)
(* sends is in module Match: here the messages come in any order Match     *)
(* allows, those of a match also when this client has left it already.     *)
(***************************************************************************)
EXTENDS Assets, Hud, SequencesExt

CONSTANTS
    Mine,           \* myGame_id
    Crowd,          \* players in a match at most
    WinPictures,    \* pictures of the animation of a victory: 14 in the code
    LosePictures,   \* and of a defeat: 18
    Long,           \* ticks a verdict is shown: 5 s
    Short,          \* ticks between two pictures: 100 ms
    Slow,           \* ticks the slowest frame takes
    MaxHp,          \* health of a new hero
    Deaths,         \* bound on the deaths of one team in a match
    Skills          \* keys with a picture of their own: D and S in the code

ASSUME StageAssumption ==
    /\ Seats \subseteq 0 .. 7 /\ Mine \in Seats
    /\ {Crowd, WinPictures, LosePictures, Long, Slow, MaxHp, Deaths}
           \subseteq Nat \ {0}
    /\ Short \in Nat
    /\ Skills \subseteq {"D", "S"}

VARIABLES
    picks,          \* in the last match, the hero at each seat, 0 at empty ones
    scene,          \* ChangeScene; "DOWN" after the program's end, or "CRASHED"
    isEnding,       \* the table of the ending covers the lobby
    verdicts,       \* isWinResult and isLoseResult: those of "win", "lose" that are set
    resultTimer,    \* ticks since ResultTimer was set, or Off
    imageTimer,     \* the same for WinTimer and LoseTimer
    imageCount,     \* WinCount and LoseCount
    shown,          \* the pictures on the screen: <<"win" or "lose", number>>
    fallen,         \* g_A_Teamcount and g_B_Teamcount
    digits,         \* for each of the two, the digits on the screen
    hp,             \* m_hp of the heroes
    bar,            \* PlayerHpObject: left and right end of the bar of each seat
    gauge,          \* pHpgaugeObject: right end
    keys,           \* DKeyDown and SKeyDown: those that are set
    skills,         \* depth of the two pictures of each key, or Away
    owed,           \* seats with SC_CHAR_DIE in, and SC_ATTACK_HIT to follow
    heard,          \* verdicts of this match that have come in
    astray          \* "verdict", "death": one came that its match did not wait for
vars == <<graph, picks, scene, isEnding, verdicts, resultTimer, imageTimer,
          imageCount, shown, fallen, digits, hp, bar, gauge, owed, keys, skills, heard,
          astray>>

health == <<hp, bar, gauge, owed>>
buttons == <<keys, skills>>
match == <<fallen, digits, health, buttons>>
ending == <<verdicts, resultTimer, imageTimer, imageCount, shown, heard>>
world == <<graph, picks>>

Off == -1
Kinds == {"win", "lose"}
Pictures(k) == IF k = "win" THEN WinPictures ELSE LosePictures
Team(i) == i % 2
Playing == {i \in Seats : picks[i] # 0}

\* SetEndPos of SC_ATTACK_HIT and SC_RESPAWN, truncated to pixels
BarEnd_bug(i, h) == (74 * h) \div MaxHp + (i \div 2) * 85 + 8
BarEnd(i, h) ==
    (74 * h) \div MaxHp + (i \div 2) * 80 + (i \div 2) * 5
        + IF Team(i) = 0 THEN 8 ELSE 668
GaugeEnd(h) == (335 * h) \div MaxHp + 50

-----------------------------------------------------------------------------
\* The program's end forgets the rest.
Forget ==
    /\ verdicts' = {} /\ heard' = {} /\ astray' = {} /\ owed' = {} /\ shown' = {}
    /\ resultTimer' = Off /\ imageTimer' = [k \in Kinds |-> Off]
    /\ imageCount' = [k \in Kinds |-> 0]
    /\ digits' = [t \in {0, 1} |-> {}]
    /\ hp' = [i \in Seats |-> 0] /\ bar' = [i \in Seats |-> <<0, 0>>] /\ gauge' = 0
    /\ keys' = {} /\ skills' = [k \in Skills |-> NewSkill]

Init ==
    /\ GraphInit
    /\ picks = [i \in Seats |-> 0]
    /\ scene = "LOBBY" /\ isEnding = FALSE
    /\ verdicts = {} /\ resultTimer = Off
    /\ imageTimer = [k \in Kinds |-> Off] /\ imageCount = [k \in Kinds |-> 0]
    /\ shown = {}
    /\ fallen = [t \in {0, 1} |-> 0] /\ digits = [t \in {0, 1} |-> {}]
    /\ hp = [i \in Seats |-> 0] /\ bar = [i \in Seats |-> <<0, 0>>] /\ gauge = 0
    /\ keys = {} /\ skills = [k \in Skills |-> NewSkill]
    /\ owed = {} /\ heard = {} /\ astray = {}

\* SC_ALLREADY ends the stay in a room.  It came some time after the last
\* match, so an image timer left running is past its time.
AllReady ==
    /\ scene = "LOBBY" /\ ~isEnding /\ scenes < Matches
    /\ \E p \in [Seats -> {0, 1}] :
          /\ p[Mine] = 1 /\ Cardinality({i \in Seats : p[i] = 1}) <= Crowd
          /\ picks' = p
    /\ scene' = "LOADING"
    /\ heard' = {} /\ owed' = {}
    /\ imageTimer' = [k \in Kinds |-> IF imageTimer[k] = Off THEN Off ELSE Short]
    /\ UNCHANGED <<graph, isEnding, verdicts, resultTimer, imageCount, shown,
                   fallen, digits, hp, bar, gauge, buttons, astray>>

\* The next frame builds the scene: new pictures, off the screen, and full bars
LoadingFrame ==
    /\ scene = "LOADING"
    /\ scene' = "LOADED"
    /\ BuildScene(picks)
    /\ shown' = {} /\ digits' = [t \in {0, 1} |-> {}]
    /\ bar' = [i \in Seats |-> FullBar(i)] /\ gauge' = FullGauge
    /\ skills' = [k \in Skills |-> NewSkill]
    /\ UNCHANGED <<picks, isEnding, verdicts, resultTimer, imageTimer, imageCount,
                   fallen, hp, owed, keys, heard, astray>>

\* SC_PUT_PLAYER of all the players, sent in one go
PutPlayers ==
    /\ scene = "LOADED"
    /\ scene' = "GAME"
    /\ hp' = [i \in Seats |-> IF i \in Playing THEN MaxHp ELSE hp[i]]
    /\ digits' = [t \in {0, 1} |-> digits[t] \cup {0}]
    /\ UNCHANGED <<world, isEnding, ending, fallen, bar, gauge, owed, buttons, astray>>

\* A match goes on until all its players have left it: its messages come also
\* while this client shows the table.
InMatch == scene = "GAME" \/ isEnding

\* SC_ATTACK_HIT
Struck(i, h) ==
    /\ InMatch /\ i \in Playing
    /\ IF i \in owed THEN h = 0 ELSE h \in 1 .. hp[i] - 1
    /\ hp' = [hp EXCEPT ![i] = h]
    /\ bar' = [bar EXCEPT ![i][2] = BarEnd(i, h)]
    /\ gauge' = IF i = Mine THEN GaugeEnd(h) ELSE gauge
    /\ owed' = owed \ {i}
    /\ UNCHANGED <<world, scene, isEnding, ending, fallen, digits, buttons, astray>>

\* AteamScore, BteamScore; with two digits from 10 on, which no match reaches
ShowScore_bug(D, s) == D \cup {s}
ShowScore(D, s) == (D \cup {s}) \ {s - 1}

\* SC_CHAR_DIE; HeroInit in Confirm has cleared the counts when it comes late.
Death(i) ==
    /\ InMatch \/ (scene = "LOBBY" /\ heard # {})
    /\ i \in Playing \ owed
    /\ fallen[Team(i)] < Deaths
    /\ fallen' = [fallen EXCEPT ![Team(i)] = @ + 1]
    /\ digits' = [digits EXCEPT ![Team(i)] = ShowScore(@, fallen'[Team(i)])]
    /\ hp' = [hp EXCEPT ![i] = 0]
    /\ owed' = IF InMatch THEN owed \cup {i} ELSE owed
    /\ astray' = IF InMatch THEN astray ELSE astray \cup {"death"}
    /\ UNCHANGED <<world, scene, isEnding, ending, bar, gauge, buttons>>

\* SC_RESPAWN
Respawned_bug(i) ==
    /\ InMatch /\ i \in Playing \ owed /\ hp[i] = 0
    /\ hp' = [hp EXCEPT ![i] = MaxHp]
    /\ UNCHANGED <<world, scene, isEnding, ending, fallen, digits, bar, gauge, owed,
                   buttons, astray>>

Respawned(i) ==
    /\ InMatch /\ i \in Playing \ owed /\ hp[i] = 0
    /\ hp' = [hp EXCEPT ![i] = MaxHp]
    /\ bar' = [bar EXCEPT ![i][2] = BarEnd(i, MaxHp)]
    /\ gauge' = IF i = Mine THEN GaugeEnd(MaxHp) ELSE gauge
    /\ UNCHANGED <<world, scene, isEnding, ending, fallen, digits, owed, buttons, astray>>

\* SC_RESULT.  In the lobby m_Team is 0: the message does nothing there.  A
\* second one, of the other kind or under the table, sets a flag that nobody
\* lowers before the next match.
Result(k) ==
    /\ InMatch
    /\ scene = "GAME" \/ heard # {}
    /\ verdicts' = verdicts \cup {k}
    /\ heard' = heard \cup {k}
    /\ astray' = IF scene = "GAME" /\ heard \subseteq {k} THEN astray
                 ELSE astray \cup {"verdict"}
    /\ UNCHANGED <<world, scene, isEnding, resultTimer, imageTimer, imageCount, shown,
                   match>>

\* D or S goes down and comes up, at a moment when no animation forbids it
Press(k) ==
    /\ scene = "GAME" /\ k \notin keys
    /\ keys' = keys \cup {k}
    /\ skills' = [skills EXCEPT ![k] = SkillPressed(k, @)]
    /\ UNCHANGED <<world, scene, isEnding, ending, fallen, digits, health, astray>>

Release(k) ==
    /\ scene = "GAME" /\ k \in keys
    /\ keys' = keys \ {k}
    /\ skills' = [skills EXCEPT ![k] = SkillReleased(k, @)]
    /\ UNCHANGED <<world, scene, isEnding, ending, fallen, digits, health, astray>>

\* One picture replaces the one before; past the last one nothing changes.
ShowPicture_bug(k, n) == IF n < Pictures(k) THEN shown \cup {<<k, n>>} ELSE shown
ShowPicture(k, n) ==
    IF n < Pictures(k) THEN (shown \ {<<k, n - 1>>}) \cup {<<k, n>>} ELSE shown

\* The animation of verdict k, d ticks after the last frame
Image(k, d) ==
    IF imageTimer[k] = Off
    THEN /\ imageTimer' = [imageTimer EXCEPT ![k] = 0]
         /\ UNCHANGED <<imageCount, shown>>
    ELSE IF imageTimer[k] + d <= Short
    THEN /\ imageTimer' = [imageTimer EXCEPT ![k] = @ + d]
         /\ UNCHANGED <<imageCount, shown>>
    ELSE /\ imageTimer' = [imageTimer EXCEPT ![k] = Off]
         /\ imageCount' = [imageCount EXCEPT ![k] =
                               IF @ < Pictures(k) THEN @ + 1 ELSE @]
         /\ shown' = ShowPicture(k, imageCount[k])

\* The five seconds are over: the table, and the flag goes down.
End_bug(k) ==
    /\ scene' = "LOBBY" /\ isEnding' = TRUE
    /\ resultTimer' = Off
    /\ UNCHANGED <<verdicts, imageTimer, imageCount, shown>>

End(k) ==
    /\ scene' = "LOBBY" /\ isEnding' = TRUE
    /\ verdicts' = verdicts \ {k} /\ resultTimer' = Off
    /\ UNCHANGED <<imageTimer, imageCount, shown>>

\* A victory is looked at before a defeat.
Verdict_bug(k, d) ==
    IF resultTimer = Off
    THEN /\ resultTimer' = 0
         /\ UNCHANGED <<scene, isEnding, verdicts, imageTimer, imageCount, shown>>
    ELSE IF resultTimer + d > Long THEN End(k)
    ELSE /\ resultTimer' = 0
         /\ Image(k, d)
         /\ UNCHANGED <<scene, isEnding, verdicts>>

Verdict(k, d) ==
    IF resultTimer = Off
    THEN /\ resultTimer' = 0
         /\ UNCHANGED <<scene, isEnding, verdicts, imageTimer, imageCount, shown>>
    ELSE IF resultTimer + d > Long THEN End(k)
    ELSE /\ resultTimer' = resultTimer + d
         /\ Image(k, d)
         /\ UNCHANGED <<scene, isEnding, verdicts>>

\* A frame of the game.  Without a verdict it changes nothing of this.
GameFrame(d) ==
    /\ scene = "GAME" /\ verdicts # {}
    /\ Verdict(IF "win" \in verdicts THEN "win" ELSE "lose", d)
    /\ UNCHANGED <<world, match, heard, astray>>

\* A click on the table: HeroInit of every hero
Confirm ==
    /\ isEnding
    /\ isEnding' = FALSE
    /\ fallen' = [t \in {0, 1} |-> 0]
    /\ UNCHANGED <<world, scene, ending, digits, health, buttons, astray>>

\* CGameFramework::Destroy
Shutdown ==
    /\ EndProgram \/ CrashAtEnd
    /\ scene' = program'
    /\ isEnding' = FALSE /\ Forget
    /\ fallen' = [t \in {0, 1} |-> 0]
    /\ UNCHANGED picks

Next ==
    \/ AllReady \/ LoadingFrame \/ PutPlayers \/ Confirm \/ Shutdown
    \/ \E i \in Seats : Death(i) \/ Respawned(i) \/ \E h \in 0 .. MaxHp : Struck(i, h)
    \/ \E k \in Kinds : Result(k)
    \/ \E k \in Skills : Press(k) \/ Release(k)
    \/ \E d \in 1 .. Slow : GameFrame(d)

\* The main loop draws frame after frame.
Frame == \E d \in 1 .. Slow : GameFrame(d)
Spec == Init /\ [][Next]_vars /\ WF_vars(Frame)

-----------------------------------------------------------------------------
\* CScene::Render: what is drawn over the game, in this order.  The array of
\* the own health has two managers and six are drawn: those of the skills lie
\* behind it and are drawn twice.
InOrder(S, Make(_)) == LET s == SetToSeq(S) IN [i \in DOMAIN s |-> Make(s[i])]
SkillPictures == UNION {{SkillUp(k, skills[k].up), SkillDown(k, skills[k].down)} : k \in Skills}
Render ==
    LET ups == InOrder(Skills, LAMBDA k : SkillUp(k, skills[k].up))
        downs == InOrder(Skills, LAMBDA k : SkillDown(k, skills[k].down))
        Digits(t, place) == InOrder(digits[t], LAMBDA n : Digit(place, n))
    IN <<HpBar, Gauge(gauge)>> \o ups \o downs
       \o <<ScoreBoard>> \o Digits(1, "left") \o Digits(0, "right")
       \o InOrder(Seats, LAMBDA i : Portrait(i, picks[i]))
       \o [k \in 1 .. 8 |-> Edge(k - 1)]
       \o InOrder(Seats, LAMBDA i : Bar(i, bar[i]))
       \o ups \o downs
       \o InOrder(shown, VerdictPicture)
       \o <<Veil(IF heard = {} THEN Away ELSE 2)>>

-----------------------------------------------------------------------------
(* Properties *)

\* The board shows one digit for each team, the number of its fallen, unless
\* a death of the match before has been counted for this one.
DigitsMatch ==
    (scene = "GAME" /\ "death" \notin astray) =>
        \A t \in {0, 1} : digits[t] = {fallen[t]}

\* The bar of every player is under its portrait and as long as its health, and
\* so is the own gauge, whatever hits, deaths and respawns have come in; a death
\* is drawn with the hit that follows it.
BarsShowHp ==
    scene = "GAME" => \A i \in Playing \ owed :
        LET left == Portrait(i, picks[i]).left + 3 IN
        /\ bar[i] = <<left, left + (74 * hp[i]) \div MaxHp>>
        /\ i = Mine => gauge = 50 + (335 * hp[i]) \div MaxHp

\* Nothing on the screen is hidden by what is drawn before it: portraits, edges,
\* bars, board, digits and skills are placed and layered by numbers spread over
\* the code, and moved by every message.  Not looked at: the two pictures of a
\* skill (ButtonShows) and a verdict's (OnePicture).  A death of the match before
\* that has been counted leaves a digit that the next ones do not replace.
BoardClear ==
    (scene = "GAME" /\ heard = {} /\ "death" \notin astray) =>
        LET ps == Render IN
        \A i, j \in DOMAIN ps :
            (i < j /\ Hides(ps[i], ps[j])) =>
                ps[i].left = ps[j].left /\ ps[j] \in SkillPictures

\* The picture one sees of a skill is the one for its key down while the key is
\* down and the other one when it is up, although both lie there once S has been
\* pressed.  A key held since the last match is noticed when it comes up.
ButtonShows ==
    (scene = "GAME" /\ heard = {}) => \A k \in Skills :
        SeenAt(Render, SkillLeft(k) + 50, 718) =
            {<<k, IF k \in keys /\ skills[k] # NewSkill THEN "down" ELSE "up">>}

\* The pictures of a verdict never lie on each other.
OnePicture ==
    (scene = "GAME" /\ astray = {} /\ Cardinality(heard) <= 1) => Cardinality(shown) <= 1

\* What lies over the game says what the messages have told, and can be seen.
HudTrue == DigitsMatch /\ BarsShowHp /\ BoardClear /\ ButtonShows /\ OnePicture

\* A match ends by a verdict of its own, unless an earlier one got a second
\* verdict.
EndsByItsVerdict ==
    [][(scene = "GAME" /\ isEnding') => heard # {} \/ "verdict" \in astray]_vars

\* A verdict ends the match on the screen, whatever else comes in meanwhile.
VerdictEndsMatch == (scene = "GAME" /\ heard # {}) ~> scene # "GAME"
=============================================================================
