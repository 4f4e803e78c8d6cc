-------------------------------- MODULE Hud --------------------------------
(***************************************************************************)
(* The pictures that lie over the game (CUIObject, CUIManager) and the     *)
(* places CScene::BuildObjects and the match give them.  The window is     *)
(* 1024 x 768 and nothing but the depth test, which takes what is nearer   *)
(* than all drawn so far, decides what hides what; depths are in tenths.   *)
(* A picture that is not shown is somewhere left of and above the window.  *)
(***************************************************************************)
EXTENDS Integers, Sequences

Picture(texture, left, top, right, bottom, depth) ==
    [texture |-> texture, left |-> left, top |-> top, right |-> right,
     bottom |-> bottom, depth |-> depth]
Away == -1
InSight(p) == p.depth # Away

Overlap(p, q) ==
    /\ p.left < q.right /\ q.left < p.right
    /\ p.top < q.bottom /\ q.top < p.bottom

\* q is drawn after p and found to be behind it.
Hides(p, q) == InSight(p) /\ InSight(q) /\ Overlap(p, q) /\ p.depth <= q.depth

\* The picture of the sequence ps seen at a point: drawn after the ones before,
\* which are further away, and before the ones that it hides.  None is "".
SeenAt(ps, x, y) ==
    LET at == {i \in DOMAIN ps :
                  InSight(ps[i]) /\ Overlap(ps[i], Picture("", x, y, x + 1, y + 1, 0))}
        front == {i \in at : \A j \in at : ps[i].depth < ps[j].depth
                                           \/ (ps[i].depth = ps[j].depth /\ i <= j)}
    IN {ps[i].texture : i \in front}

-----------------------------------------------------------------------------
\* Left edge of the n-th place of a team, the red one (A) on the left
TeamLeft(team, n) ==
    IF team = 0 THEN IF n = 0 THEN n * 80 + 5 ELSE n * 80 + n * 5 + 5
    ELSE IF n = 0 THEN 660 + n * 80 + 5 ELSE 665 + n * 80 + n * 5

\* The own health
HpBar == Picture("hpbar", 0, 668, 400, 768, 5)
FullGauge == 385
Gauge(end) == Picture("gauge", 50, 720, end, 745, 3)

\* A skill has one picture for its key up and one for its key down.
SkillLeft(key) == IF key = "S" THEN 600 ELSE 700
SkillUp(key, depth) ==
    Picture(<<key, "up">>, SkillLeft(key), 668, SkillLeft(key) + 100, 768, depth)
SkillDown(key, depth) ==
    Picture(<<key, "down">>, SkillLeft(key), 668, SkillLeft(key) + 100, 768, depth)
NewSkill == [up |-> 5, down |-> Away]

\* D and S go down ...
SkillPressed_bug(key, skill) == [up |-> skill.up, down |-> 3]
SkillPressed(key, skill) == [up |-> Away, down |-> 3]
\* ... and come up: for S, the picture of the key down stays.
SkillReleased(key, skill) ==
    [up |-> 3, down |-> IF key = "S" THEN skill.down ELSE Away]

\* The score, the digits in front of the board
ScoreBoard == Picture("scoreboard", 355, 0, 655, 80, 5)
Digit(place, n) ==
    LET left == IF place = "left" THEN 400 + 5 ELSE 550 + 5
    IN Picture(<<place, n>>, left, 20, left + 50, 60, 4)

\* A player's portrait is the one of its hero and an empty seat's is empty.
PortraitTexture(seat, hero) ==
    IF hero = 0 THEN <<"empty", seat>> ELSE <<"hero", seat>>
\* The seats take the places of the two teams in turn.
Portrait(seat, hero) ==
    LET left == TeamLeft(seat % 2, seat \div 2)
    IN Picture(PortraitTexture(seat, hero), left, 0, left + 80, 80, 5)

\* The frame round the k-th portrait from the left
Edge(k) ==
    LET left == TeamLeft(k \div 4, k % 4)
    IN Picture(<<IF k < 4 THEN "red" ELSE "blue", k>>, left, 0, left + 80, 100, 4)

\* The bar of health under a portrait and its ends when it is full
FullBar(seat) ==
    LET left == TeamLeft(seat % 2, seat \div 2) IN <<left + 3, left + 80 - 3>>
Bar_bug(seat, ends) == Picture(<<"hp", seat>>, ends[1], 85, ends[2], 97, 5)
Bar(seat, ends) == Picture(<<"hp", seat>>, ends[1], 85, ends[2], 97, 3)

\* A verdict: its pictures, and a veil over the whole window
VerdictPicture(v) == Picture(v, 400, 350, 600, 450, 1)
Veil(depth) == Picture("veil", 0, 0, 1024, 768, depth)
=============================================================================
