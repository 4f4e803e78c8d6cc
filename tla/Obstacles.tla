------------------------------ MODULE Obstacles ------------------------------
(***************************************************************************)
(* What stands in a hero's way, as the steering client tests it once a     *)
(* frame: other heroes, houses, the edges of the map and the walls of team *)
(* B's respawn area (GameFramework.cpp's ProcessInput, with the collision  *)
(* functions of Scene.cpp).  Nothing is blocked: a test that holds sends a *)
(* packet with the direction the hero is taken to run in, and the answer   *)
(* moves it one step back.                                                 *)
(*                                                                         *)
(* A place is its x and z.  An obstacle is tested as lines, not as an      *)
(* area: its left and right side are upright lines, its upper and lower    *)
(* side level ones, and a hero is a square of six by six.                  *)
(***************************************************************************)
EXTENDS Integers, Sequences, SequencesExt

Arrows == {"LEFT", "RIGHT", "UP", "DOWN"}

Places == [x : Int, z : Int]
At(x, z) == [x |-> x, z |-> z]

\* n units along every arrow of ds: opposite arrows cancel out.
Stepped(p, ds, n) ==
    LET along(neg, pos) == (IF pos \in ds THEN n ELSE 0) - (IF neg \in ds THEN n ELSE 0)
    IN At(p.x + along("LEFT", "RIGHT"), p.z + along("DOWN", "UP"))

\* SC_CHAR_COLL: RIGHT and LEFT push against the arrow, UP and DOWN along it,
\* for their tests name the side of the obstacle the hero is at.
Pushed(p, d) == Stepped(p, {d}, IF d \in {"RIGHT", "LEFT"} THEN -1 ELSE 1)

\* Opposite arrows, with or without others
Opposed(ds) == {"LEFT", "RIGHT"} \subseteq ds \/ {"UP", "DOWN"} \subseteq ds

-----------------------------------------------------------------------------
(* Lines, given by the places of their ends *)

HeroSize == 3

Meets(p, a, b) ==
    /\ p.x - HeroSize < b.x /\ p.x + HeroSize > a.x
    /\ p.z - HeroSize < b.z /\ p.z + HeroSize > a.z

\* Rightcollision and Leftcollision test the line at distance sx before or
\* behind the other's place, from sz below to sz above it.
RightColl(p, o, sx, sz) == Meets(p, At(o.x - sx, o.z - sz), At(o.x - sx, o.z + sz))
LeftColl(p, o, sx, sz) == Meets(p, At(o.x + sx, o.z - sz), At(o.x + sx, o.z + sz))

\* Upcollision and Downcollision, against a hero: the whole upper or lower side
UpColl(p, o, sx, sz) == Meets(p, At(o.x - sx, o.z + sz), At(o.x + sx, o.z + sz))
DownColl(p, o, sx, sz) == Meets(p, At(o.x - sx, o.z - sz), At(o.x + sx, o.z - sz))

\* ... and against a house: the line ends 15 before its place
UpHouse(p, o, sx, sz) ==
    Meets(p, At(o.x - sx - sx, o.z + sz), At(o.x - 15, o.z + sz))
DownHouse(p, o, sx, sz) ==
    Meets(p, At(o.x - sx - sx, o.z - sz), At(o.x - 15, o.z - sz))

\* The first of four tests that holds, as a sequence of at most one direction
FirstOf(right, left, up, down) ==
    IF right THEN <<"RIGHT">> ELSE IF left THEN <<"LEFT">>
    ELSE IF up THEN <<"UP">> ELSE IF down THEN <<"DOWN">> ELSE <<>>

HeroPush(p, o) ==
    FirstOf(RightColl(p, o, 3, 3), LeftColl(p, o, 3, 3),
            UpColl(p, o, 3, 3), DownColl(p, o, 3, 3))

HousePush(p, o) ==
    FirstOf(RightColl(p, o, 110, 32), LeftColl(p, o, -2, 32),
            UpHouse(p, o, 55, 32), DownHouse(p, o, 55, 32))

-----------------------------------------------------------------------------
(* The map *)

\* pHouse1Object[1..12]; the last is never put anywhere and stands at the
\* origin, where number 0, which is drawn in its place, stands too.
Houses == <<At(250, -300), At(-150, -300), At(150, -150), At(-50, -150),
            At(150, 150), At(-50, 150), At(50, 300), At(250, 300),
            At(-150, 300), At(-300, -100), At(250, 100), At(0, 0)>>

Within(v, a, b) == a < v /\ v < b

\* The edges of the map and the walls beside team B's respawn area: one push
EdgePush(p) ==
    IF p.x > 403 THEN <<"RIGHT">>
    ELSE IF p.x < -403 THEN <<"LEFT">>
    ELSE IF ~Within(p.x, -101, 101) /\ p.z < -495 THEN <<"UP">>
    ELSE <<>>

\* Team B's respawn area: its lower side, its sides from within and from
\* without, all tested.  Team A's has no such tests.
RespawnPushes(p) ==
    LET push(b, d) == IF b THEN <<d>> ELSE <<>>
        inner == Within(p.z, -580, -413)
        outer == Within(p.z, -580, -450)
    IN push(Within(p.x, -80, 80) /\ p.z < -574, "UP")
         \o push(p.x = 64 /\ inner, "RIGHT") \o push(p.x = -64 /\ inner, "LEFT")
         \o push(p.x = -105 /\ outer, "RIGHT") \o push(p.x = 105 /\ outer, "LEFT")

\* The first obstacle of a list that is met ends the loop over it.
FirstPush(pushes) ==
    LET met == {i \in DOMAIN pushes : pushes[i] # <<>>}
    IN IF met = {} THEN <<>> ELSE pushes[Min(met)]

\* The packets a frame sends for a hero at p when others stand at heroes
Pushes(p, heroes) ==
    FirstPush([i \in DOMAIN heroes |-> HeroPush(p, heroes[i])])
      \o FirstPush([i \in DOMAIN Houses |-> HousePush(p, Houses[i])])
      \o EdgePush(p) \o RespawnPushes(p)

-----------------------------------------------------------------------------
(* Attacks *)

\* Sectorcollision: o is within range of a point three units before p.  A
\* direction that is none of the eight leaves both differences at zero.
InSector(p, o, face, range) ==
    LET c == Stepped(p, face, 3)
    IN \/ Opposed(face)
       \/ (c.x - o.x) * (c.x - o.x) + (c.z - o.z) * (c.z - o.z) <= range * range

-----------------------------------------------------------------------------
(* Reference: where a hero must not be *)

\* Its middle is under a roof, or it is more than a step beyond the edge.
InHouse(p) ==
    \E i \in DOMAIN Houses : LET h == Houses[i] IN
        Within(p.x, h.x - 110, h.x - 2) /\ Within(p.z, h.z - 32, h.z + 32)
OffTheMap(p) == p.x > 404 \/ p.x < -404
=============================================================================
