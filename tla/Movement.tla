------------------------------ MODULE Movement ------------------------------
(***************************************************************************)
(* One hero on its way over the map, as three parties see it: the client   *)
(* that steers it, the server, and another client that shows it.  The keys *)
(* are Scene.cpp's ProcessInput, the frames GameFramework.cpp's, the       *)
(* server's part is CS_KEYDOWN/UP, COLL and SKILL_DONE of PacketFunc.cpp,  *)
(* the receiving end LunaticProject.cpp's ProcessPacket.                   *)
(*                                                                         *)
(* A frame moves by one unit along every arrow held (by less than one in   *)
(* the code when two are, so that all places here are whole numbers), and  *)
(* so does a push.  The other heroes stand still.  Somebody hits the hero  *)
(* at any time, and the party that does it is not shown.  Handlers are     *)
(* atomic, and packets about the hero reach a client in the order the      *)
(* server sent them; the other client only shows the hero, so it handles   *)
(* what it is sent at once.                                                *)
(***************************************************************************)
EXTENDS Integers, Sequences, SequencesExt, Obstacles

CONSTANTS
    Keys,           \* the arrows that are used
    Start,          \* where the hero stands when we begin to look at it
    Spawn,          \* where Player_Respawn puts it
    Others,         \* where the other heroes stand, all of the other team
    AttackRange,          \* how far its attack reaches
    View,           \* bound: the places frames are looked at
    Presses, Acts, Hits, \* bounds: how many arrows, attacks and hits
    Events,         \* bound: ... and how many of them in all
    Backlog         \* bound: packets in flight that stop a client's frames

ASSUME MovementAssumption ==
    /\ Keys \subseteq Arrows
    /\ {Start, Spawn} \cup View \subseteq Places /\ Others \in Seq(Places)
    /\ {AttackRange, Presses, Acts, Hits, Events, Backlog} \subseteq Nat

VARIABLES
    \* the steering client
    down,           \* LeftKeyDown, RightKeyDown, UpKeyDown, DownKeyDown
    dir,            \* dwDirection
    face,           \* dwDirforCollision, where its attacks go
    hero, me,       \* position of pHeroObject[myGame_id] and of m_pPlayer
    locked,         \* g_bDoing_Ani
    doing,          \* its bHero* flags: swing (attack, Q, W, E, R), hit, die
    anim,           \* the animation it shows of the hero
    loaded,         \* has CS_LOADCOMPLETE been sent?
    buf,            \* byte 2 of send_buffer: is it the room's number?
    \* the server
    sdir, spos,     \* m_Direction, m_fX
    dead,           \* a respawn is due
    \* the other client
    odir, ohero,    \* OtherDirection[id], its pHeroObject[id]
    oanim,          \* the animation it shows of the hero
    \* packets in flight: client to server, server to client
    c2s, s2c,
    pressed, acted, struck,  \* counters for Presses, Acts and Hits
    told,           \* history: the last packet about hero and position
    crossed,        \* history: has a hit stopped a running hero?
    far             \* history: has an attack reached beyond its range?

own == <<down, dir, face, hero, me, locked, doing, anim, loaded, buf>>
server == <<sdir, spos, dead>>
other == <<odir, ohero, oanim>>
counters == <<pressed, acted, struck>>
history == <<told, crossed, far>>
moveVars == <<own, server, other, c2s, s2c, counters, history>>

\* The hero is at rest and all packets are delivered; the last packet before
\* CS_LOADCOMPLETE was CS_READY, whose byte 2 is the hero's kind.
MoveInit ==
    /\ down = {} /\ dir = {} /\ face = {"DOWN"} /\ hero = Start /\ me = Start
    /\ locked = FALSE /\ doing = {} /\ anim = "IDLE" /\ loaded = FALSE /\ buf = FALSE
    /\ sdir = {} /\ spos = Start /\ dead = FALSE
    /\ odir = {} /\ ohero = Start /\ oanim = "IDLE"
    /\ c2s = <<>> /\ s2c = <<>>
    /\ pressed = 0 /\ acted = 0 /\ struck = 0
    /\ told = "POS" /\ crossed = FALSE /\ far = FALSE

-----------------------------------------------------------------------------
(* The steering client *)

MoreEvents == pressed + acted + struck < Events

\* SendMovePacket and its like: what is written leaves at once, with byte 2 of
\* the buffer as it is.
KeyPacket(t, k) == [t |-> t, k |-> k, x |-> hero, room |-> buf']
TestPacket(k) == [t |-> "COLL", k |-> k, room |-> buf']
ActPacket(t) == [t |-> t, room |-> buf']
SendAll(ps) == c2s' = c2s \o ps

\* FrameAdvance, LoadingScene: CS_LOADCOMPLETE has the room's number in byte 2
\* and so has every packet of the match but one.
LoadComplete ==
    /\ ~loaded /\ loaded' = TRUE
    /\ buf' = TRUE
    /\ UNCHANGED <<down, dir, face, hero, me, locked, doing, anim, server, other,
                   c2s, s2c, counters, history>>

\* An arrow goes down: the hero runs at once, and the server is told.
KeyDown(k) ==
    /\ loaded /\ k \notin down /\ ~locked /\ "swing" \notin doing
    /\ pressed < Presses /\ MoreEvents /\ pressed' = pressed + 1
    /\ down' = down \cup {k}
    /\ dir' = dir \cup {k}
    /\ buf' = TRUE
    /\ SendAll(<<KeyPacket("DOWN", k)>>)
    /\ UNCHANGED <<face, hero, me, locked, doing, anim, loaded, server, other, s2c,
                   acted, struck, history>>

\* An arrow comes up, or did so during an animation and is noticed now; only
\* the answer will stop the hero.
KeyUp(k) ==
    /\ loaded /\ k \in down /\ ~locked
    /\ down' = down \ {k}
    /\ buf' = TRUE
    /\ SendAll(<<KeyPacket("UP", k)>>)
    /\ UNCHANGED <<dir, face, hero, me, locked, doing, anim, loaded, server, other, s2c,
                   counters, history>>

\* The range an attack is meant to have, wherever the hero looks
Reaches(o) ==
    LET dx == hero.x - o.x  dz == hero.z - o.z
    IN dx * dx + dz * dz <= (AttackRange + 5) * (AttackRange + 5)

\* D and S while no arrow is down, which strike whom they reach, W, E and R at
\* any time, which only animate
Swing(strikes) ==
    /\ loaded /\ ~locked /\ acted < Acts /\ MoreEvents
    /\ strikes => down = {}
    /\ locked' = TRUE
    /\ doing' = doing \cup {"swing"}
    /\ acted' = acted + 1
    /\ buf' = TRUE
    /\ LET struckOnes == {i \in DOMAIN Others :
                              strikes /\ InSector(hero, Others[i], face, AttackRange)}
       IN /\ SendAll(<<ActPacket("SWING")>>
                        \o [i \in 1 .. Cardinality(struckOnes) |-> ActPacket("STRIKE")])
          /\ far' = (far \/ \E i \in struckOnes : ~Reaches(Others[i]))
    /\ UNCHANGED <<down, dir, face, hero, me, anim, loaded, server, other, s2c,
                   pressed, struck, told, crossed>>

\* Where the hero is when the frame tests what is in its way
TestedAt_bug == hero
TestedAt == me

\* ProcessInput of the frame: the hero is put where m_pPlayer is, everything
\* in its way is tested there, and then m_pPlayer moves on.
Frame ==
    /\ dir # {}
    /\ {Stepped(me, dir, 1), ohero} \subseteq View     \* the bounds
    /\ Len(c2s \o s2c) < Backlog
    /\ hero' = me
    /\ me' = Stepped(me, dir, 1)
    /\ LET ps == Pushes(TestedAt, Others) IN
       /\ buf' = (buf \/ ps # <<>>)
       /\ SendAll([i \in DOMAIN ps |-> TestPacket(ps[i])])
    /\ UNCHANGED <<down, dir, face, locked, doing, anim, loaded, server, other, s2c,
                   counters, history>>

\* AnimateObjects at the last frame of whatever animation is shown: the only
\* packet that is sent without a room number of its own
DoneFlags_bug == doing \ {"hit"}
DoneFlags == doing
Animate ==
    /\ DoneFlags # {}
    /\ doing' = {}
    /\ buf' = buf
    /\ SendAll(<<ActPacket("DONE")>>)
    /\ UNCHANGED <<down, dir, face, hero, me, locked, anim, loaded, server, other,
                   s2c, counters, history>>

\* SetAnimation at either client: nothing but a packet starts an animation,
\* and it is shown again and again until the next one.
Animation(p, shown) ==
    CASE p.t = "POS" -> IF p.d = {} THEN "IDLE" ELSE "RUN"
      [] p.t = "HIT" -> IF p.alive THEN "HIT" ELSE shown
      [] p.t \in {"SWING", "DIE"} -> p.t
      [] p.t \in {"DONE", "RESPAWN"} -> "IDLE"
      [] p.t = "COLL" -> shown

\* bHeroHit, for a hero that lives
FlagsOfHit_bug(alive) == doing
FlagsOfHit(alive) == IF alive THEN doing \cup {"hit"} ELSE doing

\* SC_POS puts the own hero back to where it was when the key was noticed.
PutAt_bug(x) == hero
PutAt(x) == x

ReadPacket ==
    /\ s2c # <<>>
    /\ s2c' = Tail(s2c)
    /\ anim' = Animation(Head(s2c), anim)
    /\ LET p == Head(s2c) IN
       \/ /\ p.t = "POS"
          /\ dir' = p.d
          /\ face' = IF p.d = {} THEN face ELSE p.d
          /\ hero' = PutAt(p.x)
          /\ UNCHANGED <<me, locked, doing>>
       \/ /\ p.t = "COLL"
          /\ me' = Pushed(me, p.k)
          /\ hero' = me'
          /\ UNCHANGED <<dir, face, locked, doing>>
       \/ /\ p.t = "HIT"
          /\ locked' = TRUE
          /\ dir' = p.d
          /\ doing' = FlagsOfHit(p.alive)
          /\ UNCHANGED <<face, hero, me>>
       \/ /\ p.t = "SWING"
          /\ UNCHANGED <<dir, face, hero, me, locked, doing>>
       \/ /\ p.t = "DIE"
          /\ doing' = doing \cup {"die"}
          /\ UNCHANGED <<dir, face, hero, me, locked>>
       \/ /\ p.t = "RESPAWN"
          /\ hero' = p.x
          /\ me' = p.x
          /\ UNCHANGED <<dir, face, locked, doing>>
       \/ /\ p.t = "DONE"
          /\ locked' = FALSE
          /\ UNCHANGED <<dir, face, hero, me, doing>>
    /\ UNCHANGED <<down, loaded, buf, server, other, c2s, counters, history>>

-----------------------------------------------------------------------------
(* The other client *)

OtherFrame ==
    /\ odir # {}
    /\ ohero' = Stepped(ohero, odir, 1)
    /\ ohero' \in View
    /\ UNCHANGED <<own, server, odir, oanim, c2s, s2c, counters, history>>

Show(p) ==
    \/ p.t = "POS" /\ odir' = p.d /\ ohero' = p.x
    \/ p.t = "COLL" /\ ohero' = Pushed(ohero, p.k) /\ UNCHANGED odir
    \/ p.t = "HIT" /\ odir' = p.d /\ UNCHANGED ohero
    \/ p.t = "RESPAWN" /\ ohero' = p.x /\ UNCHANGED odir
    \/ p.t \in {"SWING", "DONE"} /\ UNCHANGED <<odir, ohero>>

-----------------------------------------------------------------------------
(* The server *)

\* One packet or two to the room's clients; only the last may move the hero.
Broadcast(ps) ==
    /\ s2c' = s2c \o ps
    /\ Show(Last(ps))
    /\ oanim' = IF Len(ps) = 1 THEN Animation(ps[1], oanim)
                ELSE Animation(ps[2], Animation(ps[1], oanim))

PosPacket == [t |-> "POS", d |-> sdir', x |-> spos']
CollPacket(k) == [t |-> "COLL", k |-> k]
SwingPacket == [t |-> "SWING"]
DonePacket == [t |-> "DONE"]
HitPacket(alive) == [t |-> "HIT", d |-> sdir', alive |-> alive]
DiePacket == [t |-> "DIE"]
RespawnPacket == [t |-> "RESPAWN", x |-> spos']

\* m_Direction ^= bit, unless it is 0
Released_bug(k) == sdir \cap {k}
Released(k) == IF sdir = {} THEN {} ELSE SymDiff(sdir, {k})

Serve ==
    /\ c2s # <<>>
    /\ c2s' = Tail(c2s)
    /\ LET p == Head(c2s) IN
       \/ /\ p.t \in {"DOWN", "UP"}
          /\ sdir' = IF p.t = "DOWN" THEN sdir \cup {p.k} ELSE Released(p.k)
          /\ spos' = p.x
          /\ Broadcast(<<PosPacket>>)
          /\ told' = "POS"
       \/ /\ p.t = "COLL"
          /\ Broadcast(<<CollPacket(p.k)>>)
          /\ told' = "COLL"
          /\ UNCHANGED <<sdir, spos>>
       \/ /\ p.t = "SWING"
          /\ Broadcast(<<SwingPacket>>)
          /\ UNCHANGED <<sdir, spos, told>>
       \/ /\ p.t = "STRIKE"             \* this is about the hero that is hit
          /\ UNCHANGED <<sdir, spos, other, s2c, told>>
       \/ /\ p.t = "DONE"
          /\ IF p.room THEN Broadcast(<<DonePacket>>) ELSE UNCHANGED <<other, s2c>>
          /\ UNCHANGED <<sdir, spos, told>>
    /\ UNCHANGED <<own, dead, counters, crossed, far>>

\* CS_ATTACK_HIT of somebody else: the hero stops where nobody has said it is.
Hit(alive) ==
    /\ loaded /\ struck < Hits /\ MoreEvents /\ ~dead
    /\ struck' = struck + 1
    /\ sdir' = {}
    /\ crossed' = (crossed \/ sdir # {})
    /\ dead' = ~alive
    /\ Broadcast(IF alive THEN <<HitPacket(alive)>> ELSE <<DiePacket, HitPacket(alive)>>)
    /\ told' = "HIT"
    /\ UNCHANGED <<own, spos, c2s, pressed, acted, far>>

\* P_RESPAWN, five seconds after
Respawn ==
    /\ dead
    /\ dead' = FALSE
    /\ spos' = Spawn
    /\ Broadcast(<<RespawnPacket>>)
    /\ told' = "RESPAWN"
    /\ UNCHANGED <<own, sdir, c2s, counters, crossed, far>>

MoveNext ==
    \/ LoadComplete
    \/ \E k \in Keys : KeyDown(k) \/ KeyUp(k)
    \/ Swing(TRUE) \/ Swing(FALSE) \/ Frame \/ Animate \/ ReadPacket
    \/ Serve \/ Hit(TRUE) \/ Hit(FALSE) \/ Respawn
    \/ OtherFrame

\* Frames go on, so an animation comes to its end, and packets are delivered
\* and handled.
MoveSpec ==
    /\ MoveInit /\ [][MoveNext]_moveVars
    /\ WF_moveVars(Animate) /\ WF_moveVars(Serve) /\ WF_moveVars(ReadPacket)

-----------------------------------------------------------------------------
(* Properties *)

Delivered == c2s = <<>> /\ s2c = <<>>
HandsOff == down = {} /\ ~locked /\ doing = {}

\* Released keys stop the hero, for all three, although the direction is kept
\* by toggling bits in the order packets come in and keys that come up during
\* an animation are noticed late.  Unless a hit has cleared the direction of a
\* running hero: then the arrow that is still down toggles its bit back on.
StopsWhenReleased ==
    Delivered /\ HandsOff /\ ~crossed => sdir = {} /\ dir = {} /\ odir = {}

\* When everything was delivered, both clients move the hero the way the
\* server has it, and if it stands, it stands at one place for all three.
\* Only a collision or a hit that came after the last CS_KEYUP may leave the
\* places apart.
PlacesAgree ==
    Delivered =>
        /\ odir = sdir /\ dir = sdir
        /\ sdir = {} /\ told \in {"POS", "RESPAWN"} =>
             hero = spos /\ ohero = spos

\* g_bDoing_Ani is set by a swing and by a hit, and cleared by an answer that
\* the server sends for a packet of the last frame of an animation: the keys
\* always come back.
InputReturns == locked ~> ~locked

\* An animation goes on until a packet starts the next, and only the client
\* that steers the hero looks for its end.  It does so by the flags of the
\* hero, whatever is shown: still nobody is left looking at a swing, a hit or a
\* fall, or at a hero that runs on the spot.
AnimationsEnd ==
    Delivered /\ doing = {} =>
        \A a \in {anim, oanim} : a = "IDLE" \/ (a = "RUN" /\ sdir # {})

\* CS_SKILL_DONE does not write its room's number: whatever packet was last in
\* send_buffer has written it, so the answer goes to the hero's own room.
DoneReachesRoom == \A i \in DOMAIN c2s : c2s[i].t = "DONE" => c2s[i].room

\* Nothing stops a hero at a wall but a push for every frame it spends there,
\* sent, relayed and received while it runs on.  Whatever the delay, once all
\* have come it is in no house and at most a step beyond the edge of the map.
StaysOut == Delivered => ~InHouse(me) /\ ~OffTheMap(me)

\* "Attack range" (HeroManager.h:16): a swing strikes heroes near by only.
StrikesNear == ~far

\* A dead hero lies on the ground until it respawns.
DeadLieDown == Delivered /\ dead => anim = "DIE"

\* "Keys are blocked during an animation" (LunaticProject.cpp:1296,
\* Scene.cpp:1491): while the hero swings or is hit, g_bDoing_Ani is set.
InputBlocked == doing \cap {"swing", "hit"} # {} => locked
=============================================================================
