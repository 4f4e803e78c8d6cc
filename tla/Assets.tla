------------------------------- MODULE Assets -------------------------------
(***************************************************************************)
(* The meshes, materials, textures and objects of the client's game scene  *)
(* and their reference counts (GameObject.cpp, Mesh.h, Shader.cpp): what   *)
(* CScene::BuildObjects makes of them in the first frame of every match,   *)
(* and what CScene::ReleaseObjects leaves when the program ends.  Nothing  *)
(* else changes them.                                                      *)
(*                                                                         *)
(* A heap h says who is alive and who points to whom: h.refs maps every    *)
(* asset and object alive to its m_nReferences, h.ptr every object to what *)
(* its fields hold, and h.hung is what the shaders of m_ppShaders hold.    *)
(* Each is <<kind, match it was built for, number>>.  No call of the code  *)
(* gives a field the asset it holds already, so letting go of everything   *)
(* first and taking the new assets then comes to the same.                 *)
(***************************************************************************)
EXTENDS Integers, FiniteSetsExt

CONSTANTS
    Seats,      \* of a room, each with a hero and a sign: 0 .. MAX_GAMER - 1
    Houses,     \* pHouse1Object: 0 .. 12
    Walls,      \* pWallObject: 0 .. 63
    Matches     \* bound on the matches of a run of the program

ASSUME AssetsAssumption ==
    /\ Seats \subseteq Nat /\ Houses \subseteq Nat /\ Walls \subseteq Nat
    /\ IsFiniteSet(Seats) /\ IsFiniteSet(Houses) /\ IsFiniteSet(Walls)
    /\ Houses # {}
    /\ Matches \in Nat

VARIABLES
    program,        \* "UP", "DOWN" after its end, or "CRASHED"
    scenes,         \* calls of BuildObjects up to now
    heroes,          \* in the last one, the hero at each seat, 0 at empty ones
    heap            \* as above
graph == <<program, scenes, heroes, heap>>

None == <<"none", 0, 0>>
Parts == {"mesh", "material", "texture"}
Bare == [p \in Parts |-> None]
Outfit(mesh, material, texture) ==
    [mesh |-> mesh, material |-> material, texture |-> texture]

Sky(n) == <<"sky", n, 0>>
Hero(i) == <<"hero", 0, i>>
House(n, k) == <<"house", n, k>>
Wall(n, k) == <<"wall", n, k>>
Sign(n, i) == <<"sign", n, i>>

\* How often the objects O hold a
Count(ptr, O, a) == Cardinality({x \in O \X Parts : ptr[x[1]][x[2]] = a})

\* Release of CMesh, CMaterial and CTexture, n times: the last one deletes.
Survives(refs, a, n) == n = 0 \/ refs[a] > n

\* SetMesh, SetMaterial and SetTexture of the objects in new, among assets just
\* made: the old part is released, the new one counted.
Assign(ptr, new) ==
    [o \in DOMAIN ptr \cup DOMAIN new |-> IF o \in DOMAIN new THEN new[o] ELSE ptr[o]]

Equip_bug(h, made, new) ==
    LET known == DOMAIN new \cap DOMAIN h.ptr
        kept == {a \in DOMAIN h.refs : Survives(h.refs, a, Count(h.ptr, known, a))}
    IN [refs |-> [a \in kept \cup made \cup DOMAIN new |->
                    (IF a \in kept THEN h.refs[a] - Count(h.ptr, known, a) ELSE 0)
                        + IF Count(new, DOMAIN new, a) > 0 THEN 1 ELSE 0],
        ptr |-> Assign(h.ptr, new), hung |-> h.hung]
Equip(h, made, new) ==
    LET known == DOMAIN new \cap DOMAIN h.ptr
        kept == {a \in DOMAIN h.refs : Survives(h.refs, a, Count(h.ptr, known, a))}
    IN [refs |-> [a \in kept \cup made \cup DOMAIN new |->
                    (IF a \in kept THEN h.refs[a] - Count(h.ptr, known, a) ELSE 0)
                        + Count(new, DOMAIN new, a)],
        ptr |-> Assign(h.ptr, new), hung |-> h.hung]

\* CShader::AddObject, into arrays that hold S already
AddObjects(h, S, O) ==
    [refs |-> [a \in DOMAIN h.refs |-> IF a \in O THEN h.refs[a] + 1 ELSE h.refs[a]],
     ptr |-> h.ptr, hung |-> S \cup O]

\* ~CGameObject of the objects O
Delete_bug(h, O) ==
    LET Held(a) == Cardinality({o \in O : a \in {h.ptr[o].mesh, h.ptr[o].material}})
        kept == {a \in DOMAIN h.refs \ O : Survives(h.refs, a, Held(a))}
    IN [refs |-> [a \in kept |-> h.refs[a] - Held(a)],
        ptr |-> [o \in DOMAIN h.ptr \ O |-> h.ptr[o]], hung |-> h.hung]
Delete(h, O) ==
    LET kept == {a \in DOMAIN h.refs \ O : Survives(h.refs, a, Count(h.ptr, O, a))}
    IN [refs |-> [a \in kept |-> h.refs[a] - Count(h.ptr, O, a)],
        ptr |-> [o \in DOMAIN h.ptr \ O |-> h.ptr[o]], hung |-> h.hung]

-----------------------------------------------------------------------------
\* The scene's constructor.  The heroes live as long as the scene; the signs
\* over their heads are replaced by those of the first match.
EmptyScene ==
    LET O == {Hero(i) : i \in Seats} \cup {Sign(0, i) : i \in Seats}
    IN [refs |-> [o \in O |-> 0], ptr |-> [o \in O |-> Bare], hung |-> {}]

\* What the match with number n is built of.  First the textures and the
\* material, and the meshes of the map and of empty seats
BuildTextures(n) ==
    {<<k, n, 0>> : k \in {"material", "no texture", "house texture",
                          "wall texture", "red", "blue"}}
BuildMeshes(n) == {<<k, n, 0>> : k \in {"no mesh", "house mesh", "wall mesh"}}
Material(n) == <<"material", n, 0>>
NoMesh(n) == <<"no mesh", n, 0>>
OwnMesh(n, i) == <<"mesh", n, i>>

\* The sky, made by its shader
BuildSky(n) == Outfit(<<"sky mesh", n, 0>>, None, None)

\* A player's hero gets a mesh and a texture of its own, whichever of the
\* seven heroes it is and of which team; an empty seat's those of nobody.
Dress_bug(h, n, i, hero) ==
    IF hero = 0 THEN [h.ptr[Hero(i)] EXCEPT !.material = Material(n)]
    ELSE Outfit(OwnMesh(n, i), Material(n), <<"texture", n, i>>)
Dress(h, n, i, hero) ==
    IF hero = 0 THEN Outfit(NoMesh(n), Material(n), <<"no texture", n, 0>>)
    ELSE Outfit(OwnMesh(n, i), Material(n), <<"texture", n, i>>)

BuildHouse(n) == Outfit(<<"house mesh", n, 0>>, Material(n), <<"house texture", n, 0>>)
BuildWall(n) == Outfit(<<"wall mesh", n, 0>>, Material(n), <<"wall texture", n, 0>>)

\* The team signs: a mesh each, the colour of the team, none on empty seats
BuildSign(n, i, hero) ==
    Outfit(<<"sign mesh", n, i>>, Material(n),
           IF hero = 0 THEN None ELSE IF i % 2 = 0 THEN <<"red", n, 0>> ELSE <<"blue", n, 0>>)

\* The objects of the match with number n, and what all of them get
Objects(n) ==
    {Sky(n)} \cup {Hero(i) : i \in Seats} \cup {House(n, k) : k \in Houses}
        \cup {Wall(n, k) : k \in Walls} \cup {Sign(n, i) : i \in Seats}
Outfits(h, n, cast) ==
    [o \in Objects(n) |->
        CASE o = Sky(n) -> BuildSky(n)
          [] o[1] = "hero" -> Dress(h, n, o[3], cast[o[3]])
          [] o[1] = "house" -> BuildHouse(n)
          [] o[1] = "wall" -> BuildWall(n)
          [] o[1] = "sign" -> BuildSign(n, o[3], cast[o[3]])]
LostHouse(n) == House(n, Max(Houses))

\* m_ppShaders is a new array: what the old one holds is forgotten.  The sky
\* is put there without being counted, the last of the houses not at all.
BuildObjects(h, n, cast) ==
    LET new == Outfits(h, n, cast)
        parts == {new[o][p] : o \in DOMAIN new, p \in Parts} \ {None}
        made == BuildTextures(n) \cup BuildMeshes(n) \cup parts
    IN AddObjects(Equip(h, made, new), {Sky(n)}, DOMAIN new \ {Sky(n), LostHouse(n)})

\* CScene::ReleaseObjects over CShader::ReleaseObjects: an object that was hung
\* up more than once stays.
ReleaseObjects(h) ==
    LET last == {o \in h.hung : h.refs[o] <= 1}
    IN Delete([refs |-> [a \in DOMAIN h.refs |->
                            IF a \in h.hung THEN h.refs[a] - 1 ELSE h.refs[a]],
               ptr |-> h.ptr, hung |-> {}], last)

-----------------------------------------------------------------------------
GraphInit ==
    /\ program = "UP" /\ scenes = 0
    /\ heroes = [i \in Seats |-> 0]
    /\ heap = EmptyScene

\* The first frame of a match, with the players the server has named
BuildScene(cast) ==
    /\ program = "UP" /\ scenes < Matches
    /\ scenes' = scenes + 1
    /\ heroes' = cast
    /\ heap' = BuildObjects(heap, scenes', cast)
    /\ UNCHANGED program

\* CGameFramework::Destroy.  The constructor of a shader leaves m_pTexture and
\* m_pMaterial unset, and ReleaseObjects follows them.
EndProgram ==
    /\ program = "UP" /\ program' = "DOWN"
    /\ heap' = ReleaseObjects(heap)
    /\ UNCHANGED <<scenes, heroes>>

CrashAtEnd ==
    /\ program = "UP" /\ scenes > 0 /\ program' = "CRASHED"
    /\ UNCHANGED <<scenes, heroes, heap>>

GraphNext ==
    \/ \E cast \in [Seats -> {0, 1}] : (\E i \in Seats : cast[i] # 0) /\ BuildScene(cast)
    \/ EndProgram \/ CrashAtEnd
GraphSpec == GraphInit /\ [][GraphNext]_graph

-----------------------------------------------------------------------------
(* Properties *)

Fields(o) == {heap.ptr[o].mesh, heap.ptr[o].material, heap.ptr[o].texture}

\* SetMesh, SetTexture and SetMaterial are called on the same heroes match
\* after match, with assets that other objects share: nothing an object holds
\* is deleted, a count is the number of holders, and the shaders hold objects
\* that live.
HeldAlive ==
    program # "CRASHED" =>
        /\ heap.hung \subseteq DOMAIN heap.ptr
        /\ DOMAIN heap.ptr \subseteq DOMAIN heap.refs
        /\ \A o \in DOMAIN heap.ptr : Fields(o) \subseteq DOMAIN heap.refs \cup {None}
        /\ \A a \in DOMAIN heap.refs \ DOMAIN heap.ptr :
               heap.refs[a] = Cardinality({o \in DOMAIN heap.ptr : a \in Fields(o)})

\* The heroes outlive a match: in each one they look like what was picked for
\* it, and the heroes of empty seats like none.
HeroesDressed ==
    (program = "UP" /\ scenes > 0) =>
        \A i \in Seats : heap.ptr[Hero(i)].mesh =
            IF heroes[i] = 0 THEN NoMesh(scenes) ELSE OwnMesh(scenes, i)

\* After ReleaseObjects what is left over is what it cannot reach: objects of
\* an earlier match, the house no shader got, the heroes unless they were hung
\* up once, what these hold, and what nobody ever held.
Unreached ==
    {o \in DOMAIN heap.ptr :
        \/ o[2] \notin {0, scenes}
        \/ o = LostHouse(scenes)
        \/ o[1] = "sign" /\ o[2] = 0
        \/ o[1] = "hero" /\ scenes # 1}
OnlyLostLeaks ==
    program = "DOWN" =>
        \A a \in DOMAIN heap.refs :
            \/ a \in Unreached
            \/ \E o \in Unreached : a \in Fields(o)
            \/ a \notin DOMAIN heap.ptr /\ heap.refs[a] = 0

\* The scene graph over several matches: nothing that is held is deleted, the
\* heroes look as picked, and all that can be reached at the end is deleted.
GraphSound == HeldAlive /\ HeroesDressed /\ OnlyLostLeaks

\* "Functions that create and destroy the meshes and objects to be drawn":
\* what was created is destroyed.
EverythingFreed == program = "DOWN" => DOMAIN heap.refs = {}
=============================================================================
