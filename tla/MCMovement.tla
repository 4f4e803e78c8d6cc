----------------------------- MODULE MCMovement -----------------------------
(***************************************************************************)
(* Instances of Movement.  In the corner between the left edge of the map  *)
(* and the house next to it, with another hero beside it, a hero is pushed *)
(* in three directions.  In the gap, where the house's upper line has      *)
(* ended, it is pushed in none.                                            *)
(***************************************************************************)
EXTENDS Movement

Corner == At(-403, -65)
CornerView == {At(x, z) : x \in -405 .. -402, z \in -67 .. -65}
Gap == At(-308, -65)
GapView == {At(-308, z) : z \in -70 .. -65}
RespawnPlace == At(0, -500)
Neighbour == <<At(-405, -60)>>
FarAway == <<At(150, 300)>>
=============================================================================
