---------------------------- MODULE MCNavClient ----------------------------
(* A web and a mobile app, or one of them, over a two-waypoint route.      *)
EXTENDS NavClient, TLC

CONSTANTS p1, p2, p3

TwoWaypoints == <<p1, p2>>

(* Bound: edits and failing calls together.                                *)
FewUpsets == edits + failures <= 2

(* A client's slots are interchangeable.                                   *)
Symmetry == Permutations(Slots)
=============================================================================
