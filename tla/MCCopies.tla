------------------------------ MODULE MCCopies ------------------------------
(***************************************************************************)
(* What the apps and displays show has to catch up with what it is of:     *)
(* each app's copy of the active route, and a display's picks.  A          *)
(* behaviour is of one of them; the other stays as it starts.              *)
(***************************************************************************)
EXTENDS NavClient, DisplayPicks

CONSTANTS p1, p2

VARIABLE copy

copiesVars == <<vars, displayVars, copy>>

TwoWaypoints == <<p1, p2>>

(* A position sensor is configured and may be late; the web app changes    *)
(* its mind about the depth, the route and the position sensor, and about  *)
(* the camera.                                                             *)
TwoPicks ==
  {[movement_sensor |-> "gps", depth_sensor |-> "gps", route_sensor |-> "ais", cameras |-> {"mast"}],
   [movement_sensor |-> "ais", depth_sensor |-> "ais", route_sensor |-> "ais", cameras |-> {}]}

OneConfig ==
  {[movement_sensor |-> "gps", depth_sensor |-> Unset, route_sensor |-> Unset, cameras |-> {},
    nav_service |-> Unset]}

CopiesInit ==
  /\ copy \in {"route", "picks"}
  /\ Init
  /\ DisplayInit /\ (copy # "picks" => online = {})

CopiesNext ==
  /\ \/ copy = "route" /\ Next /\ UNCHANGED displayVars
     \/ copy = "picks" /\ DisplayNext /\ UNCHANGED vars
  /\ UNCHANGED copy

(* The fairness of NavClient's FairSpec and of DisplaySpec, of the copy     *)
(* that a behaviour is of: the other's steps are never taken.              *)
Route(A) == copy = "route" /\ A
Picks(A) == copy = "picks" /\ A

CopiesFairness ==
  /\ \A c \in Clients, s \in Slots : WF_vars(Route(Deliver(c, s))) /\ WF_vars(Route(PollStatus(c, s)))
  /\ \A d \in Displays :
       WF_displayVars(Picks(GetDisplayPicks(d))) /\ WF_displayVars(Picks(RefreshFallback(d)))
  /\ WF_displayVars(Picks(PickDeps)) /\ WF_displayVars(Picks(ResolvePicks))
  /\ WF_displayVars(Picks(ThrottleEnds))

CopiesSpec == CopiesInit /\ [][CopiesNext]_copiesVars /\ CopiesFairness
=============================================================================
