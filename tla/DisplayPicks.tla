---------------------------- MODULE DisplayPicks ----------------------------
(***************************************************************************)
(* What the web app picks of the machine's resources and reports through   *)
(* set_display_resources, and how the display API serves them where its    *)
(* own configuration names nothing: the registry with its generations, its *)
(* file, and the resolution in the background (displaypicks.go,            *)
(* displayapi.go, nav.go).  The poll of a thin client reads the registry   *)
(* under one mutex and the resolution under another.  A handle is the name *)
(* of the resource it is of.                                               *)
(***************************************************************************)
EXTENDS Naturals, FiniteSets, TLC

CONSTANTS
  Sensors,      \* the fields of DisplayPicks that name one resource each
  ReportedPicks,  \* the DisplayPicks the web app reports
  DisplayConfigs, \* the configurations: names for Sensors, cameras, nav_service
  Machine,      \* the names of the machine's resources
  Reporters,    \* calls of set_display_resources under way
  Displays,     \* clients polling the API
  MaxGen,       \* bound: the generation of the picks
  MaxUpsets,    \* bound: restarts, rebuilds, resources that come or go, failures
  Unset, Torn, NavHandle

VARIABLES
  shown,        \* the configuration
  reg,          \* displayPicksReg: [picks, nav, gen]
  picksFile,    \* display-picks.json
  report,       \* a call of setDisplayPicks: "idle", or [at, picks]
  poll,         \* what a poll has read of the registry, or "none"
  api,          \* the DisplayAPI
  resolve,      \* resolvePicks under way: [at, picks, gen, deps]
  online,       \* the resources the machine offers
  upsets

displayVars == <<shown, reg, picksFile, report, poll, api, resolve, online, upsets>>

-----------------------------------------------------------------------------
NoPicks == [cameras |-> {}] @@ [f \in Sensors |-> Unset]
NoReport == [picks |-> NoPicks, nav |-> Unset, gen |-> 0]
Resting == [at |-> "rest"]

(* NewDisplayAPI: a configured name that is not available is left out.     *)
NewDisplayAPI(config, offered) ==
  LET sensor == [f \in Sensors |-> IF config[f] \in offered THEN config[f] ELSE Unset] IN
  [sensor |-> sensor,
   cameras |-> config.cameras \cap offered,
   nav |-> IF config.nav_service \in offered THEN config.nav_service ELSE Unset,
   track |-> IF sensor.movement_sensor # Unset THEN sensor.movement_sensor ELSE Unset,
   fb |-> [f \in Sensors |-> Unset], fbCameras |-> {}, fbNav |-> Unset,
   fbGen |-> 0, due |-> TRUE, robot |-> FALSE]

(* loadDisplayPicks: "only an untouched registry loads".                   *)
LoadDisplayPicks(r) ==
  IF picksFile \in {Torn, Unset, NoPicks} \/ r.gen # 0 THEN r
  ELSE [picks |-> picksFile, nav |-> Unset, gen |-> 1]

(* currentMS, currentDepth, currentRoute, currentCameraNames.              *)
CurrentPick(f) == IF api.sensor[f] # Unset THEN api.sensor[f] ELSE api.fb[f]
CurrentCameras == IF api.cameras # {} THEN api.cameras ELSE api.fbCameras

DisplayInit ==
  /\ shown \in DisplayConfigs
  /\ online \in SUBSET Machine
  /\ reg = NoReport /\ picksFile = Unset
  /\ report = [r \in Reporters |-> Resting]
  /\ poll = [d \in Displays |-> Resting]
  /\ api = NewDisplayAPI(shown, online)
  /\ resolve = Resting
  /\ upsets = 0

-----------------------------------------------------------------------------
(* doSetDisplayResources, setDisplayPicks: the registry under its mutex,   *)
(* then the file without it.                                               *)
SetDisplayPicks(r) ==
  /\ report[r] = Resting /\ reg.gen < MaxGen
  /\ \E p \in ReportedPicks :
       /\ reg' = [picks |-> p, nav |-> NavHandle, gen |-> reg.gen + 1]
       /\ report' = [report EXCEPT ![r] = [at |-> "open", picks |-> p]]
  /\ UNCHANGED <<shown, picksFile, poll, api, resolve, online, upsets>>

OpenPicksFile(r) ==
  /\ report[r].at = "open"
  /\ picksFile' = Torn
  /\ report' = [report EXCEPT ![r].at = "write"]
  /\ UNCHANGED <<shown, reg, poll, api, resolve, online, upsets>>

(* Another call may have written since this one truncated the file: the    *)
(* end of its text shows where it is the longer.                           *)
WritePicksFile(r) ==
  /\ report[r].at = "write"
  /\ picksFile' \in {report[r].picks} \cup (IF picksFile = Torn THEN {} ELSE {Torn})
  /\ report' = [report EXCEPT ![r] = Resting]
  /\ UNCHANGED <<shown, reg, poll, api, resolve, online, upsets>>

(* "best-effort".                                                          *)
PersistFails(r) ==
  /\ report[r] # Resting /\ upsets < MaxUpsets
  /\ report' = [report EXCEPT ![r] = Resting]
  /\ upsets' = upsets + 1
  /\ UNCHANGED <<shown, reg, picksFile, poll, api, resolve, online>>

-----------------------------------------------------------------------------
(* Every handler's first call reads the registry, and then decides under   *)
(* fbMu.                                                                   *)
GetDisplayPicks(d) ==
  /\ poll[d] = Resting
  /\ poll' = [poll EXCEPT ![d] = [at |-> "refresh", seen |-> reg]]
  /\ UNCHANGED <<shown, reg, picksFile, report, api, resolve, online, upsets>>

NeedDial(picks) ==
  \/ \E f \in Sensors : api.sensor[f] = Unset /\ picks[f] # Unset
  \/ api.cameras = {} /\ picks.cameras # {}

RefreshFallback(d) ==
  LET seen == poll[d].seen
      idle == resolve = Resting /\ api.due
  IN
  /\ poll[d].at = "refresh"
  /\ IF seen.gen = api.fbGen THEN UNCHANGED <<api, resolve>>
     ELSE /\ api' = [api EXCEPT !.fbNav = seen.nav,
                                !.fbGen = IF NeedDial(seen.picks) THEN @ ELSE seen.gen]
          /\ resolve' = IF NeedDial(seen.picks) /\ idle
                        THEN [at |-> "dial", picks |-> seen.picks, gen |-> seen.gen]
                        ELSE resolve
  /\ poll' = [poll EXCEPT ![d] = Resting]
  /\ UNCHANGED <<shown, reg, picksFile, report, online, upsets>>

(* pickDeps: the machine is dialed once, and asked for its resources.      *)
PickDeps ==
  /\ resolve.at = "dial"
  /\ api' = [api EXCEPT !.robot = TRUE]
  /\ resolve' = [resolve EXCEPT !.at = "install"] @@ [deps |-> online]
  /\ UNCHANGED <<shown, reg, picksFile, report, poll, online, upsets>>

PickDepsFails ==
  /\ resolve.at = "dial" /\ upsets < MaxUpsets
  /\ \E dialed \in BOOLEAN : api' = [api EXCEPT !.due = FALSE, !.robot = @ \/ dialed]
  /\ resolve' = Resting
  /\ upsets' = upsets + 1
  /\ UNCHANGED <<shown, reg, picksFile, report, poll, online>>

(* A sensor counts as resolved by any handle, that of an earlier pick too. *)
UnresolvedPicks(picks, a) ==
  {picks[f] : f \in {g \in Sensors : a.sensor[g] = Unset /\ picks[g] # Unset /\ a.fb[g] = Unset}}
    \cup (IF a.cameras = {} THEN picks.cameras \ a.fbCameras ELSE {})

(* The handles found replace those held, and the first movement sensor     *)
(* starts the track recorder.                                              *)
Installed(picks) ==
  LET fb == [f \in Sensors |->
               IF api.sensor[f] = Unset /\ picks[f] \in resolve.deps THEN picks[f] ELSE api.fb[f]]
  IN [api EXCEPT !.due = FALSE, !.fb = fb,
        !.fbCameras = IF api.cameras = {} THEN picks.cameras \cap resolve.deps ELSE @,
        !.track = IF @ = Unset THEN fb.movement_sensor ELSE @]

(* Mutant: the generation is read anew when the handles are in.            *)
ResolvePicksAsNewest ==
  LET installed == Installed(resolve.picks) IN
  /\ resolve.at = "install"
  /\ api' = [installed EXCEPT
       !.fbGen = IF UnresolvedPicks(resolve.picks, installed) = {} THEN reg.gen ELSE @]
  /\ resolve' = Resting
  /\ UNCHANGED <<shown, reg, picksFile, report, poll, online, upsets>>

(* The generation advances, to the one the picks were read at, only when   *)
(* nothing of them is missing.                                             *)
ResolvePicks ==
  LET installed == Installed(resolve.picks) IN
  /\ resolve.at = "install"
  /\ api' = [installed EXCEPT
       !.fbGen = IF UnresolvedPicks(resolve.picks, installed) = {} THEN resolve.gen ELSE @]
  /\ resolve' = Resting
  /\ UNCHANGED <<shown, reg, picksFile, report, poll, online, upsets>>

(* fbDialThrottle runs out: no refresh that has read older picks takes a   *)
(* minute from its first mutex to its second.                              *)
ThrottleEnds ==
  /\ ~api.due
  /\ \A d \in Displays : poll[d] # Resting => poll[d].seen = reg
  /\ api' = [api EXCEPT !.due = TRUE]
  /\ UNCHANGED <<shown, reg, picksFile, report, poll, resolve, online, upsets>>

-----------------------------------------------------------------------------
(* A resource appears, or goes.                                            *)
ComeOrGo ==
  /\ upsets < MaxUpsets
  /\ \E name \in Machine : online' = IF name \in online THEN online \ {name} ELSE online \cup {name}
  /\ upsets' = upsets + 1
  /\ UNCHANGED <<shown, reg, picksFile, report, poll, api, resolve>>

(* Close and NewDisplayAPI in one process: the chartplotter is rebuilt     *)
(* when what it is configured with appears or goes.                        *)
Rebuild ==
  LET rebuilt == NewDisplayAPI(shown, online) IN
  /\ <<rebuilt.sensor, rebuilt.cameras, rebuilt.nav>> # <<api.sensor, api.cameras, api.nav>>
  /\ api' = rebuilt
  /\ reg' = LoadDisplayPicks(reg)
  /\ poll' = [d \in Displays |-> Resting]
  /\ resolve' = Resting
  /\ UNCHANGED <<shown, picksFile, report, online, upsets>>

RestartModule ==
  /\ upsets < MaxUpsets
  /\ report' = [r \in Reporters |-> Resting]
  /\ poll' = [d \in Displays |-> Resting]
  /\ api' = NewDisplayAPI(shown, online)
  /\ reg' = LoadDisplayPicks(NoReport)
  /\ resolve' = Resting
  /\ upsets' = upsets + 1
  /\ UNCHANGED <<shown, picksFile, online>>

DisplayNext ==
  \/ \E r \in Reporters :
       SetDisplayPicks(r) \/ OpenPicksFile(r) \/ WritePicksFile(r) \/ PersistFails(r)
  \/ \E d \in Displays : GetDisplayPicks(d) \/ RefreshFallback(d)
  \/ PickDeps \/ PickDepsFails \/ ResolvePicks \/ ThrottleEnds
  \/ ComeOrGo \/ Rebuild \/ RestartModule


(* Clients keep polling, the goroutine and its dial (30 seconds at most)   *)
(* come to an end, and so does the throttle.                               *)
DisplayFairness ==
  /\ \A d \in Displays : WF_displayVars(GetDisplayPicks(d)) /\ WF_displayVars(RefreshFallback(d))
  /\ WF_displayVars(PickDeps) /\ WF_displayVars(ResolvePicks)
  /\ WF_displayVars(ThrottleEnds)

DisplaySpec == DisplayInit /\ [][DisplayNext]_displayVars /\ DisplayFairness

-----------------------------------------------------------------------------
(* The names that picks put forward for a field, and whether the           *)
(* configuration names one, which comes first.                             *)
Named(picks, f) == IF f = "cameras" THEN picks.cameras ELSE {picks[f]}
Configured(f) == IF f = "cameras" THEN api.cameras # {} ELSE api.sensor[f] # Unset

(* A poll of the camera is refused (404).                                  *)
UnknownCamera(name) == name \notin CurrentCameras

(* A pick the display API has still to resolve, with its resource on line: *)
(* no answer that lacks the resource is about to be installed for it.      *)
Awaited(f, name) ==
  /\ name \in Named(reg.picks, f) /\ name \in online /\ ~Configured(f)
  /\ api.fbGen # reg.gen
  /\ resolve.at = "install" => name \in resolve.deps

(* What is picked is what polls get, and a position picked is recorded.    *)
InForce(f, name) ==
  /\ name \in Named(reg.picks, f)
  /\ IF f = "cameras" THEN ~UnknownCamera(name) ELSE CurrentPick(f) = name
  /\ f = "movement_sensor" => api.track # Unset

(* What the web app picks last is what is served: a sensor or camera whose *)
(* resource is on line comes in force unless the pick is changed, its      *)
(* resource goes, or the configuration names one: also when it replaces a  *)
(* pick in force, when an older set of picks was being resolved, when an   *)
(* older poll came late, and when the machine could not be reached at      *)
(* first (refreshFallback, resolvePicks).                                  *)
PickComesInForce ==
  \A f \in Sensors \cup {"cameras"} : \A name \in UNION {Named(p, f) : p \in ReportedPicks} :
    Awaited(f, name) ~>
      \/ InForce(f, name)
      \/ name \notin Named(reg.picks, f) \/ name \notin online \/ Configured(f)

(* "The generation only advances once every picked resource has resolved"  *)
(* (displayapi.go:212-213).                                                *)
ResolvedInFull ==
  (reg.gen > 0 /\ api.fbGen = reg.gen) =>
    \A f \in Sensors : api.sensor[f] = Unset /\ reg.picks[f] # Unset => api.fb[f] = reg.picks[f]
=============================================================================
