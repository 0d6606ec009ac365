---------------------------- MODULE RouteExport ----------------------------
(***************************************************************************)
(* send_waypoints_n2k (nav_n2k.go): the remaining waypoints of the goal    *)
(* are copied, announced in one message (PGN 130066) and sent in as many   *)
(* more (PGN 130067) as fast packets require.  Calls are not serialised,   *)
(* and the goal may be another one at the next call.                       *)
(*                                                                         *)
(* Messages are cut from the copy as they are sent; the code cuts them all *)
(* first, from the same copy.  Waypoints are numbered from 1.              *)
(***************************************************************************)
EXTENDS NavGoal

CONSTANTS
  FastPacketMaxBytes,   \* 223
  WpListHeaderBytes,    \* 6
  WpBytes,              \* of one waypoint: 11 and a name, which is WP and 3 digits
  MaxN2KWaypoints,      \* 252
  Exporters,            \* calls that may be under way
  Waypoints,
  GoalsExported         \* what the goal may be when a call reads it

ASSUME ExportAssumption ==
  /\ {FastPacketMaxBytes, WpListHeaderBytes, WpBytes, MaxN2KWaypoints} \subseteq Nat \ {0}
  /\ WpListHeaderBytes + WpBytes <= FastPacketMaxBytes
  /\ \A goal \in GoalsExported :
       IsOpen(goal) => goal.wps \in Seq(Waypoints) /\ goal.idx \in 0 .. Len(goal.wps)

VARIABLES
  transfer,   \* of each call: the copy, how much of it is sent, the answer
  plotter,    \* the waypoints announced, and those received
  author,     \* history: the copy announced last, and by which call
  mixed       \* history: whether another call's waypoints came after that

exportVars == <<transfer, plotter, author, mixed>>

Answered(answer) == [at |-> "answered", wps |-> <<>>, sent |-> 0, answer |-> answer]

ExportInit ==
  /\ transfer = [c \in Exporters |-> Answered("none")]
  /\ plotter = [announced |-> 0, got |-> <<>>]
  /\ author = [call |-> "none", wps |-> <<>>] /\ mixed = FALSE

-----------------------------------------------------------------------------
(* What a call copies, and refuses.                                       *)
Exported(goal) == IF IsOpen(goal) THEN Remaining(goal) ELSE <<>>

SendWaypointsN2K(c) ==
  /\ transfer[c].at = "answered"
  /\ \E goal \in GoalsExported :
       LET wps == Exported(goal) IN
       transfer' = [transfer EXCEPT ![c] =
         CASE wps = <<>> -> Answered("no waypoints")
           [] Len(wps) > MaxN2KWaypoints -> Answered("too many")
           [] OTHER -> [at |-> "announce", wps |-> wps, sent |-> 0, answer |-> "none"]]
  /\ UNCHANGED <<plotter, author, mixed>>

(* How far the message goes that begins after start: as many waypoints as  *)
(* a fast packet holds.                                                    *)
ChunkEnd(total, start) ==
  LET fit == (FastPacketMaxBytes - WpListHeaderBytes) \div WpBytes
  IN IF start + fit < total THEN start + fit ELSE total

(* What the plotter makes of a message: an announcement begins a list, and *)
(* waypoints take their places in it.                                      *)
Announced(c) ==
  /\ plotter' = [announced |-> Len(transfer[c].wps), got |-> <<>>]
  /\ author' = [call |-> c, wps |-> transfer[c].wps]
  /\ mixed' = FALSE

Listed(c) ==
  LET t == transfer[c]
      ids == (t.sent + 1) .. ChunkEnd(Len(t.wps), t.sent)
  IN
  /\ plotter' = [plotter EXCEPT !.got =
                   [i \in DOMAIN @ \cup ids |-> IF i \in ids THEN t.wps[i] ELSE @[i]]]
  /\ mixed' = (mixed \/ author.call # c)
  /\ UNCHANGED author

Delivered(c) == IF transfer[c].at = "announce" THEN Announced(c) ELSE Listed(c)

(* The messages one after another; the answer is given after the last.     *)
Sent(c) ==
  LET t == transfer[c]
      end == ChunkEnd(Len(t.wps), t.sent)
  IN transfer' = [transfer EXCEPT ![c] =
       CASE t.at = "announce" -> [t EXCEPT !.at = "list"]
         [] t.at = "list" /\ end < Len(t.wps) -> [t EXCEPT !.sent = end]
         [] OTHER -> Answered("ok")]

SendMessage(c) ==
  /\ transfer[c].at \in {"announce", "list"}
  /\ Delivered(c) /\ Sent(c)

(* Mutant: the transfer goes on after a message that failed.               *)
SenderFailsUnnoticed(c) ==
  /\ transfer[c].at \in {"announce", "list"}
  /\ Sent(c)
  /\ Delivered(c) \/ UNCHANGED <<plotter, author, mixed>>

(* The sender fails, with the message on the bus or not: the call ends,    *)
(* and the plotter keeps what it has.                                      *)
SenderFails(c) ==
  /\ transfer[c].at \in {"announce", "list"}
  /\ transfer' = [transfer EXCEPT ![c] = Answered("failed")]
  /\ Delivered(c) \/ UNCHANGED <<plotter, author, mixed>>

ExportNext ==
  \E c \in Exporters : SendWaypointsN2K(c) \/ SendMessage(c) \/ SenderFails(c)

ExportSpec == ExportInit /\ [][ExportNext]_exportVars

-----------------------------------------------------------------------------
(* As long as no call sends waypoints into the list another one announced, *)
(* a plotter with as many waypoints as it was told of has a route that     *)
(* some call copied from the goal, in its order, whatever failed before    *)
(* and however the route changed between calls; and it has all of them     *)
(* when the call is told so (n2kRouteMessages, doSendWaypointsN2K).        *)
Whole == plotter.announced > 0 /\ DOMAIN plotter.got = 1 .. plotter.announced

TransferIsWhole ==
  ~mixed =>
    /\ Whole => plotter.got = author.wps
    /\ \A c \in Exporters : (c = author.call /\ transfer[c].answer = "ok") => Whole
=============================================================================
