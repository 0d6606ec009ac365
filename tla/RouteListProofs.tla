-------------------------- MODULE RouteListProofs ---------------------------
(***************************************************************************)
(* What becomes of a list of waypoints or of routes: sent to a plotter     *)
(* (RouteExport), saved with the location (SavedRoutes) and taken over     *)
(* from an old nav file (LegacyMigration), whatever the lists.             *)
(***************************************************************************)
EXTENDS RouteExport, SavedRoutes, LegacyMigration, Recursions, FiniteSetTheorems

-----------------------------------------------------------------------------
(* TransferIsWhole for any routes, any sizes of messages and any number of *)
(* calls.  What is inductive: an unmixed list is the beginning of the copy *)
(* that was announced, as far as its call has sent it.                     *)

Begun(k) == plotter.got = [i \in 1 .. k |-> author.wps[i]]

Transfers ==
  [at : {"answered", "announce", "list"}, wps : Seq(Waypoints), sent : Nat,
   answer : {"none", "no waypoints", "too many", "failed", "ok"}]

TransfersType ==
  /\ transfer \in [Exporters -> Transfers]
  /\ \A c \in Exporters :
       /\ transfer[c].at = "announce" => transfer[c].sent = 0 /\ Len(transfer[c].wps) > 0
       /\ transfer[c].at = "list" => transfer[c].sent < Len(transfer[c].wps)
       /\ transfer[c].answer = "ok" => transfer[c].at = "answered"

PlotterType ==
  /\ plotter = [announced |-> plotter.announced, got |-> plotter.got]
  /\ author = [call |-> author.call, wps |-> author.wps]
  /\ author.wps \in Seq(Waypoints)
  /\ mixed \in BOOLEAN

ListBegun ==
  /\ plotter.announced = Len(author.wps)
  /\ \E k \in 0 .. Len(author.wps) : Begun(k)
  /\ \A c \in Exporters : c = author.call =>
       /\ transfer[c].at = "list" => transfer[c].wps = author.wps /\ Begun(transfer[c].sent)
       /\ transfer[c].answer = "ok" => Len(author.wps) > 0 /\ Begun(Len(author.wps))

ExportInv == TransfersType /\ PlotterType /\ (~mixed => ListBegun)

-----------------------------------------------------------------------------
(* A message begins where the last one ended and stays within the route.   *)
LEMMA ChunkInside ==
  ASSUME NEW total \in Nat, NEW start \in Nat, start <= total
  PROVE  ChunkEnd(total, start) \in start .. total
<1> DEFINE fit == (FastPacketMaxBytes - WpListHeaderBytes) \div WpBytes
<1>1. fit \in Nat
  BY ExportAssumption
<1> HIDE DEF fit
<1>2. ChunkEnd(total, start) = IF start + fit < total THEN start + fit ELSE total
  BY DEF ChunkEnd, fit
<1> QED
  BY <1>1, <1>2

(* What is copied is a route.                                              *)
LEMMA ExportedIsRoute ==
  ASSUME NEW goal \in GoalsExported
  PROVE  Exported(goal) \in Seq(Waypoints)
BY ExportAssumption DEF Exported, Remaining

(* An unmixed list that is as long as announced is the route announced.    *)
LEMMA WholeIsRoute == ExportInv => TransferIsWhole
<1> SUFFICES ASSUME ExportInv, ~mixed PROVE TransferIsWhole
  BY DEF TransferIsWhole
<1>1. ListBegun /\ PlotterType
  BY DEF ExportInv
<1>2. \A k \in 0 .. Len(author.wps) : Begun(k) => DOMAIN plotter.got = 1 .. k
  BY DEF Begun
<1>3. ASSUME Whole PROVE plotter.got = author.wps
  <2>1. PICK k \in 0 .. Len(author.wps) : Begun(k)
    BY <1>1 DEF ListBegun
  <2>2. 1 .. k = 1 .. Len(author.wps)
    BY <1>1, <1>2, <1>3, <2>1 DEF Whole, ListBegun
  <2>3. author.wps = [i \in 1 .. Len(author.wps) |-> author.wps[i]]
    BY <1>1 DEF PlotterType
  <2> QED
    BY <2>1, <2>2, <2>3 DEF Begun
<1>4. ASSUME NEW c \in Exporters, c = author.call, transfer[c].answer = "ok" PROVE Whole
  <2>1. /\ Len(author.wps) > 0 /\ Begun(Len(author.wps))
        /\ plotter.announced = Len(author.wps)
    BY <1>1, <1>4 DEF ListBegun
  <2>2. Len(author.wps) \in Nat
    BY <1>1 DEF PlotterType
  <2> QED
    BY <2>1, <2>2, <1>2 DEF Whole
<1> QED
  BY <1>3, <1>4 DEF TransferIsWhole

-----------------------------------------------------------------------------
(* A message moves its call on.                                            *)
LEMMA SentKeepsType ==
  ASSUME TransfersType, NEW c \in Exporters, transfer[c].at \in {"announce", "list"}, Sent(c)
  PROVE  /\ TransfersType'
         /\ transfer[c].at = "announce" => transfer'[c] = [transfer[c] EXCEPT !.at = "list"]
         /\ \A d \in Exporters \ {c} : transfer'[d] = transfer[d]
<1> DEFINE t == transfer[c]
           end == ChunkEnd(Len(t.wps), t.sent)
<1>1. t \in Transfers /\ Len(t.wps) \in Nat /\ t.sent \in Nat
  <2>1. t \in Transfers
    BY DEF TransfersType
  <2>2. t.wps \in Seq(Waypoints) /\ t.sent \in Nat
    BY <2>1 DEF Transfers
  <2> QED
    BY <2>1, <2>2, LenProperties
<1>2. end \in Nat
  <2>1. /\ t.at = "announce" => t.sent = 0
        /\ t.at = "list" => t.sent < Len(t.wps)
    BY DEF TransfersType
  <2>2. t.sent <= Len(t.wps)
    BY <1>1, <2>1
  <2>3. end \in t.sent .. Len(t.wps)
    BY <1>1, <2>2, ChunkInside
  <2> HIDE DEF end
  <2> QED
    BY <1>1, <2>3
<1>3. transfer' = [transfer EXCEPT ![c] =
         CASE t.at = "announce" -> [t EXCEPT !.at = "list"]
           [] t.at = "list" /\ end < Len(t.wps) -> [t EXCEPT !.sent = end]
           [] OTHER -> Answered("ok")]
  BY DEF Sent
<1> HIDE DEF end
<1>4. CASE t.at = "announce"
  <2>1. transfer' = [transfer EXCEPT ![c] = [t EXCEPT !.at = "list"]]
    BY <1>3, <1>4
  <2>2. t.sent = 0 /\ Len(t.wps) > 0
    BY <1>4, <1>1 DEF TransfersType, Transfers
  <2> QED
    BY <1>1, <2>1, <2>2 DEF TransfersType, Transfers
<1>5. CASE t.at = "list" /\ end < Len(t.wps)
  <2>1. transfer' = [transfer EXCEPT ![c] = [t EXCEPT !.sent = end]]
    BY <1>3, <1>5
  <2> QED
    BY <1>1, <1>2, <1>5, <2>1 DEF TransfersType, Transfers
<1>6. CASE t.at = "list" /\ ~(end < Len(t.wps))
  <2>1. transfer' = [transfer EXCEPT ![c] = Answered("ok")]
    BY <1>3, <1>6
  <2>2. Answered("ok") \in Transfers /\ Answered("ok").at = "answered"
    BY DEF Transfers, Answered
  <2> QED
    BY <1>6, <2>1, <2>2 DEF TransfersType
<1> QED
  BY <1>4, <1>5, <1>6

(* What a call finds when it sends its next waypoints.                     *)
LEMMA EndInside ==
  ASSUME TransfersType, NEW c \in Exporters, transfer[c].at = "list"
  PROVE  /\ transfer[c].wps \in Seq(Waypoints) /\ transfer[c].sent \in Nat
         /\ Len(transfer[c].wps) \in Nat /\ Len(transfer[c].wps) > 0
         /\ ChunkEnd(Len(transfer[c].wps), transfer[c].sent)
              \in transfer[c].sent .. Len(transfer[c].wps)
<1> DEFINE t == transfer[c]
<1>1. t \in Transfers /\ t.sent < Len(t.wps)
  BY DEF TransfersType
<1>2. t.wps \in Seq(Waypoints) /\ t.sent \in Nat
  BY <1>1 DEF Transfers
<1>3. Len(t.wps) \in Nat
  BY <1>2, LenProperties
<1>4. t.sent <= Len(t.wps) /\ Len(t.wps) > 0
  BY <1>1, <1>2, <1>3
<1>5. ChunkEnd(Len(t.wps), t.sent) \in t.sent .. Len(t.wps)
  BY <1>2, <1>3, <1>4, ChunkInside
<1> QED
  BY <1>2, <1>3, <1>4, <1>5

(* An announcement begins a list.                                          *)
LEMMA AnnouncedBegins ==
  ASSUME ExportInv, NEW c \in Exporters, transfer[c].at = "announce", Announced(c)
  PROVE  /\ PlotterType' /\ mixed' = FALSE
         /\ author'.call = c /\ author'.wps = transfer[c].wps
         /\ plotter'.announced = Len(author'.wps) /\ Begun(0)'
<1>1. transfer[c].wps \in Seq(Waypoints)
  BY DEF ExportInv, TransfersType, Transfers
<1>2. [i \in 1 .. 0 |-> transfer[c].wps[i]] = <<>>
  OBVIOUS
<1> QED
  BY <1>1, <1>2 DEF Announced, PlotterType, Begun

(* Waypoints of the call that announced the list continue it; those of     *)
(* another leave it mixed.                                                 *)
LEMMA ListedContinues ==
  ASSUME ExportInv, NEW c \in Exporters, transfer[c].at = "list", Listed(c)
  PROVE  /\ PlotterType' /\ author' = author /\ plotter'.announced = plotter.announced
         /\ ~mixed' => /\ ~mixed /\ author.call = c /\ author.wps = transfer[c].wps
                       /\ plotter'.got =
                            [i \in 1 .. ChunkEnd(Len(transfer[c].wps), transfer[c].sent)
                               |-> transfer[c].wps[i]]
<1> DEFINE t == transfer[c]
           end == ChunkEnd(Len(t.wps), t.sent)
           ids == (t.sent + 1) .. end
<1>1. /\ plotter' = [plotter EXCEPT !.got =
           [i \in DOMAIN @ \cup ids |-> IF i \in ids THEN t.wps[i] ELSE @[i]]]
      /\ mixed' = (mixed \/ author.call # c)
      /\ author' = author
  BY DEF Listed
<1>2. PlotterType
  BY DEF ExportInv
<1>3. t.sent \in Nat /\ end \in t.sent .. Len(t.wps) /\ Len(t.wps) \in Nat
  BY EndInside DEF ExportInv
<1> HIDE DEF end
<1>4. /\ plotter'.announced = plotter.announced
      /\ plotter'.got = [i \in (DOMAIN plotter.got) \cup ids |->
                           IF i \in ids THEN t.wps[i] ELSE plotter.got[i]]
  BY <1>1, <1>2 DEF PlotterType
<1>5. PlotterType'
  BY <1>1, <1>2 DEF PlotterType
<1>6. ASSUME ~mixed'
      PROVE  /\ ~mixed /\ author.call = c /\ author.wps = t.wps
             /\ plotter'.got = [i \in 1 .. end |-> t.wps[i]]
  <2>1. ~mixed /\ author.call = c
    BY <1>1, <1>2, <1>6 DEF PlotterType
  <2>2. t.wps = author.wps /\ Begun(t.sent)
    BY <2>1 DEF ExportInv, ListBegun
  <2>3. (DOMAIN plotter.got) \cup ids = 1 .. end
    <3>1. DOMAIN plotter.got = 1 .. t.sent
      BY <2>2 DEF Begun
    <3> QED
      BY <3>1, <1>3
  <2>4. \A i \in 1 .. end : (IF i \in ids THEN t.wps[i] ELSE plotter.got[i]) = t.wps[i]
    <3>1. \A i \in 1 .. t.sent : plotter.got[i] = t.wps[i]
      BY <2>2 DEF Begun
    <3> QED
      BY <3>1, <1>3
  <2>5. plotter'.got = [i \in 1 .. end |-> t.wps[i]]
    BY <1>4, <2>3, <2>4
  <2> QED
    BY <2>1, <2>2, <2>5
<1> QED
  BY <1>1, <1>4, <1>5, <1>6 DEF end

-----------------------------------------------------------------------------
(* What a call does to its own transfer leaves an unmixed list as begun,   *)
(* if the list is of another call or the call keeps what it knows of it.   *)
LEMMA BegunKept ==
  ASSUME ListBegun, UNCHANGED <<plotter, author>>, NEW c \in Exporters,
         \A d \in Exporters \ {c} : transfer'[d] = transfer[d],
         transfer'[c].at # "list", transfer'[c].answer # "ok"
  PROVE  ListBegun'
<1>1. plotter' = plotter /\ author' = author
  OBVIOUS
<1>2. \A k : Begun(k)' <=> Begun(k)
  BY <1>1 DEF Begun
<1>3. plotter'.announced = Len(author'.wps) /\ \E k \in 0 .. Len(author'.wps) : Begun(k)
  BY <1>1 DEF ListBegun
<1>4. ASSUME NEW d \in Exporters, d = author.call
      PROVE  /\ transfer'[d].at = "list" => transfer'[d].wps = author.wps /\ Begun(transfer'[d].sent)
             /\ transfer'[d].answer = "ok" => Len(author.wps) > 0 /\ Begun(Len(author.wps))
  <2>1. CASE d = c
    BY <2>1
  <2>2. CASE d # c
    <3>1. transfer'[d] = transfer[d]
      BY <2>2
    <3> QED
      BY <1>4, <3>1 DEF ListBegun
  <2> QED
    BY <2>1, <2>2
<1>5. \E k \in 0 .. Len(author'.wps) : Begun(k)'
  BY ONLY <1>2, <1>3
<1>6. ASSUME NEW d \in Exporters, d = author'.call
      PROVE  /\ transfer'[d].at = "list" => transfer'[d].wps = author'.wps /\ Begun(transfer[d].sent)'
             /\ transfer'[d].answer = "ok" => Len(author'.wps) > 0 /\ Begun(Len(author.wps))'
  <2>1. d = author.call
    BY ONLY <1>1, <1>6
  <2>2. \A k : plotter'.got = [i \in 1 .. k |-> author'.wps[i]] <=> Begun(k)
    BY ONLY <1>1 DEF Begun
  <2>3. Begun(transfer[d].sent)' <=> Begun(transfer'[d].sent)
    BY ONLY <2>2 DEF Begun
  <2>4. Begun(Len(author.wps))' <=> Begun(Len(author'.wps))
    BY ONLY <2>2 DEF Begun
  <2>5. Len(author'.wps) = Len(author.wps)
    BY ONLY <1>1
  <2> QED
    BY ONLY <1>1, <1>4, <2>1, <2>3, <2>4, <2>5
<1> QED
  BY ONLY <1>3, <1>5, <1>6 DEF ListBegun

(* A message that reaches the plotter, the call going on or not.           *)
LEMMA AnnouncedKeepsInv ==
  ASSUME ExportInv, NEW c \in Exporters, transfer[c].at = "announce", Announced(c),
         TransfersType', \A d \in Exporters \ {c} : transfer'[d] = transfer[d],
         \/ transfer'[c] = [transfer[c] EXCEPT !.at = "list"]
         \/ transfer'[c] = Answered("failed")
  PROVE  ExportInv'
<1>1. transfer[c] \in Transfers /\ transfer[c].sent = 0 /\ transfer[c].answer # "ok"
  BY DEF ExportInv, TransfersType
<1>2. \/ transfer'[c].at = "list" /\ transfer'[c].wps = transfer[c].wps /\ transfer'[c].sent = 0
      \/ transfer'[c].at = "answered"
  <2>1. CASE transfer'[c] = [transfer[c] EXCEPT !.at = "list"]
    BY <1>1, <2>1 DEF Transfers
  <2>2. CASE transfer'[c] = Answered("failed")
    BY <2>2 DEF Answered
  <2> QED
    BY <2>1, <2>2
<1>3. transfer'[c].answer # "ok"
  <2>1. CASE transfer'[c] = [transfer[c] EXCEPT !.at = "list"]
    BY <1>1, <2>1 DEF Transfers
  <2>2. CASE transfer'[c] = Answered("failed")
    BY <2>2 DEF Answered
  <2> QED
    BY <2>1, <2>2
<1>4. /\ PlotterType' /\ mixed' = FALSE
      /\ author'.call = c /\ author'.wps = transfer[c].wps
      /\ plotter'.announced = Len(author'.wps) /\ Begun(0)'
  BY AnnouncedBegins
<1>5. Len(author'.wps) \in Nat
  BY <1>4, LenProperties DEF PlotterType
<1>6. \E k \in 0 .. Len(author'.wps) : Begun(k)'
  BY <1>4, <1>5
<1>7. ASSUME NEW d \in Exporters, d = author'.call
      PROVE  /\ transfer'[d].at = "list" => transfer'[d].wps = author'.wps /\ Begun(transfer[d].sent)'
             /\ transfer'[d].answer # "ok"
  BY <1>2, <1>3, <1>4, <1>7 DEF Begun
<1>8. ListBegun'
  BY <1>4, <1>6, <1>7 DEF ListBegun
<1> QED
  BY <1>4, <1>8 DEF ExportInv

LEMMA ListedKeepsInv ==
  ASSUME ExportInv, NEW c \in Exporters, transfer[c].at = "list", Listed(c),
         TransfersType', \A d \in Exporters \ {c} : transfer'[d] = transfer[d],
         transfer'[c] = Answered("failed") \/ Sent(c)
  PROVE  ExportInv'
<1> DEFINE t == transfer[c]
           end == ChunkEnd(Len(t.wps), t.sent)
<1>1. /\ PlotterType' /\ author' = author /\ plotter'.announced = plotter.announced
      /\ ~mixed' => /\ ~mixed /\ author.call = c /\ author.wps = t.wps
                    /\ plotter'.got = [i \in 1 .. end |-> t.wps[i]]
  BY ListedContinues
<1>2. end \in t.sent .. Len(t.wps) /\ t.sent \in Nat /\ Len(t.wps) \in Nat /\ Len(t.wps) > 0
  BY EndInside DEF ExportInv
<1>3. t \in Transfers /\ transfer \in [Exporters -> Transfers] /\ t.answer # "ok"
  BY DEF ExportInv, TransfersType
<1>4. \/ transfer'[c].at = "answered" /\ transfer'[c].answer = "failed"
      \/ /\ end < Len(t.wps) /\ transfer'[c].at = "list" /\ transfer'[c].answer # "ok"
         /\ transfer'[c].wps = t.wps /\ transfer'[c].sent = end
      \/ end = Len(t.wps) /\ transfer'[c].at = "answered" /\ transfer'[c].answer = "ok"
  <2> HIDE DEF end
  <2>1. CASE transfer'[c] = Answered("failed")
    BY <2>1 DEF Answered
  <2>2. CASE Sent(c) /\ end < Len(t.wps)
    <3>1. transfer' = [transfer EXCEPT ![c] = [t EXCEPT !.sent = end]]
      BY <2>2 DEF Sent, end
    <3> QED
      BY <3>1, <2>2, <1>3 DEF Transfers
  <2>3. CASE Sent(c) /\ ~(end < Len(t.wps))
    <3>1. transfer' = [transfer EXCEPT ![c] = Answered("ok")]
      BY <2>3 DEF Sent, end
    <3>2. end = Len(t.wps)
      BY <2>3, <1>2
    <3> QED
      BY <3>1, <3>2, <1>3 DEF Answered
  <2> QED
    BY <2>1, <2>2, <2>3
<1>5. ASSUME ~mixed' PROVE ListBegun'
  <2> HIDE DEF end
  <2>1. /\ author.call = c /\ author'.wps = t.wps /\ author' = author
        /\ plotter'.got = [i \in 1 .. end |-> author'.wps[i]]
    BY <1>1, <1>5
  <2>2. plotter'.announced = Len(author'.wps)
    BY <1>1, <1>5, <2>1 DEF ExportInv, ListBegun
  <2>3. \E k \in 0 .. Len(author'.wps) : Begun(k)'
    BY <2>1, <1>2 DEF Begun
  <2>4. /\ transfer'[c].at = "list" =>
             transfer'[c].wps = author'.wps /\ plotter'.got = [i \in 1 .. transfer'[c].sent |-> author'.wps[i]]
        /\ transfer'[c].answer = "ok" =>
             Len(author'.wps) > 0 /\ plotter'.got = [i \in 1 .. Len(author'.wps) |-> author'.wps[i]]
    BY <1>2, <1>4, <2>1
  <2> QED
    BY <2>1, <2>2, <2>3, <2>4 DEF ListBegun, Begun
<1> QED
  BY <1>1, <1>5 DEF ExportInv

-----------------------------------------------------------------------------
(* send_waypoints_n2k keeps the invariant.                                 *)
LEMMA CallKeepsInv ==
  ASSUME ExportInv, NEW c \in Exporters, SendWaypointsN2K(c)
  PROVE  ExportInv'
<1>1. PICK goal \in GoalsExported :
        transfer' = [transfer EXCEPT ![c] =
          CASE Exported(goal) = <<>> -> Answered("no waypoints")
            [] Len(Exported(goal)) > MaxN2KWaypoints -> Answered("too many")
            [] OTHER -> [at |-> "announce", wps |-> Exported(goal), sent |-> 0, answer |-> "none"]]
  BY DEF SendWaypointsN2K
<1> DEFINE wps == Exported(goal)
<1>2. wps \in Seq(Waypoints) /\ (wps # <<>> => Len(wps) > 0)
  BY ExportedIsRoute, EmptySeq
<1> HIDE DEF wps
<1>3. \A answer \in {"no waypoints", "too many"} :
        /\ Answered(answer) \in Transfers /\ Answered(answer).at = "answered"
        /\ Answered(answer).answer # "ok"
  BY EmptySeq DEF Answered, Transfers
<1>4. PICK t \in Transfers :
        /\ transfer' = [transfer EXCEPT ![c] = t]
        /\ t.at # "list" /\ t.answer # "ok"
        /\ t.at = "announce" => t.sent = 0 /\ Len(t.wps) > 0
  <2>1. CASE wps = <<>>
    <3>1. ~(Len(wps) > MaxN2KWaypoints)
      BY <2>1, EmptySeq, ExportAssumption
    <3>2. transfer' = [transfer EXCEPT ![c] = Answered("no waypoints")]
      BY <1>1, <2>1, <3>1 DEF wps
    <3> QED
      BY <1>3, <3>2
  <2>2. CASE wps # <<>> /\ Len(wps) > MaxN2KWaypoints
    <3>1. transfer' = [transfer EXCEPT ![c] = Answered("too many")]
      BY <1>1, <2>2 DEF wps
    <3> QED
      BY <1>3, <3>1
  <2>3. CASE wps # <<>> /\ ~(Len(wps) > MaxN2KWaypoints)
    <3> DEFINE t == [at |-> "announce", wps |-> wps, sent |-> 0, answer |-> "none"]
    <3>1. transfer' = [transfer EXCEPT ![c] = t]
      BY <1>1, <2>3 DEF wps
    <3>2. t \in Transfers
      BY <1>2 DEF Transfers
    <3> QED
      BY <3>1, <3>2, <1>2, <2>3
  <2> QED
    BY <2>1, <2>2, <2>3
<1>5. /\ transfer'[c] = t
      /\ \A d \in Exporters \ {c} : transfer'[d] = transfer[d]
      /\ UNCHANGED <<plotter, author, mixed>>
  BY <1>4 DEF SendWaypointsN2K, ExportInv, TransfersType
<1>6. TransfersType'
  BY <1>4, <1>5 DEF ExportInv, TransfersType
<1>7. ~mixed => ListBegun'
  BY <1>4, <1>5, BegunKept DEF ExportInv
<1> QED
  BY <1>5, <1>6, <1>7 DEF ExportInv, PlotterType

(* A message that is sent keeps it ...                                     *)
LEMMA MessageKeepsInv ==
  ASSUME ExportInv, NEW c \in Exporters, SendMessage(c)
  PROVE  ExportInv'
<1>1. /\ TransfersType'
      /\ transfer[c].at = "announce" => transfer'[c] = [transfer[c] EXCEPT !.at = "list"]
      /\ \A d \in Exporters \ {c} : transfer'[d] = transfer[d]
  BY SentKeepsType DEF SendMessage, ExportInv
<1>2. CASE transfer[c].at = "announce"
  BY <1>1, <1>2, AnnouncedKeepsInv DEF SendMessage, Delivered
<1>3. CASE transfer[c].at = "list"
  BY <1>1, <1>3, ListedKeepsInv DEF SendMessage, Delivered
<1> QED
  BY <1>2, <1>3 DEF SendMessage

(* ... and so does one that fails, having reached the plotter or not.      *)
LEMMA FailureKeepsInv ==
  ASSUME ExportInv, NEW c \in Exporters, SenderFails(c)
  PROVE  ExportInv'
<1>1. /\ transfer'[c] = Answered("failed")
      /\ \A d \in Exporters \ {c} : transfer'[d] = transfer[d]
  BY DEF SenderFails, ExportInv, TransfersType
<1>2. Answered("failed") \in Transfers /\ Answered("failed").at = "answered"
      /\ Answered("failed").answer = "failed"
  BY DEF Answered, Transfers
<1>3. TransfersType'
  BY <1>2 DEF SenderFails, ExportInv, TransfersType
<1>4. CASE transfer[c].at = "announce" /\ Delivered(c)
  BY <1>1, <1>3, <1>4, AnnouncedKeepsInv DEF Delivered
<1>5. CASE transfer[c].at = "list" /\ Delivered(c)
  BY <1>1, <1>3, <1>5, ListedKeepsInv DEF Delivered
<1>6. CASE UNCHANGED <<plotter, author, mixed>>
  <2>1. ~mixed => ListBegun'
    BY <1>1, <1>2, <1>6, BegunKept DEF ExportInv
  <2> QED
    BY <1>3, <1>6, <2>1 DEF ExportInv, PlotterType
<1> QED
  BY <1>4, <1>5, <1>6 DEF SenderFails

-----------------------------------------------------------------------------
(* While no call sends waypoints into a list that another one announced, a *)
(* plotter that counts as many waypoints as it was told of holds the route *)
(* of one call, and it counts them all when the call has been told so      *)
(* (doSendWaypointsN2K).                                                   *)
THEOREM TransfersAreWhole == ExportSpec => []TransferIsWhole
<1>1. ExportInit => ExportInv
  <2> SUFFICES ASSUME ExportInit PROVE ExportInv
    OBVIOUS
  <2>1. Answered("none") \in Transfers /\ Answered("none").at = "answered"
        /\ Answered("none").answer = "none"
    BY EmptySeq DEF Answered, Transfers
  <2>2. TransfersType
    BY <2>1 DEF ExportInit, TransfersType
  <2>3. author.wps = <<>> /\ Len(author.wps) = 0 /\ author.wps \in Seq(Waypoints)
    BY EmptySeq DEF ExportInit
  <2>4. Begun(0)
    BY DEF ExportInit, Begun
  <2>5. ListBegun
    BY <2>1, <2>3, <2>4 DEF ExportInit, ListBegun
  <2> QED
    BY <2>2, <2>3, <2>5 DEF ExportInit, ExportInv, PlotterType
<1>2. ExportInv /\ [ExportNext]_exportVars => ExportInv'
  <2> SUFFICES ASSUME ExportInv, [ExportNext]_exportVars PROVE ExportInv'
    OBVIOUS
  <2>1. ASSUME NEW c \in Exporters, SendWaypointsN2K(c) PROVE ExportInv'
    BY <2>1, CallKeepsInv
  <2>2. ASSUME NEW c \in Exporters, SendMessage(c) PROVE ExportInv'
    BY <2>2, MessageKeepsInv
  <2>3. ASSUME NEW c \in Exporters, SenderFails(c) PROVE ExportInv'
    BY <2>3, FailureKeepsInv
  <2>4. CASE UNCHANGED exportVars
    BY <2>4 DEF exportVars, ExportInv, TransfersType, PlotterType, ListBegun, Begun
  <2> QED
    BY <2>1, <2>2, <2>3, <2>4 DEF ExportNext
<1> QED
  BY <1>1, <1>2, WholeIsRoute, PTL DEF ExportSpec

-----------------------------------------------------------------------------
(* Saved routes: what was acknowledged stays, for any routes, sizes and    *)
(* number of calls, where a location's routes have one machine that writes *)
(* them.  The argument: a call writes back what it read, changed in one    *)
(* place, and between the two nobody else changes the list; each id is in  *)
(* the list once, so that replacing by id or dropping an id touches one    *)
(* route.                                                                  *)
OneMachineEach == \A m, n \in Machines : LocationOf[m] = LocationOf[n] => m = n

RouteRecs == [id : RouteIds, name : RouteNames, size : RouteSizes]
Blobs == [routes : {Inherited} \cup Seq(RouteRecs), other : Nat]
RouteKeys == RouteIds \cup RouteNames

RouteCalls ==
  [at : {"none"}, reply : {"none", "exists", "read-only", "not found", "too big", "ok", "failed"}]
    \cup [at : {"look", "get"}, op : {"add"}, key : RouteNames, route : RouteRecs]
    \cup [at : {"look"}, op : {"update"}, key : RouteKeys, name : RouteNames, size : RouteSizes]
    \cup [at : {"look"}, op : {"delete"}, key : RouteKeys]
    \cup [at : {"get"}, op : {"update", "delete"}, route : RouteRecs]
    \cup [at : {"commit"}, op : {"add", "update", "delete"}, route : RouteRecs, meta : Blobs]

HasRoute(routes, id) == \E k \in 1 .. Len(routes) : routes[k].id = id

EachOnce(routes) == \A j, k \in 1 .. Len(routes) : routes[j].id = routes[k].id => j = k

WellListed(routes) == routes \in Seq(RouteRecs) /\ EachOnce(routes)

SavedType == metadata \in [Locations -> Blobs] /\ routeCall \in [Machines -> RouteCalls]

OwnListed == \A m \in Machines : WellListed(RoutesIn(LocationOf[m]))

ReadStands ==
  \A m \in Machines : routeCall[m].at = "commit" => routeCall[m].meta.routes = RoutesIn(LocationOf[m])

AckedListed ==
  \A a \in acked : \E m \in Machines, id \in RouteIds :
    a = <<LocationOf[m], id>> /\ HasRoute(RoutesIn(LocationOf[m]), id)

SavedInv == SavedType /\ OwnListed /\ ReadStands /\ AckedListed

(* Dropping leaves the items at the other positions, in their order.       *)
LEMMA DroppingLeaves ==
  ASSUME NEW R, NEW s \in Seq(R), NEW gone
  PROVE  LET d == Dropping(gone, s) IN
         /\ d \in Seq(R)
         /\ \A i \in 1 .. Len(d) : \E p \in 1 .. Len(s) : p \notin gone /\ d[i] = s[p]
         /\ \A i, j \in 1 .. Len(d) : i < j => \E p, q \in 1 .. Len(s) : p < q /\ d[i] = s[p] /\ d[j] = s[q]
         /\ \A p \in 1 .. Len(s) : p \notin gone => \E i \in 1 .. Len(d) : d[i] = s[p]
<1> DEFINE V == Seq(R)
           n == Len(s)
           none == <<>>
           Kept(f) == f = [k \in 0 .. n |-> IF k = 0 THEN <<>>
                                            ELSE IF k \in gone THEN f[k - 1] ELSE Append(f[k - 1], s[k])]
           step == [p \in (1 .. n) \X V |-> IF p[1] \in gone THEN p[2] ELSE Append(p[2], s[p[1]])]
<1>1. n \in Nat /\ \A k \in 1 .. n : s[k] \in R
  BY LenProperties, ElementOfSeq
<1>2. \E f : Kept(f)
  <2>1. none \in V
    BY EmptySeq
  <2>2. step \in [(1 .. n) \X V -> V]
    <3>1. \A k \in 1 .. n, v \in V : Append(v, s[k]) \in V
      BY <1>1, AppendProperties
    <3> QED
      BY <3>1
  <2>3. \A k \in 1 .. n, v \in V : step[<<k, v>>] = IF k \in gone THEN v ELSE Append(v, s[k])
    OBVIOUS
  <2> HIDE DEF V, step, none, n
  <2>4. PICK f : Recurs(f, V, 0, 1, n, none, step)
    <3>1. 0 \in Nat /\ 1 \in Nat /\ 1 = 0 + 1 /\ 0 <= n
      BY <1>1
    <3> QED
      BY ONLY <1>1, <2>1, <2>2, <3>1, Recursion
  <2>5. \A k \in 1 .. n : k - 1 \in 0 .. n /\ f[k - 1] \in V
    BY <1>1, <2>4 DEF Recurs
  <2>6. \A k \in 0 .. n : f[k] = IF k = 0 THEN <<>> ELSE IF k \in gone THEN f[k - 1] ELSE Append(f[k - 1], s[k])
    <3>1. \A k \in 0 .. n : k = 0 \/ k \in 1 .. n
      BY <1>1
    <3> QED
      BY <2>3, <2>4, <2>5, <3>1 DEF none, Recurs
  <2>7. Kept(f)
    BY <2>4, <2>6 DEF Recurs
  <2> QED
    BY <2>7
<1> DEFINE g == CHOOSE f : Kept(f)
<1>3. Kept(g)
  BY <1>2
<1>4. Dropping(gone, s) = g[n]
  BY DEF Dropping
<1> HIDE DEF g, n
<1> DEFINE Leaves(d, k) ==
      /\ d \in Seq(R)
      /\ \A i \in 1 .. Len(d) : \E p \in 1 .. k : p \notin gone /\ d[i] = s[p]
      /\ \A i, j \in 1 .. Len(d) : i < j => \E p, q \in 1 .. k : p < q /\ d[i] = s[p] /\ d[j] = s[q]
      /\ \A p \in 1 .. k : p \notin gone => \E i \in 1 .. Len(d) : d[i] = s[p]
    Good(k) == Leaves(g[k], k)
<1>5. Good(0)
  <2>1. g[0] = <<>>
    BY <1>1, <1>3
  <2> QED
    BY <2>1, EmptySeq
<1>6. ASSUME NEW k \in 0 .. n - 1, Good(k) PROVE Good(k + 1)
  <2>1. g[k + 1] = IF k + 1 \in gone THEN g[k] ELSE Append(g[k], s[k + 1])
    <3>1. k + 1 \in 0 .. n /\ k + 1 # 0 /\ (k + 1) - 1 = k
      BY <1>1
    <3> QED
      BY <1>3, <3>1
  <2>2. k \in Nat /\ k + 1 \in 1 .. n /\ \A p \in 1 .. k : p \in 1 .. k + 1 /\ p < k + 1
    BY <1>1
  <2>3. CASE k + 1 \in gone
    <3>1. g[k + 1] = g[k]
      BY <2>1, <2>3
    <3>2. \A p \in 1 .. k + 1 : p \notin gone => p \in 1 .. k
      BY <2>3
    <3> QED
      BY <1>6, <2>2, <3>1, <3>2
  <2>4. CASE k + 1 \notin gone
    <3>1. PICK len \in Nat : len = Len(g[k])
      BY <1>6, LenProperties
    <3>2. s[k + 1] \in R
      BY <1>1, <2>2
    <3>3. /\ g[k + 1] \in Seq(R) /\ Len(g[k + 1]) = len + 1 /\ g[k + 1][len + 1] = s[k + 1]
          /\ \A i \in 1 .. len : g[k + 1][i] = g[k][i]
      BY <1>6, <2>1, <2>4, <3>1, <3>2, AppendProperties
    <3>4. \A i \in 1 .. len + 1 : i = len + 1 \/ i \in 1 .. len
      BY <3>1
    <3>a. \A i \in 1 .. len : \E p \in 1 .. k : p \notin gone /\ g[k][i] = s[p]
      BY <1>6, <3>1
    <3>5. \A i \in 1 .. len : \E p \in 1 .. k : p \notin gone /\ g[k + 1][i] = s[p]
      BY ONLY <3>3, <3>a
    <3>6. k + 1 \in 1 .. k + 1
      BY <2>2
    <3>7. \A i \in 1 .. len + 1 : \E p \in 1 .. k + 1 : p \notin gone /\ g[k + 1][i] = s[p]
      BY <2>2, <2>4, <3>3, <3>4, <3>5, <3>6
    <3>8. ASSUME NEW i \in 1 .. len + 1, NEW j \in 1 .. len + 1, i < j
          PROVE  \E p, q \in 1 .. k + 1 : p < q /\ g[k + 1][i] = s[p] /\ g[k + 1][j] = s[q]
      <4>1. i \in 1 .. len
        BY <3>1, <3>8
      <4>2. CASE j = len + 1
        <5>1. PICK p \in 1 .. k : g[k + 1][i] = s[p]
          BY <3>5, <4>1
        <5> QED
          BY <2>2, <3>3, <3>6, <4>2, <5>1
      <4>3. CASE j \in 1 .. len
        <5>1. PICK p \in 1 .. k, q \in 1 .. k : p < q /\ g[k][i] = s[p] /\ g[k][j] = s[q]
          BY <1>6, <3>1, <3>8, <4>1, <4>3
        <5> QED
          BY <2>2, <3>3, <4>1, <4>3, <5>1
      <4> QED
        BY <3>4, <4>2, <4>3
    <3>9. ASSUME NEW p \in 1 .. k + 1, p \notin gone
          PROVE  \E i \in 1 .. len + 1 : g[k + 1][i] = s[p]
      <4>1. CASE p = k + 1
        <5>1. len + 1 \in 1 .. len + 1
          BY <3>1
        <5> QED
          BY <3>3, <4>1, <5>1
      <4>2. CASE p \in 1 .. k
        <5>1. PICK i \in 1 .. len : g[k][i] = s[p]
          BY <1>6, <3>1, <3>9, <4>2
        <5>2. i \in 1 .. len + 1
          OBVIOUS
        <5> QED
          BY <3>3, <5>1, <5>2
      <4> QED
        BY <2>2, <4>1, <4>2
    <3> QED
      BY <3>3, <3>7, <3>8, <3>9
  <2> QED
    BY <2>3, <2>4
<1> DEFINE T == {k \in 0 .. n : Good(k)}
<1>7. 0 \in T /\ \A k \in 0 .. n - 1 : k \in T => k + 1 \in T
  <2> HIDE DEF Good
  <2>1. 0 \in 0 .. n /\ \A k \in 0 .. n - 1 : k + 1 \in 0 .. n
    BY <1>1
  <2> QED
    BY <1>5, <1>6, <2>1
<1>8. Good(n)
  <2> HIDE DEF Good
  <2>1. 0 \in Nat /\ n \in 0 .. n
    BY <1>1
  <2>2. n \in T
    <3> HIDE DEF T
    <3> QED
      BY <1>1, <1>7, <2>1, RangeInduction
  <2> QED
    BY <2>2
<1>9. Leaves(Dropping(gone, s), n)
  <2> HIDE DEF Leaves
  <2> QED
    BY ONLY <1>4, <1>8
<1> HIDE DEF Good
<1> QED
  BY ONLY <1>9 DEF n

(* A deletion takes that route away and no other.                          *)
LEMMA DeletionKeepsOthers ==
  ASSUME NEW routes, WellListed(routes), NEW r \in RouteRecs
  PROVE  /\ WellListed(WithoutRoute(routes, r))
         /\ \A id \in RouteIds : HasRoute(routes, id) /\ id # r.id => HasRoute(WithoutRoute(routes, r), id)
<1> DEFINE gone == {k \in DOMAIN routes : routes[k].id = r.id}
           d == Dropping(gone, routes)
<1>1. routes \in Seq(RouteRecs) /\ EachOnce(routes) /\ WithoutRoute(routes, r) = d
  BY DEF WellListed, WithoutRoute
<1>2. \A k \in 1 .. Len(routes) : k \in gone <=> routes[k].id = r.id
  BY <1>1, LenProperties
<1> HIDE DEF gone
<1>3. /\ d \in Seq(RouteRecs)
      /\ \A i, j \in 1 .. Len(d) : i < j => \E p, q \in 1 .. Len(routes) : p < q /\ d[i] = routes[p] /\ d[j] = routes[q]
      /\ \A p \in 1 .. Len(routes) : p \notin gone => \E i \in 1 .. Len(d) : d[i] = routes[p]
  BY <1>1, DroppingLeaves
<1> HIDE DEF d
<1>4. \A i, j \in 1 .. Len(d) : i < j => d[i].id # d[j].id
  <2> SUFFICES ASSUME NEW i \in 1 .. Len(d), NEW j \in 1 .. Len(d), i < j PROVE d[i].id # d[j].id
    OBVIOUS
  <2>1. PICK p \in 1 .. Len(routes), q \in 1 .. Len(routes) : p < q /\ d[i] = routes[p] /\ d[j] = routes[q]
    BY <1>3
  <2>2. p # q
    BY <2>1
  <2> QED
    BY <1>1, <2>1, <2>2 DEF EachOnce
<1>5. \A i, j \in 1 .. Len(d) : i = j \/ i < j \/ j < i
  OBVIOUS
<1>6. EachOnce(d)
  BY <1>4, <1>5 DEF EachOnce
<1>7. \A id \in RouteIds : HasRoute(routes, id) /\ id # r.id => HasRoute(d, id)
  BY <1>2, <1>3 DEF HasRoute
<1> QED
  BY <1>1, <1>3, <1>6, <1>7 DEF WellListed

(* An upsert adds a route or puts it in the place of the one with its id.  *)
LEMMA UpsertKeepsAll ==
  ASSUME NEW routes, WellListed(routes), NEW r \in RouteRecs
  PROVE  /\ WellListed(LocationUpsert(routes, r)) /\ HasRoute(LocationUpsert(routes, r), r.id)
         /\ \A id \in RouteIds : HasRoute(routes, id) => HasRoute(LocationUpsert(routes, r), id)
<1> DEFINE same == {k \in DOMAIN routes : routes[k].id = r.id}
           up == LocationUpsert(routes, r)
<1>1. routes \in Seq(RouteRecs) /\ EachOnce(routes)
  BY DEF WellListed
<1>2. PICK n \in Nat : n = Len(routes) /\ DOMAIN routes = 1 .. n
  BY <1>1, LenProperties
<1>3. \A k \in 1 .. n : routes[k] \in RouteRecs
  BY <1>1, <1>2, ElementOfSeq
<1>4. CASE same = {}
  <2>1. up = Append(routes, r)
    BY <1>4 DEF LocationUpsert
  <2>2. /\ up \in Seq(RouteRecs) /\ Len(up) = n + 1 /\ up[n + 1] = r
        /\ \A k \in 1 .. n : up[k] = routes[k]
    BY <1>1, <1>2, <2>1, AppendProperties
  <2>3. \A k \in 1 .. n : routes[k].id # r.id
    BY <1>2, <1>4
  <2> HIDE DEF up
  <2>4. n + 1 \in 1 .. n + 1 /\ \A k \in 1 .. n + 1 : k = n + 1 \/ k \in 1 .. n
    BY <1>2
  <2>5. EachOnce(up)
    BY <1>1, <1>2, <2>2, <2>3, <2>4 DEF EachOnce
  <2>6. HasRoute(up, r.id)
    BY <2>2, <2>4 DEF HasRoute
  <2>7. \A id \in RouteIds : HasRoute(routes, id) => HasRoute(up, id)
    <3>1. \A k \in 1 .. n : k \in 1 .. n + 1
      BY <1>2
    <3> QED
      BY <1>2, <2>2, <3>1 DEF HasRoute
  <2> QED
    BY <2>2, <2>5, <2>6, <2>7 DEF WellListed, up
<1>5. CASE same # {}
  <2> DEFINE k0 == CHOOSE k \in same : \A j \in same : k <= j
  <2>1. PICK k1 \in same : TRUE
    BY <1>5
  <2>2. k1 \in 1 .. n /\ routes[k1].id = r.id /\ \A k \in same : k = k1
    BY <1>1, <1>2, <2>1 DEF EachOnce
  <2>3. k0 = k1
    <3>1. \A j \in same : k1 <= j
      BY <2>2
    <3>2. \E k \in same : \A j \in same : k <= j
      BY <2>1, <3>1
    <3>3. k0 \in same
      BY <3>2
    <3> QED
      BY <2>2, <3>3
  <2>4. up = [routes EXCEPT ![k0] = r]
    BY <1>5 DEF LocationUpsert
  <2> HIDE DEF k0, up, same
  <2>5. up = [routes EXCEPT ![k1] = r]
    BY <2>3, <2>4
  <2>6. /\ up \in Seq(RouteRecs) /\ Len(up) = n /\ up[k1] = r
        /\ \A k \in 1 .. n : k # k1 => up[k] = routes[k]
    BY <1>1, <1>2, <2>2, <2>5, ExceptSeq
  <2>7. \A k \in 1 .. n : up[k].id = routes[k].id
    BY <2>2, <2>6
  <2>8. EachOnce(up)
    BY <1>1, <1>2, <2>6, <2>7 DEF EachOnce
  <2>9. HasRoute(up, r.id)
    BY <2>2, <2>6 DEF HasRoute
  <2>10. \A id \in RouteIds : HasRoute(routes, id) => HasRoute(up, id)
    BY <1>2, <2>6, <2>7 DEF HasRoute
  <2> QED
    BY <2>6, <2>8, <2>9, <2>10 DEF WellListed, up
<1> QED
  BY <1>4, <1>5

(* At the start the locations of the machines hold no routes.              *)
LEMMA SavedInitInv == SavedInit => SavedInv
<1> SUFFICES ASSUME SavedInit PROVE SavedInv
  OBVIOUS
<1> USE DEF SavedInit
<1> DEFINE none == <<>>
<1>1. none \in Seq(RouteRecs) /\ Len(none) = 0 /\ EachOnce(none)
  <2>1. none \in Seq(RouteRecs) /\ Len(none) = 0
    BY EmptySeq
  <2> QED
    BY <2>1 DEF EachOnce
<1>2. metadata \in [Locations -> Blobs]
  BY <1>1 DEF Blobs
<1>3. routeCall \in [Machines -> RouteCalls]
  BY DEF RouteCalls, NoRouteCall
<1>4. OwnListed
  <2> SUFFICES ASSUME NEW m \in Machines PROVE WellListed(RoutesIn(LocationOf[m]))
    BY DEF OwnListed
  <2>1. LocationOf[m] \in Locations
    BY SavedRoutesAssumption
  <2>2. RoutesIn(LocationOf[m]) = none
    BY <2>1 DEF RoutesIn
  <2> QED
    BY <1>1, <2>2 DEF WellListed
<1>5. ReadStands
  BY DEF ReadStands, NoRouteCall
<1>6. AckedListed
  BY DEF AckedListed
<1> QED
  BY <1>2, <1>3, <1>4, <1>5, <1>6 DEF SavedInv, SavedType

(* A call that moves on, having read what is there if it is to write.      *)
LEMMA CallMoves ==
  ASSUME SavedInv, NEW m \in Machines, NEW c \in RouteCalls,
         c.at = "commit" => c.meta.routes = RoutesIn(LocationOf[m]),
         routeCall' = [routeCall EXCEPT ![m] = c], UNCHANGED <<metadata, acked>>
  PROVE  SavedInv'
<1> USE DEF SavedInv, SavedType
<1>1. routeCall' \in [Machines -> RouteCalls]
  OBVIOUS
<1>2. \A l : RoutesIn(l)' = RoutesIn(l)
  BY DEF RoutesIn
<1>3. ReadStands'
  BY <1>2 DEF ReadStands
<1>4. OwnListed' /\ AckedListed'
  BY <1>2 DEF OwnListed, AckedListed
<1> QED
  BY <1>1, <1>3, <1>4

(* A reply ends the call.                                                  *)
Replies == {"none", "exists", "read-only", "not found", "too big", "ok", "failed"}

LEMMA ReplyIs ==
  ASSUME NEW reply \in Replies
  PROVE  /\ [NoRouteCall EXCEPT !.reply = reply] \in RouteCalls
         /\ [NoRouteCall EXCEPT !.reply = reply].at = "none"
BY DEF NoRouteCall, RouteCalls, Replies

LEMMA ReplyKeeps ==
  ASSUME SavedInv, NEW m \in Machines, NEW reply \in Replies, Reply(m, reply),
         UNCHANGED <<metadata, acked>>
  PROVE  SavedInv'
<1> DEFINE c == [NoRouteCall EXCEPT !.reply = reply]
<1>1. c \in RouteCalls /\ c.at = "none"
  BY ReplyIs
<1>2. routeCall' = [routeCall EXCEPT ![m] = c]
  BY DEF Reply
<1> HIDE DEF c
<1> QED
  BY <1>1, <1>2, CallMoves

(* The calls as they are taken.                                            *)
LEMMA TakeKeeps ==
  ASSUME SavedInv, NEW m \in Machines, AddRoute(m) \/ UpdateRoute(m) \/ DeleteRoute(m)
  PROVE  SavedInv'
<1>1. ASSUME NEW c \in RouteCalls, c.at = "look", Take(m, c) PROVE SavedInv'
  BY <1>1, CallMoves DEF Take
<1>2. CASE AddRoute(m)
  <2>1. PICK id \in RouteIds, name \in RouteNames, size \in RouteSizes :
          Take(m, [at |-> "look", op |-> "add", key |-> name,
                   route |-> [id |-> id, name |-> name, size |-> size]])
    BY <1>2 DEF AddRoute
  <2>2. [at |-> "look", op |-> "add", key |-> name,
         route |-> [id |-> id, name |-> name, size |-> size]] \in RouteCalls
    BY DEF RouteCalls, RouteRecs
  <2> QED
    BY <1>1, <2>1, <2>2
<1>3. CASE UpdateRoute(m)
  <2>1. PICK key \in RouteKeys, name \in RouteNames, size \in RouteSizes :
          Take(m, [at |-> "look", op |-> "update", key |-> key, name |-> name, size |-> size])
    BY <1>3 DEF UpdateRoute, RouteKeys
  <2>2. [at |-> "look", op |-> "update", key |-> key, name |-> name, size |-> size] \in RouteCalls
    BY DEF RouteCalls
  <2> QED
    BY <1>1, <2>1, <2>2
<1>4. CASE DeleteRoute(m)
  <2>1. PICK key \in RouteKeys : Take(m, [at |-> "look", op |-> "delete", key |-> key])
    BY <1>4 DEF DeleteRoute, RouteKeys
  <2>2. [at |-> "look", op |-> "delete", key |-> key] \in RouteCalls
    BY DEF RouteCalls
  <2> QED
    BY <1>1, <2>1, <2>2
<1> QED
  BY <1>2, <1>3, <1>4

(* What is matched is one of the routes.                                   *)
LEMMA MatchIsListed ==
  ASSUME NEW routes \in Seq(RouteRecs), NEW key, NEW r \in MatchRoute(routes, key)
  PROVE  r \in RouteRecs
<1>1. \E k \in DOMAIN routes : r = routes[k]
  BY DEF MatchRoute
<1>2. DOMAIN routes = 1 .. Len(routes) /\ \A k \in 1 .. Len(routes) : routes[k] \in RouteRecs
  BY LenProperties, ElementOfSeq
<1> QED
  BY <1>1, <1>2

LEMMA LookKeeps ==
  ASSUME SavedInv, NEW m \in Machines, Look(m)
  PROVE  SavedInv'
<1> DEFINE call == routeCall[m]
           own == RoutesIn(LocationOf[m])
<1>1. call \in RouteCalls /\ call.at = "look" /\ own \in Seq(RouteRecs) /\ UNCHANGED <<metadata, acked>>
  BY DEF SavedInv, SavedType, OwnListed, WellListed, Look
<1>2. ASSUME NEW reply \in {"exists", "read-only", "not found"}, Reply(m, reply) PROVE SavedInv'
  <2>1. reply \in Replies
    BY DEF Replies
  <2> QED
    BY <1>1, <1>2, <2>1, ReplyKeeps
<1>3. ASSUME NEW c \in RouteCalls, c.at = "get", routeCall' = [routeCall EXCEPT ![m] = c] PROVE SavedInv'
  BY <1>1, <1>3, CallMoves
<1>4. CASE call.op = "add"
  <2>1. \/ Reply(m, "exists")
        \/ routeCall' = [routeCall EXCEPT ![m].at = "get"]
    BY <1>4 DEF Look
  <2> DEFINE c == [call EXCEPT !.at = "get"]
  <2>2. call \in [at : {"look", "get"}, op : {"add"}, key : RouteNames, route : RouteRecs]
    BY <1>1, <1>4 DEF RouteCalls
  <2>3. c \in RouteCalls /\ c.at = "get"
    BY <2>2 DEF RouteCalls
  <2>4. routeCall' = [routeCall EXCEPT ![m].at = "get"] => routeCall' = [routeCall EXCEPT ![m] = c]
    OBVIOUS
  <2> QED
    BY <1>2, <1>3, <2>1, <2>3, <2>4
<1>5. CASE call.op # "add"
  <2> DEFINE Next(r) == [at |-> "get", op |-> call.op,
                         route |-> IF call.op = "delete" THEN r
                                   ELSE [r EXCEPT !.name = call.name, !.size = call.size]]
  <2>1. \/ Reply(m, "read-only") \/ Reply(m, "not found")
        \/ \E r \in MatchRoute(own, call.key) : routeCall' = [routeCall EXCEPT ![m] = Next(r)]
    BY <1>5 DEF Look
  <2>2. ASSUME NEW r \in MatchRoute(own, call.key) PROVE Next(r) \in RouteCalls /\ Next(r).at = "get"
    <3>1. r \in RouteRecs
      BY <1>1, MatchIsListed
    <3>2. CASE call.op = "delete"
      BY <3>1, <3>2 DEF RouteCalls
    <3>3. CASE call.op # "delete"
      <4>1. call \in [at : {"look"}, op : {"update"}, key : RouteKeys, name : RouteNames, size : RouteSizes]
        BY <1>1, <1>5, <3>3 DEF RouteCalls
      <4>2. [r EXCEPT !.name = call.name, !.size = call.size] \in RouteRecs
        BY <3>1, <4>1 DEF RouteRecs
      <4> QED
        BY <3>3, <4>1, <4>2 DEF RouteCalls
    <3> QED
      BY <3>2, <3>3
  <2> HIDE DEF Next
  <2> QED
    BY <1>2, <1>3, <2>1, <2>2
<1> QED
  BY <1>4, <1>5

LEMMA GetKeeps ==
  ASSUME SavedInv, NEW m \in Machines, GetMetadata(m)
  PROVE  SavedInv'
<1> DEFINE call == routeCall[m]
           c == [at |-> "commit", op |-> call.op, route |-> call.route, meta |-> metadata[LocationOf[m]]]
<1>1. call \in RouteCalls /\ call.at = "get" /\ UNCHANGED <<metadata, acked>>
  BY DEF SavedInv, SavedType, GetMetadata
<1>2. routeCall' = [routeCall EXCEPT ![m] = c]
  BY DEF GetMetadata, SavedInv, SavedType
<1>3. call.op \in {"add", "update", "delete"} /\ call.route \in RouteRecs
  BY <1>1 DEF RouteCalls
<1>4. metadata[LocationOf[m]] \in Blobs
  BY SavedRoutesAssumption DEF SavedInv, SavedType
<1>5. c \in RouteCalls /\ c.meta.routes = RoutesIn(LocationOf[m])
  BY <1>3, <1>4 DEF RouteCalls, RoutesIn
<1> HIDE DEF c
<1> QED
  BY <1>1, <1>2, <1>5, CallMoves

LEMMA CommitKeeps ==
  ASSUME SavedInv, OneMachineEach, NEW m \in Machines, Commit(m)
  PROVE  SavedInv'
<1> DEFINE call == routeCall[m]
           l == LocationOf[m]
           routes == IF call.op = "delete" THEN WithoutRoute(call.meta.routes, call.route)
                     ELSE LocationUpsert(call.meta.routes, call.route)
           id == <<l, call.route.id>>
           Write == metadata' = [metadata EXCEPT ![l] = [call.meta EXCEPT !.routes = routes]]
<1>1. call \in RouteCalls /\ call.at = "commit" /\ l \in Locations /\ metadata \in [Locations -> Blobs]
  BY SavedRoutesAssumption DEF SavedInv, SavedType, Commit
<1>2. call.op \in {"add", "update", "delete"} /\ call.route \in RouteRecs /\ call.meta \in Blobs
  BY <1>1 DEF RouteCalls
<1>3. WellListed(RoutesIn(l)) /\ call.meta.routes = RoutesIn(l)
  BY <1>1 DEF SavedInv, OwnListed, ReadStands
<1>4. /\ WellListed(routes)
      /\ \A i \in RouteIds : HasRoute(RoutesIn(l), i) /\ (call.op = "delete" => i # call.route.id) => HasRoute(routes, i)
      /\ call.op # "delete" => HasRoute(routes, call.route.id)
  <2>1. CASE call.op = "delete"
    BY <1>2, <1>3, <2>1, DeletionKeepsOthers
  <2>2. CASE call.op # "delete"
    BY <1>2, <1>3, <2>2, UpsertKeepsAll
  <2> QED
    BY <2>1, <2>2
<1>5. PICK reply \in Replies :
        /\ Reply(m, reply)
        /\ (Write /\ reply # "too big") \/ UNCHANGED metadata
        /\ \/ acked' = acked \ {id} /\ call.op = "delete"
           \/ acked' = acked /\ (call.op = "delete" => UNCHANGED metadata)
           \/ acked' = acked \cup {id} /\ call.op # "delete" /\ Write
  <2> HIDE DEF Write, id, routes
  <2>1. \/ Reply(m, "too big") /\ UNCHANGED <<metadata, acked>>
        \/ /\ Write /\ Reply(m, "ok")
           /\ acked' = IF call.op = "delete" THEN acked \ {id} ELSE acked \cup {id}
        \/ /\ Write \/ UNCHANGED metadata
           /\ Reply(m, "failed")
           /\ acked' = IF call.op = "delete" THEN acked \ {id} ELSE acked
    BY DEF Commit, Write, id, routes
  <2>2. {"too big", "ok", "failed"} \subseteq Replies
    BY DEF Replies
  <2> QED
    BY <2>1, <2>2
<1>6. SavedType'
  <2>1. routeCall' \in [Machines -> RouteCalls]
    BY <1>5, ReplyIs DEF Reply, SavedInv, SavedType
  <2>2. [call.meta EXCEPT !.routes = routes] \in Blobs
    BY <1>2, <1>4 DEF Blobs, WellListed
  <2>3. metadata' \in [Locations -> Blobs]
    BY <1>1, <1>5, <2>2
  <2> QED
    BY <2>1, <2>3 DEF SavedType
<1> HIDE DEF routes
<1>7. \A k \in Machines : LocationOf[k] \in Locations
  BY SavedRoutesAssumption
<1>8. \A k \in Machines : k # m => LocationOf[k] # l
  BY DEF OneMachineEach
<1>9. \A k \in Machines : k # m => RoutesIn(LocationOf[k])' = RoutesIn(LocationOf[k])
  BY <1>1, <1>5, <1>7, <1>8 DEF RoutesIn
<1>10. Write => RoutesIn(l)' = routes
  BY <1>1, <1>2 DEF RoutesIn, Blobs
<1>11. UNCHANGED metadata => RoutesIn(l)' = RoutesIn(l)
  BY DEF RoutesIn
<1>12. RoutesIn(l)' = routes \/ RoutesIn(l)' = RoutesIn(l)
  BY <1>5, <1>10, <1>11
<1>13. OwnListed'
  BY <1>3, <1>4, <1>9, <1>12 DEF OwnListed, SavedInv
<1>14. ReadStands'
  <2>1. routeCall'[m].at = "none" /\ \A k \in Machines : k # m => routeCall'[k] = routeCall[k]
    BY <1>5, ReplyIs DEF Reply, SavedInv, SavedType
  <2> QED
    BY <1>9, <2>1 DEF ReadStands, SavedInv
<1>15. AckedListed'
  <2> SUFFICES ASSUME NEW a \in acked'
               PROVE  \E k \in Machines, i \in RouteIds :
                        a = <<LocationOf[k], i>> /\ HasRoute(RoutesIn(LocationOf[k])', i)
    BY DEF AckedListed, HasRoute
  <2>1. call.route.id \in RouteIds
    BY <1>2 DEF RouteRecs
  <2>2. CASE a \in acked
    <3>1. PICK k \in Machines, i \in RouteIds :
            a = <<LocationOf[k], i>> /\ HasRoute(RoutesIn(LocationOf[k]), i)
      BY <2>2 DEF SavedInv, AckedListed
    <3>2. CASE k # m
      BY <1>9, <3>1, <3>2
    <3>3. CASE k = m
      <4>1. CASE call.op # "delete"
        BY <1>4, <1>12, <3>1, <3>3, <4>1
      <4>2. CASE call.op = "delete" /\ acked' = acked \ {id}
        <5>1. i # call.route.id
          BY <3>1, <3>3, <4>2
        <5> QED
          BY <1>4, <1>12, <3>1, <3>3, <5>1
      <4>3. CASE call.op = "delete" /\ UNCHANGED metadata
        BY <1>11, <3>1, <3>3, <4>3
      <4> QED
        BY <1>5, <4>1, <4>2, <4>3
    <3> QED
      BY <3>2, <3>3
  <2>3. CASE a \notin acked
    <3>1. a = id /\ call.op # "delete" /\ Write
      BY <1>5, <2>3
    <3> QED
      BY <1>4, <1>10, <2>1, <3>1
  <2> QED
    BY <2>2, <2>3
<1> QED
  BY <1>6, <1>13, <1>14, <1>15 DEF SavedInv

(* Another application leaves the routes alone.                            *)
LEMMA OtherWriteKeeps ==
  ASSUME SavedInv, NEW loc \in Locations, OtherWrite(loc)
  PROVE  SavedInv'
<1>1. metadata \in [Locations -> Blobs] /\ UNCHANGED <<routeCall, acked>>
  BY DEF SavedInv, SavedType, OtherWrite
<1>2. metadata[loc] \in Blobs
  BY <1>1
<1>3. [metadata[loc] EXCEPT !.other = @ + 1] \in Blobs /\ [metadata[loc] EXCEPT !.other = @ + 1].routes = RoutesIn(loc)
  BY <1>2 DEF Blobs, RoutesIn
<1>4. metadata' = [metadata EXCEPT ![loc] = [metadata[loc] EXCEPT !.other = @ + 1]]
  BY <1>1 DEF OtherWrite
<1>5. metadata' \in [Locations -> Blobs] /\ \A l \in Locations : RoutesIn(l)' = RoutesIn(l)
  BY <1>1, <1>3, <1>4 DEF RoutesIn
<1>6. \A m \in Machines : RoutesIn(LocationOf[m])' = RoutesIn(LocationOf[m])
  BY <1>5, SavedRoutesAssumption
<1> QED
  BY <1>1, <1>5, <1>6 DEF SavedInv, SavedType, OwnListed, ReadStands, AckedListed

(* Each acknowledged route is in its list, and each id is there once.      *)
LEMMA ListedIsOnce == SavedInv => AcknowledgedStays
<1> SUFFICES ASSUME SavedInv, NEW a \in acked
             PROVE  Cardinality({k \in DOMAIN RoutesIn(a[1]) : RoutesIn(a[1])[k].id = a[2]}) = 1
  BY DEF AcknowledgedStays
<1>1. PICK m \in Machines, id \in RouteIds :
        a = <<LocationOf[m], id>> /\ HasRoute(RoutesIn(LocationOf[m]), id)
  BY DEF SavedInv, AckedListed
<1> DEFINE routes == RoutesIn(LocationOf[m])
<1>2. routes \in Seq(RouteRecs) /\ EachOnce(routes) /\ DOMAIN routes = 1 .. Len(routes)
  BY LenProperties DEF SavedInv, OwnListed, WellListed
<1>3. a[1] = LocationOf[m] /\ a[2] = id
  BY <1>1
<1>4. PICK k \in 1 .. Len(routes) : routes[k].id = id
  BY <1>1 DEF HasRoute
<1>5. {j \in DOMAIN routes : routes[j].id = id} = {k}
  BY <1>2, <1>4 DEF EachOnce
<1>6. Cardinality({k}) = 1
  BY FS_Singleton
<1> QED
  BY <1>3, <1>5, <1>6

(* AcknowledgedStays for any routes, any limit on their size and any calls:*)
(* what was saved with success stays until its deletion is asked for,      *)
(* where no two machines are at one location.  Two machines can lose each  *)
(* other's routes: nothing serialises them (routesMu is a machine's own).  *)
THEOREM SavedRoutesStay ==
  ASSUME OneMachineEach
  PROVE  SavedSpec => []AcknowledgedStays
<1>1. SavedInit => SavedInv
  BY SavedInitInv
<1>2. SavedInv /\ [SavedNext]_savedVars => SavedInv'
  <2> SUFFICES ASSUME SavedInv, [SavedNext]_savedVars PROVE SavedInv'
    OBVIOUS
  <2>1. ASSUME NEW m \in Machines,
               \/ AddRoute(m) \/ UpdateRoute(m) \/ DeleteRoute(m)
               \/ Look(m) \/ GetMetadata(m) \/ Commit(m) \/ GetMetadataFails(m)
        PROVE  SavedInv'
    <3>1. CASE AddRoute(m) \/ UpdateRoute(m) \/ DeleteRoute(m)
      BY <3>1, TakeKeeps
    <3>2. CASE Look(m)
      BY <3>2, LookKeeps
    <3>3. CASE GetMetadata(m)
      BY <3>3, GetKeeps
    <3>4. CASE Commit(m)
      BY <3>4, CommitKeeps
    <3>5. CASE GetMetadataFails(m)
      <4>1. "failed" \in Replies
        BY DEF Replies
      <4> QED
        BY <3>5, <4>1, ReplyKeeps DEF GetMetadataFails
    <3> QED
      BY <2>1, <3>1, <3>2, <3>3, <3>4, <3>5
  <2>2. ASSUME NEW loc \in Locations, OtherWrite(loc) PROVE SavedInv'
    BY <2>2, OtherWriteKeeps
  <2>3. CASE UNCHANGED savedVars
    BY <2>3 DEF savedVars, SavedInv, SavedType, OwnListed, ReadStands, AckedListed, RoutesIn
  <2> QED
    BY <2>1, <2>2, <2>3 DEF SavedNext
<1>3. SavedInv => AcknowledgedStays
  BY ListedIsOnce
<1> QED
  BY <1>1, <1>2, <1>3, PTL DEF SavedSpec

-----------------------------------------------------------------------------
(* The migration of an old nav file, of any length and any waypoints.  The *)
(* argument: after k waypoints the loop holds the reached prefix, followed *)
(* by what is still to visit of the first k; and once a waypoint was seen  *)
(* unvisited, it is the one after the prefix.                              *)
LegacyWaypoints == [at : Places, visited : BOOLEAN]
Scans == [wps : Seq(Places), idx : Nat, seenUnvisited : BOOLEAN]

(* A round of the loop.                                                    *)
LEMMA LegacyStepIs ==
  ASSUME NEW scan \in Scans, NEW w \in LegacyWaypoints
  PROVE  LegacyStep(scan, w) \in Scans
BY AppendProperties DEF LegacyStep, Scans, LegacyWaypoints

(* The two loops over the file: what the code leaves of it, and what is    *)
(* still to visit.                                                         *)
FirstScan == [wps |-> <<>>, idx |-> 0, seenUnvisited |-> FALSE]

ScansFile(scan) ==
  /\ scan[0] = FirstScan
  /\ \A k \in 1 .. Len(raw) : scan[k] = LegacyStep(scan[k - 1], raw[k])

LEMMA MigrationScans ==
  ASSUME raw \in Seq(LegacyWaypoints)
  PROVE  \E scan : /\ ScansFile(scan)
                   /\ \A now : GoalFromLegacy(now) =
                        IF scan[Len(raw)].seenUnvisited
                        THEN NewGoal("route", "", scan[Len(raw)].wps, scan[Len(raw)].idx, FALSE, now)
                        ELSE NoGoal
<1> DEFINE n == Len(raw)
           Upto(f) == f = [k \in 0 .. n |-> IF k = 0 THEN [wps |-> <<>>, idx |-> 0, seenUnvisited |-> FALSE]
                                            ELSE LegacyStep(f[k - 1], raw[k])]
           step == [p \in (1 .. n) \X Scans |-> LegacyStep(p[2], raw[p[1]])]
<1>1. n \in Nat /\ \A k \in 1 .. n : raw[k] \in LegacyWaypoints
  BY LenProperties, ElementOfSeq
<1>2. \E f : Upto(f)
  <2>1. FirstScan \in Scans
    BY EmptySeq DEF FirstScan, Scans
  <2>2. step \in [(1 .. n) \X Scans -> Scans]
    BY <1>1, LegacyStepIs
  <2>3. \A k \in 1 .. n, v \in Scans : step[<<k, v>>] = LegacyStep(v, raw[k])
    OBVIOUS
  <2> HIDE DEF step, n
  <2>4. PICK f : Recurs(f, Scans, 0, 1, n, FirstScan, step)
    <3>1. 0 \in Nat /\ 1 \in Nat /\ 1 = 0 + 1 /\ 0 <= n
      BY <1>1
    <3> QED
      BY ONLY <1>1, <2>1, <2>2, <3>1, Recursion
  <2>5. \A k \in 1 .. n : k - 1 \in 0 .. n /\ f[k - 1] \in Scans
    BY <1>1, <2>4 DEF Recurs
  <2>6. \A k \in 0 .. n : f[k] = IF k = 0 THEN FirstScan ELSE LegacyStep(f[k - 1], raw[k])
    <3>1. \A k \in 0 .. n : k = 0 \/ k \in 1 .. n
      BY <1>1
    <3> QED
      BY <2>3, <2>4, <2>5, <3>1 DEF Recurs
  <2>7. Upto(f)
    BY <2>4, <2>6 DEF Recurs, FirstScan
  <2> QED
    BY <2>7
<1> DEFINE g == CHOOSE f : Upto(f)
<1>3. Upto(g)
  BY <1>2
<1>4. \A now : GoalFromLegacy(now) =
        IF g[n].seenUnvisited THEN NewGoal("route", "", g[n].wps, g[n].idx, FALSE, now) ELSE NoGoal
  BY DEF GoalFromLegacy
<1> HIDE DEF g, n
<1>5. g[0] = FirstScan /\ \A k \in 1 .. n : g[k] = LegacyStep(g[k - 1], raw[k])
  <2>1. 0 \in 0 .. n /\ \A k \in 1 .. n : k \in 0 .. n /\ k # 0
    BY <1>1
  <2> QED
    BY <1>3, <2>1 DEF FirstScan
<1> QED
  BY <1>4, <1>5 DEF ScansFile, n

ListsUnvisited(list) ==
  /\ list[0] = <<>>
  /\ \A k \in 1 .. Len(raw) :
       list[k] = IF raw[k].visited THEN list[k - 1] ELSE Append(list[k - 1], raw[k].at)

LEMMA StillToVisitLists ==
  ASSUME raw \in Seq(LegacyWaypoints)
  PROVE  \E list : ListsUnvisited(list) /\ StillToVisit = list[Len(raw)]
<1> DEFINE n == Len(raw)
           V == Seq(Places)
           none == <<>>
           Upto(f) == f = [k \in 0 .. n |-> IF k = 0 THEN <<>>
                                            ELSE IF raw[k].visited THEN f[k - 1] ELSE Append(f[k - 1], raw[k].at)]
           step == [p \in (1 .. n) \X V |-> IF raw[p[1]].visited THEN p[2] ELSE Append(p[2], raw[p[1]].at)]
<1>1. n \in Nat /\ \A k \in 1 .. n : raw[k].at \in Places
  <2>1. n \in Nat /\ \A k \in 1 .. n : raw[k] \in LegacyWaypoints
    BY LenProperties, ElementOfSeq
  <2> QED
    BY <2>1 DEF LegacyWaypoints
<1>2. \E f : Upto(f)
  <2>1. none \in V
    BY EmptySeq
  <2>2. step \in [(1 .. n) \X V -> V]
    <3>1. \A k \in 1 .. n, v \in V : Append(v, raw[k].at) \in V
      BY <1>1, AppendProperties
    <3> QED
      BY <3>1
  <2>3. \A k \in 1 .. n, v \in V : step[<<k, v>>] = IF raw[k].visited THEN v ELSE Append(v, raw[k].at)
    OBVIOUS
  <2> HIDE DEF V, step, none, n
  <2>4. PICK f : Recurs(f, V, 0, 1, n, none, step)
    <3>1. 0 \in Nat /\ 1 \in Nat /\ 1 = 0 + 1 /\ 0 <= n
      BY <1>1
    <3> QED
      BY ONLY <1>1, <2>1, <2>2, <3>1, Recursion
  <2>5. \A k \in 1 .. n : k - 1 \in 0 .. n /\ f[k - 1] \in V
    BY <1>1, <2>4 DEF Recurs
  <2>6. \A k \in 0 .. n : f[k] = IF k = 0 THEN <<>> ELSE IF raw[k].visited THEN f[k - 1] ELSE Append(f[k - 1], raw[k].at)
    <3>1. \A k \in 0 .. n : k = 0 \/ k \in 1 .. n
      BY <1>1
    <3> QED
      BY <2>3, <2>4, <2>5, <3>1 DEF none, Recurs
  <2>7. Upto(f)
    BY <2>4, <2>6 DEF Recurs
  <2> QED
    BY <2>7
<1> DEFINE g == CHOOSE f : Upto(f)
<1>3. Upto(g)
  BY <1>2
<1>4. StillToVisit = g[n]
  BY DEF StillToVisit
<1> HIDE DEF g, n
<1>5. g[0] = <<>> /\ \A k \in 1 .. n : g[k] = IF raw[k].visited THEN g[k - 1] ELSE Append(g[k - 1], raw[k].at)
  <2>1. 0 \in 0 .. n /\ \A k \in 1 .. n : k \in 0 .. n /\ k # 0
    BY <1>1
  <2> QED
    BY <1>3, <2>1
<1> QED
  BY <1>4, <1>5 DEF ListsUnvisited, n

(* What a scan of the first k waypoints holds, beside the list of those of *)
(* them that are still to visit.                                           *)
Scanned(k, scan, left) ==
  /\ scan \in Scans /\ left \in Seq(Places)
  /\ scan.idx <= k
  /\ \A j \in 1 .. scan.idx : raw[j].visited /\ scan.wps[j] = raw[j].at
  /\ Len(scan.wps) = scan.idx + Len(left)
  /\ \A i \in 1 .. Len(left) : scan.wps[scan.idx + i] = left[i]
  /\ scan.seenUnvisited => scan.idx < k /\ ~raw[scan.idx + 1].visited
  /\ ~scan.seenUnvisited => scan.idx = k /\ left = <<>>

LEMMA ScannedGrows ==
  ASSUME NEW k \in Nat, raw[k + 1] \in LegacyWaypoints, NEW scan, NEW left, Scanned(k, scan, left)
  PROVE  Scanned(k + 1, LegacyStep(scan, raw[k + 1]),
                 IF raw[k + 1].visited THEN left ELSE Append(left, raw[k + 1].at))
<1> DEFINE w == raw[k + 1]
           next == LegacyStep(scan, w)
<1>1. w \in LegacyWaypoints /\ w.at \in Places /\ scan \in Scans /\ scan.wps \in Seq(Places) /\ left \in Seq(Places)
  BY DEF Scanned, Scans, LegacyWaypoints
<1>2. PICK x \in Nat, m \in Nat : x = scan.idx /\ m = Len(left) /\ Len(scan.wps) = x + m /\ x <= k
  BY <1>1, LenProperties DEF Scanned, Scans
<1>3. next \in Scans
  BY <1>1, LegacyStepIs
<1>4. /\ \A j \in 1 .. x : raw[j].visited /\ scan.wps[j] = raw[j].at
      /\ \A i \in 1 .. m : scan.wps[x + i] = left[i]
      /\ scan.seenUnvisited => x < k /\ ~raw[x + 1].visited
      /\ ~scan.seenUnvisited => x = k /\ left = <<>>
  BY <1>2 DEF Scanned
<1>5. CASE w.visited /\ scan.seenUnvisited
  <2>1. next = scan
    BY <1>5 DEF LegacyStep
  <2>2. x <= k + 1 /\ x < k + 1
    BY <1>2
  <2> QED
    BY <1>1, <1>2, <1>4, <1>5, <2>1, <2>2 DEF Scanned
<1> DEFINE all == Append(scan.wps, w.at)
<1>6. /\ all \in Seq(Places) /\ Len(all) = x + m + 1 /\ all[x + m + 1] = w.at
      /\ \A i \in 1 .. x + m : all[i] = scan.wps[i]
  BY <1>1, <1>2, AppendProperties
<1> HIDE DEF all
<1>7. CASE w.visited /\ ~scan.seenUnvisited
  <2>1. next.wps = all /\ next.idx = x + 1 /\ ~next.seenUnvisited
    BY <1>2, <1>7 DEF LegacyStep, all
  <2>2. x = k /\ left = <<>> /\ m = 0
    BY <1>2, <1>4, <1>7, EmptySeq
  <2> HIDE DEF next
  <2>3. \A j \in 1 .. x + 1 : j \in 1 .. x \/ j = x + 1
    BY <1>2
  <2>4. \A j \in 1 .. x + 1 : raw[j].visited /\ all[j] = raw[j].at
    BY <1>4, <1>6, <1>7, <2>2, <2>3
  <2>5. Len(all) = (x + 1) + Len(left) /\ \A i \in 1 .. Len(left) : FALSE
    BY <1>2, <1>6, <2>2
  <2>6. next \in Scans /\ left \in Seq(Places) /\ next.idx <= k + 1 /\ next.idx = k + 1
    BY <1>1, <1>2, <1>3, <2>1, <2>2
  <2>7. Scanned(k + 1, next, left)
    BY <2>1, <2>2, <2>4, <2>5, <2>6 DEF Scanned
  <2> QED
    BY <1>7, <2>7 DEF next
<1>8. CASE ~w.visited
  <2> DEFINE more == Append(left, w.at)
  <2>1. next.wps = all /\ next.idx = x /\ next.seenUnvisited
    BY <1>2, <1>8 DEF LegacyStep, all
  <2>2. /\ more \in Seq(Places) /\ Len(more) = m + 1 /\ more[m + 1] = w.at
        /\ \A i \in 1 .. m : more[i] = left[i]
    BY <1>1, <1>2, AppendProperties
  <2> HIDE DEF next, more
  <2>3. x < k + 1 /\ ~raw[x + 1].visited
    BY <1>2, <1>4, <1>8
  <2>4. \A j \in 1 .. x : raw[j].visited /\ all[j] = raw[j].at
    <3>1. \A j \in 1 .. x : j \in 1 .. x + m
      BY <1>2
    <3> QED
      BY <1>4, <1>6, <3>1
  <2>5. Len(all) = x + Len(more)
    <3>1. x + (m + 1) = x + m + 1
      <4>1. x \in Nat /\ m \in Nat
        OBVIOUS
      <4> QED
        BY ONLY <4>1
    <3>2. Len(more) = m + 1 /\ Len(all) = x + m + 1
      BY <1>6, <2>2
    <3> QED
      BY ONLY <3>1, <3>2
  <2>6. \A i \in 1 .. m + 1 : all[x + i] = more[i]
    <3>0. x \in Nat /\ m \in Nat
      OBVIOUS
    <3>1. \A i \in 1 .. m + 1 : i = m + 1 \/ (i \in 1 .. m /\ x + i \in 1 .. x + m)
      BY ONLY <3>0
    <3>2. x + (m + 1) = x + m + 1
      BY ONLY <3>0
    <3>3. ASSUME NEW i \in 1 .. m, x + i \in 1 .. x + m PROVE all[x + i] = more[i]
      BY <1>4, <1>6, <2>2, <3>3
    <3>4. all[x + (m + 1)] = more[m + 1]
      BY <1>6, <2>2, <3>2
    <3> QED
      BY <3>1, <3>3, <3>4
  <2>7. x <= k + 1
    BY <1>2
  <2>8. Scanned(k + 1, next, more)
    BY <1>3, <2>1, <2>2, <2>3, <2>4, <2>5, <2>6, <2>7 DEF Scanned
  <2> QED
    BY <1>8, <2>8 DEF next, more
<1>9. w.visited \in BOOLEAN /\ scan.seenUnvisited \in BOOLEAN
  BY <1>1 DEF LegacyWaypoints, Scans
<1> QED
  BY <1>5, <1>7, <1>8, <1>9

(* What the comment promises, of every file.                               *)
LEMMA MigratedIs == raw \in Seq(LegacyWaypoints) => MigrationKeepsTheRoute
<1> SUFFICES ASSUME raw \in Seq(LegacyWaypoints) PROVE MigrationKeepsTheRoute
  OBVIOUS
<1> DEFINE n == Len(raw)
<1>1. n \in Nat /\ \A k \in 1 .. n : raw[k] \in LegacyWaypoints
  BY LenProperties, ElementOfSeq
<1>2. PICK scan : ScansFile(scan) /\ GoalFromLegacy(0) =
        IF scan[n].seenUnvisited THEN NewGoal("route", "", scan[n].wps, scan[n].idx, FALSE, 0) ELSE NoGoal
  BY MigrationScans
<1>3. PICK list : ListsUnvisited(list) /\ StillToVisit = list[n]
  BY StillToVisitLists
<1> DEFINE T == {k \in 0 .. n : Scanned(k, scan[k], list[k])}
<1>4. 0 \in T
  <2>1. FirstScan \in Scans /\ FirstScan.idx = 0 /\ FirstScan.wps = <<>> /\ ~FirstScan.seenUnvisited
    BY EmptySeq DEF FirstScan, Scans
  <2>2. Scanned(0, FirstScan, <<>>)
    BY <2>1, EmptySeq DEF Scanned
  <2>3. 0 \in 0 .. n /\ scan[0] = FirstScan /\ list[0] = <<>>
    <3>1. scan[0] = FirstScan
      BY <1>2 DEF ScansFile
    <3>2. list[0] = <<>>
      BY <1>3 DEF ListsUnvisited
    <3>3. 0 \in 0 .. n
      BY <1>1
    <3> QED
      BY <3>1, <3>2, <3>3
  <2> QED
    BY <2>2, <2>3
<1>5. ASSUME NEW k \in 0 .. n - 1, k \in T PROVE k + 1 \in T
  <2>1. k \in Nat /\ k + 1 \in 1 .. n /\ k + 1 \in 0 .. n /\ (k + 1) - 1 = k
    BY <1>1
  <2>2. Scanned(k, scan[k], list[k]) /\ raw[k + 1] \in LegacyWaypoints
    BY <1>1, <1>5, <2>1
  <2>3. scan[k + 1] = LegacyStep(scan[k], raw[k + 1])
    BY <1>2, <2>1 DEF ScansFile
  <2>4. list[k + 1] = IF raw[k + 1].visited THEN list[k] ELSE Append(list[k], raw[k + 1].at)
    BY <1>3, <2>1 DEF ListsUnvisited
  <2>5. Scanned(k + 1, scan[k + 1], list[k + 1])
    BY <2>1, <2>2, <2>3, <2>4, ScannedGrows
  <2> QED
    BY <2>1, <2>5
<1>6. Scanned(n, scan[n], list[n])
  <2>1. 0 \in Nat /\ n \in 0 .. n
    BY <1>1
  <2>2. n \in T
    <3> HIDE DEF T, n
    <3> QED
      BY <1>1, <1>4, <1>5, <2>1, RangeInduction
  <2> QED
    BY <2>2
<1> HIDE DEF T, n
<1> DEFINE end == scan[n]
           wps == end.wps
           left == list[n]
           goal == GoalFromLegacy(0)
<1>7. PICK x \in Nat, m \in Nat : x = end.idx /\ m = Len(left) /\ Len(wps) = x + m /\ x <= n
  BY <1>6, LenProperties DEF Scanned, Scans
<1>8. /\ wps \in Seq(Places) /\ left \in Seq(Places) /\ end.seenUnvisited \in BOOLEAN
      /\ \A j \in 1 .. x : raw[j].visited /\ wps[j] = raw[j].at
      /\ \A i \in 1 .. m : wps[x + i] = left[i]
      /\ end.seenUnvisited => x < n /\ ~raw[x + 1].visited
      /\ ~end.seenUnvisited => x = n /\ left = <<>>
  BY <1>6, <1>7 DEF Scanned, Scans
<1> HIDE DEF end, left, wps
<1>9. CASE \A i \in 1 .. n : raw[i].visited
  <2>1. ~end.seenUnvisited
    <3>1. x < n => x + 1 \in 1 .. n
      BY <1>1, <1>7
    <3> QED
      BY <1>8, <1>9, <3>1
  <2> QED
    BY <1>2, <1>9, <2>1 DEF MigrationKeepsTheRoute, end, n
<1>10. CASE ~\A i \in 1 .. n : raw[i].visited
  <2>1. end.seenUnvisited
    BY <1>8, <1>10
  <2>2. goal = NewGoal("route", "", wps, x, FALSE, 0)
    BY <1>2, <1>7, <2>1 DEF end, wps
  <2>3. goal.idx = x /\ goal.wps = wps /\ goal.state = "active"
    <3> HIDE DEF goal
    <3> QED
      BY <2>2, Zenon DEF NewGoal
  <2>4. FirstUnvisited = x + 1
    <3> DEFINE First(i) == ~raw[i].visited /\ \A j \in 1 .. i - 1 : raw[j].visited
    <3>0. x \in Nat /\ n \in Nat /\ x + 1 <= n
      BY <1>1, <1>7, <1>8, <2>1
    <3>1. x + 1 \in 1 .. n /\ (x + 1) - 1 = x
      BY ONLY <3>0
    <3>2. First(x + 1)
      BY <1>8, <2>1, <3>1
    <3>3. ASSUME NEW i \in 1 .. n, First(i) PROVE i = x + 1
      <4>1. ~(i < x + 1)
        <5>1. i < x + 1 => i \in 1 .. x
          BY <1>7
        <5> QED
          BY <1>8, <3>3, <5>1
      <4>2. ~(x + 1 < i)
        <5>1. x + 1 < i => x + 1 \in 1 .. i - 1
          BY <1>1, <1>7
        <5> QED
          BY <1>8, <2>1, <3>3, <5>1
      <4> QED
        BY <1>1, <1>7, <4>1, <4>2
    <3>4. FirstUnvisited = CHOOSE i \in 1 .. n : First(i)
      BY DEF FirstUnvisited, n
    <3> HIDE DEF First
    <3> QED
      BY <3>1, <3>2, <3>3, <3>4
  <2>5. SubSeq(wps, 1, x) = Positions(SubSeq(raw, 1, x))
    <3> DEFINE a == SubSeq(wps, 1, x)
               b == SubSeq(raw, 1, x)
    <3>1. \A j \in 1 .. x : wps[j] \in Places /\ raw[j] \in LegacyWaypoints /\ raw[j].at \in Places
      <4>1. \A j \in 1 .. x : j \in 1 .. Len(wps) /\ j \in 1 .. n
        BY <1>1, <1>7
      <4> QED
        BY <1>1, <1>8, <4>1, ElementOfSeq DEF LegacyWaypoints
    <3>2. 1 \in Int /\ x \in Int /\ x - 1 + 1 = x /\ (1 <= x \/ x = 0) /\ \A i \in 1 .. x : 1 + i - 1 = i
      BY <1>7
    <3>3. a \in Seq(Places) /\ Len(a) = x /\ \A i \in 1 .. x : a[i] = wps[i]
      <4>1. /\ a \in Seq(Places) /\ Len(a) = IF 1 <= x THEN x - 1 + 1 ELSE 0
            /\ \A i \in 1 .. x - 1 + 1 : a[i] = wps[1 + i - 1]
        BY <3>1, <3>2, SubSeqProperties
      <4> HIDE DEF a
      <4> QED
        BY <3>2, <4>1
    <3>4. b \in Seq(LegacyWaypoints) /\ Len(b) = x /\ \A i \in 1 .. x : b[i] = raw[i]
      <4>1. /\ b \in Seq(LegacyWaypoints) /\ Len(b) = IF 1 <= x THEN x - 1 + 1 ELSE 0
            /\ \A i \in 1 .. x - 1 + 1 : b[i] = raw[1 + i - 1]
        BY <3>1, <3>2, SubSeqProperties
      <4> HIDE DEF b
      <4> QED
        BY <3>2, <4>1
    <3> HIDE DEF a, b
    <3> DEFINE c == [i \in 1 .. x |-> b[i].at]
    <3>5. Positions(b) = c
      BY <3>4 DEF Positions
    <3>6. c \in [1 .. x -> Places]
      BY <3>1, <3>4
    <3>7. \A i \in 1 .. x : c[i] = a[i]
      BY <1>8, <3>3, <3>4
    <3> HIDE DEF c
    <3>8. c \in Seq(Places) /\ Len(c) = x
      BY <1>7, <3>6, ListIs
    <3>9. a = c
      BY <3>3, <3>7, <3>8, SeqEqual
    <3> QED
      BY <3>5, <3>9 DEF a, b
  <2>6. Remaining(goal) = StillToVisit
    <3> DEFINE r == SubSeq(wps, x + 1, x + m)
    <3>1. \A j \in x + 1 .. x + m : wps[j] \in Places
      <4>1. \A j \in x + 1 .. x + m : j \in 1 .. Len(wps)
        BY <1>7
      <4> QED
        BY <1>8, <4>1, ElementOfSeq
    <3>2. /\ x + 1 \in Int /\ x + m \in Int /\ (x + m) - (x + 1) + 1 = m /\ (x + 1 <= x + m \/ m = 0)
          /\ \A i \in 1 .. m : (x + 1) + i - 1 = x + i
      <4>1. x \in Nat /\ m \in Nat
        OBVIOUS
      <4> QED
        BY ONLY <4>1
    <3> DEFINE lo == x + 1
               hi == x + m
    <3>3. r \in Seq(Places) /\ Len(r) = m /\ \A i \in 1 .. m : r[i] = wps[x + i]
      <4>1. /\ r \in Seq(Places) /\ Len(r) = IF lo <= hi THEN hi - lo + 1 ELSE 0
            /\ \A i \in 1 .. hi - lo + 1 : r[i] = wps[lo + i - 1]
        <5> lo \in Int /\ hi \in Int /\ (\A j \in lo .. hi : wps[j] \in Places) /\ r = SubSeq(wps, lo, hi)
          BY <3>1, <3>2
        <5> HIDE DEF lo, hi, r
        <5> QED
          BY SubSeqProperties
      <4>2. x + 1 <= x + m \/ (m = 0 /\ ~(x + 1 <= x + m))
        <5>1. x \in Nat /\ m \in Nat
          OBVIOUS
        <5> QED
          BY ONLY <5>1
      <4> HIDE DEF r
      <4> QED
        BY <3>2, <4>1, <4>2
    <3>4. r = left
      <4> HIDE DEF r
      <4> QED
        BY <1>7, <1>8, <3>3, SeqEqual
    <3> QED
      BY <1>3, <1>7, <2>3, <3>4 DEF Remaining, left
  <2> QED
    <3>1. ~\A i \in 1 .. Len(raw) : raw[i].visited
      BY ONLY <1>10 DEF n
    <3>2. FirstUnvisited - 1 = x
      BY ONLY <1>7, <2>4
    <3>3. /\ goal.idx = FirstUnvisited - 1 /\ goal.state = "active" /\ Remaining(goal) = StillToVisit
          /\ SubSeq(goal.wps, 1, FirstUnvisited - 1) = Positions(SubSeq(raw, 1, FirstUnvisited - 1))
      BY ONLY <2>3, <2>5, <2>6, <3>2
    <3> QED
      BY ONLY <3>1, <3>3 DEF MigrationKeepsTheRoute
<1> QED
  BY <1>9, <1>10

(* MigrationKeepsTheRoute for files of any length: the reached prefix and  *)
(* what is still to visit are taken over in order, and the cursor stands   *)
(* on the first waypoint to visit.                                         *)
THEOREM MigrationIsFaithful == LegacySpec => []MigrationKeepsTheRoute
<1> DEFINE Inv == raw \in Seq(LegacyWaypoints)
<1>1. LegacyInit => Inv
  BY EmptySeq DEF LegacyInit
<1>2. Inv /\ [LegacyNext]_raw => Inv'
  <2> SUFFICES ASSUME Inv, [LegacyNext]_raw PROVE Inv'
    OBVIOUS
  <2>1. CASE UNCHANGED raw
    BY <2>1 DEF LegacyWaypoints
  <2>2. CASE LegacyNext
    <3>1. PICK p \in Places, v \in BOOLEAN : raw' = Append(raw, [at |-> p, visited |-> v])
      BY <2>2 DEF LegacyNext, AddLegacyWaypoint
    <3>2. [at |-> p, visited |-> v] \in LegacyWaypoints
      BY DEF LegacyWaypoints
    <3>3. raw' \in Seq(LegacyWaypoints)
      BY <3>1, <3>2, AppendProperties
    <3> QED
      BY <3>3 DEF LegacyWaypoints
  <2> QED
    BY <2>1, <2>2
<1>3. Inv => MigrationKeepsTheRoute
  BY MigratedIs
<1> HIDE DEF Inv
<1> QED
  BY <1>1, <1>2, <1>3, PTL DEF LegacySpec
=============================================================================
