------------------------------ MODULE MCRouter ------------------------------
(***************************************************************************)
(* The auto-router, and the forecasts' decoders and isobars, on small      *)
(* instances.  A behaviour is of one part: a route searched and shaped on  *)
(* a grid of 4 by 3 cells, the planning of a long route in sections, or    *)
(* one input of an algorithm without state; the other parts are at rest.   *)
(***************************************************************************)
EXTENDS RouteShape, RoutePlan, ChannelMarks, Isobars, NavTiles

VARIABLE input   \* what was packed: a field, a file or a pressure grid

routerVars == <<shapeVars, planVars, charted, buoys, forecast, input>>

-----------------------------------------------------------------------------
(* Boat and penalties: lengths in fifths of a cell, depths in metres,      *)
(* prices in twelfths.                                                     *)
Boat == [draft |-> 3, ideal |-> 6, unknownRange |-> 12, unknown |-> 12, depth |-> 18,
         hard |-> 6, soft |-> 8, shore |-> 24, beside |-> 18, offChannel |-> 0,
         unsurveyed |-> 24, restricted |-> 36]

Water(depth) == [NewCell EXCEPT !.depth = depth]
Islands == {c \in Cells : c[2] = 1 \/ c[1] \in {1, 2}}
Shoals == {<<0, 1>>, <<1, 1>>}

SmallCharts ==
  {[c \in Cells |-> IF c \in land THEN Mark(Water(10), {"land"})
                    ELSE IF c \in shoal THEN Water(4) ELSE Water(10)] :
     land \in SUBSET Islands, shoal \in SUBSET Shoals}

(* A canal across an isthmus, straight or slanted, and a buoyed channel    *)
(* through open water.                                                     *)
Isthmus == [c \in Cells |-> IF c[1] \in {1, 2} THEN Mark(Water(4), {"land"}) ELSE Water(10)]
CanalCharts ==
  {StampWaterway(Isthmus, StampSegment(line[1], line[2])) :
     line \in {<< <<2, 6>>, <<14, 6>> >>, << <<2, 2>>, <<14, 10>> >>, << <<2, 11>>, <<15, 1>> >>}}
BuoyedCharts ==
  {StampChannelMarkers([c \in Cells |-> Water(10)], inside, inside \cup {c \in Cells : c[1] < 3}) :
     inside \in {{c \in Cells : c[2] = y} : y \in {0, 2}}}
Charts == SmallCharts \cup CanalCharts \cup BuoyedCharts

CornerToCorner == {<< <<0, 0>>, <<Width - 1, Height - 1>> >>}
TwoOrThree == CornerToCorner \cup {<< <<0, 0>>, <<Width - 1, 0>>, <<Width - 1, Height - 1>> >>}
ByTheMiddle == {<< <<0, 0>>, <<1, 1>>, <<Width - 1, Height - 1>> >>}

-----------------------------------------------------------------------------
(* Up to three features over one cell, and up to four marks.               *)
Feature(class, scale, drval, valsou) ==
  [class |-> class, scale |-> scale, drval |-> drval, valsou |-> valsou]
NoRange == <<Uncharted, Uncharted>>

FeaturesOf(scales) ==
  {Feature(class, s, NoRange, Uncharted) :
     class \in {"land", "pile", "unsurveyed", "fairway"}, s \in scales}
  \cup {Feature("wreck", s, NoRange, v) : v \in {Uncharted, 0, 2, 5000}, s \in scales}
  \cup {Feature(class, s, range, Uncharted) :
          class \in {"depare", "dredged"}, range \in {<<2, 5>>, <<8, 10>>, <<0, 20>>}, s \in scales}

OneScale == UNION {[1 .. n -> FeaturesOf({1})] : n \in 1 .. 3}
TwoScales == [1 .. 2 -> FeaturesOf({1, 2})]

(* What may be charted of a pixel, and the pixels under a cell.            *)
LandKinds ==
  {<<Feature("land", 1, NoRange, Uncharted)>>,
   <<Feature("land", 1, NoRange, Uncharted), Feature("pile", 1, NoRange, Uncharted)>>}
WaterKinds ==
  {<<>>, <<Feature("pile", 1, NoRange, Uncharted)>>,
   <<Feature("depare", 1, <<2, 5>>, Uncharted)>>, <<Feature("depare", 1, <<8, 10>>, Uncharted)>>,
   <<Feature("depare", 1, <<8, 10>>, Uncharted), Feature("wreck", 1, NoRange, 2)>>}
InChannels ==
  {<<Feature("depare", 1, <<2, 5>>, Uncharted), Feature("fairway", 1, NoRange, Uncharted)>>,
   <<Feature("land", 1, NoRange, Uncharted), Feature("fairway", 1, NoRange, Uncharted)>>,
   <<Feature("dredged", 1, <<8, 10>>, Uncharted)>>}
Pixels == [1 .. 2 -> LandKinds \cup WaterKinds \cup InChannels]
          \cup [1 .. 3 -> LandKinds \cup WaterKinds]
          \cup [1 .. 4 -> LandKinds \cup {<<>>}]
OverACell == [1 .. 1 -> {<<>>} \cup OneScale \cup TwoScales] \cup Pixels

Buoys ==
  [class : {"lateral"}, catlam : {1, 2}, x : {0, 4, 9}, y : {0, 2}]
  \cup [class : {"lateral"}, catlam : {3, 4}, x : {3, 5}, y : {0, 2}]
  \cup {[class |-> "safeWater", catlam |-> 0, x |-> 3, y |-> 0]}
FewBuoys == {S \in SUBSET Buoys : Cardinality(S) <= 4}

(* Fields as the centres pack them: entropy coded with every option, also  *)
(* in runs of blocks up to an interval's end, and in groups.               *)
Coded(xs, interval, mapped, padded, options) ==
  [kind |-> "coded", xs |-> xs, options |-> options,
   packing |-> [template |-> 42, bits |-> 3, blockSize |-> 2, rsi |-> interval,
                preprocess |-> mapped, padded |-> padded, restricted |-> FALSE,
                n |-> Len(xs), ref |-> 1, binary |-> 1, decimal |-> -1]]

CodedFields ==
  {Coded(xs, interval, mapped, padded, options) :
     xs \in [1 .. 4 -> {0, 1, 7}], interval \in {1, 2}, mapped \in BOOLEAN, padded \in BOOLEAN,
     options \in [1 .. 2 -> {AsRun, AsPairs, AsRaw, 0, 2}]}
  \cup {Coded(xs, 2, TRUE, FALSE, options) :
          xs \in [1 .. 3 -> 0 .. 7], options \in [1 .. 2 -> {AsRun, AsPairs, 1}]}
  \cup {Coded([i \in 1 .. n |-> IF i < k THEN 6 ELSE 5], 9, TRUE, FALSE, [b \in 1 .. 9 |-> AsRun]) :
          n \in 10 .. 19, k \in 1 .. 19}

GroupedFields ==
  [kind : {"grouped"}, xs : [1 .. 4 -> {0, 1, 5, 9}], order : 0 .. 2,
   lengths : {<<4>>, <<1, 3>>, <<2, 2>>, <<2, 1, 1>>}]

(* Files of up to three messages.                                          *)
Sent(field, template, bitmap, grid, whole) ==
  [field |-> field, template |-> template, bitmap |-> bitmap, grid |-> grid, whole |-> whole]
Winds == {Sent(f, t, FALSE, g, TRUE) : f \in {"u", "v"}, t \in {0, 3, 42}, g \in {0, 30}}
SomeMessages ==
  Winds \cup {Sent(f, 40, FALSE, 0, TRUE) : f \in {"u", "height"}}
        \cup {Sent("v", 0, TRUE, g, TRUE) : g \in {0, 30}}
        \cup {Sent(f, 0, FALSE, 0, TRUE) : f \in {"aloft", "height", "direction", "calm"}}
        \cup {Sent("u", 0, FALSE, 0, FALSE)}
ForecastFiles ==
  [kind : {"file"}, sent : [1 .. 1 -> SomeMessages] \cup [1 .. 2 -> SomeMessages]
     \cup {<<a, b, c>> : a \in {Sent("aloft", 0, FALSE, 0, TRUE), Sent("u", 42, FALSE, 0, TRUE)},
                          b \in SomeMessages, c \in SomeMessages}]

(* Pressure fields across the meridian where longitudes change sides; 9 is *)
(* a missing value.                                                        *)
PressureGrid(nx, ny) == [nx |-> nx, ny |-> ny, lo1 |-> 174, la1 |-> 40, dx |-> 6, dy |-> 6]
PressureFields ==
  [kind : {"pressure"}, grid : {PressureGrid(3, 2)}, values : [1 .. 6 -> {0, 1, 2, 3, 9}]]
  \cup [kind : {"pressure"}, grid : {PressureGrid(3, 3)}, values : [1 .. 9 -> {1, 2, 4}]]
  \cup [kind : {"pressure"}, grid : {PressureGrid(4, 3)}, values : [1 .. 12 -> {1, 3}]]

PressureFile(grid, values) ==
  LET plain == [template |-> 0, bits |-> 4, ref |-> 0, binary |-> 0, decimal |-> 0]
  IN << [whole |-> TRUE, edition |-> 2, discipline |-> 0,
         sections |-> << [number |-> 3, template |-> 0, points |-> 0, grid |-> grid],
                         [number |-> 4, product |-> [category |-> 3, parameter |-> 1, surface |-> 101, level |-> 0]],
                         [number |-> 5, packing |-> plain],
                         [number |-> 7, stream |-> PackSimple(values, plain)] >>] >>

NoInput == [kind |-> "none"]
Inputs == CodedFields \cup GroupedFields \cup ForecastFiles

-----------------------------------------------------------------------------
SearchAtRest ==
  /\ chart = [c \in Cells |-> NewCell] /\ stops = <<>>
  /\ cost = [c \in Cells |-> 0] /\ clearance = 0
  /\ leg = 1 /\ attempt = 0 /\ search = NoSearch
  /\ path = <<>> /\ bounds = <<0>> /\ outcome = "noRoute"
  /\ waypoints = <<>> /\ minDepth = Uncharted

PlanAtRest ==
  /\ stage = "failed" /\ placed = <<>>
  /\ sections = <<>> /\ parts = <<>> /\ flying = {}
  /\ route = <<>> /\ pending = <<>> /\ done = 0
  /\ repair = [passes |-> 0, fixed |-> FALSE, remaining |-> 0, seen |-> <<>>]

ChartsAtRest == charted = <<>> /\ buoys = {}
FilesAtRest == forecast = <<>> /\ input = NoInput

RouterInit ==
  \/ ShapeInit /\ PlanAtRest /\ ChartsAtRest /\ FilesAtRest
  \/ SearchAtRest /\ PlanInit /\ ChartsAtRest /\ FilesAtRest
  \/ SearchAtRest /\ PlanAtRest /\ charted \in OverACell /\ buoys = {} /\ FilesAtRest
  \/ SearchAtRest /\ PlanAtRest /\ charted = <<>> /\ buoys \in FewBuoys /\ FilesAtRest
  \/ SearchAtRest /\ PlanAtRest /\ ChartsAtRest /\ forecast = <<>> /\ input \in Inputs
  \/ /\ SearchAtRest /\ PlanAtRest /\ ChartsAtRest /\ input \in PressureFields
     /\ forecast = PressureFile(input.grid, input.values)

RouterNext ==
  \/ ShapeNext /\ UNCHANGED <<planVars, charted, buoys, forecast, input>>
  \/ PlanNext /\ UNCHANGED <<shapeVars, charted, buoys, forecast, input>>

RouterSpec == RouterInit /\ [][RouterNext]_routerVars /\ PlanFairness

-----------------------------------------------------------------------------
(* The messages of a file: what each holds, and its sections.              *)
SentValues(m) ==
  CASE m.field = "u" -> <<2, 7>>
    [] m.field = "v" -> <<5, 0>>
    [] m.field = "aloft" -> <<3, 3>>
    [] m.field = "height" -> <<2, 4>>
    [] m.field = "calm" -> <<3, 2000000>>
    [] m.field = "direction" -> <<90, 360>>

SentProduct(m) ==
  CASE m.field = "u" -> [category |-> 2, parameter |-> 2, surface |-> 103, level |-> 10]
    [] m.field = "v" -> [category |-> 2, parameter |-> 3, surface |-> 103, level |-> 10]
    [] m.field = "aloft" -> [category |-> 2, parameter |-> 2, surface |-> 103, level |-> 80]
    [] m.field \in {"height", "calm"} -> [category |-> 0, parameter |-> 3, surface |-> 1, level |-> 0]
    [] m.field = "direction" -> [category |-> 0, parameter |-> 10, surface |-> 1, level |-> 0]

SentDiscipline(m) == IF m.field \in {"u", "v", "aloft"} THEN 0 ELSE 10

SentPacked(m) ==
  LET plain == [template |-> m.template, bits |-> 21, ref |-> 0, binary |-> 0, decimal |-> 0]
      coded == Coded(SentValues(m), 1, TRUE, FALSE, <<0>>).packing
      Entropy(packing) == [packing |-> packing, stream |-> AecEncode(SentValues(m), packing, <<0>>)]
  IN CASE m.template = 3 -> PackComplex(SentValues(m), 1, <<2>>)
       [] m.template = 42 -> Entropy([coded EXCEPT !.ref = 0, !.binary = 0, !.decimal = 0])
       [] OTHER -> [packing |-> plain, stream |-> PackSimple(SentValues(m), plain)]

SentAs(m, packed) ==
  [whole |-> m.whole, edition |-> 2, discipline |-> SentDiscipline(m),
   sections |-> << [number |-> 1],
                   [number |-> 3, template |-> m.grid, points |-> 2, grid |-> [NoGrid EXCEPT !.nx = 2, !.ny = 1]],
                   [number |-> 4, product |-> SentProduct(m)],
                   [number |-> 5, packing |-> packed.packing],
                   [number |-> 6, present |-> m.bitmap],
                   [number |-> 7, stream |-> packed.stream] >>]

SentFile(sent) == [k \in DOMAIN sent |-> SentAs(sent[k], SentPacked(sent[k]))]

(* The last message of a field that can be read; {} if there is none.      *)
LastSent(sent, fields) ==
  LET of == {k \in DOMAIN sent : sent[k].field \in fields /\ sent[k].template # 40 /\ ~sent[k].bitmap}
  IN {k \in of : \A j \in of : j <= k}

FileReadsAsSent(sent, file) ==
  LET plain == \A k \in DOMAIN sent : sent[k].whole /\ sent[k].grid = 0
      readable == \A k \in DOMAIN sent : sent[k].whole /\ ~sent[k].bitmap /\ sent[k].template # 40
      Given(fields) == SentValues(sent[CHOOSE k \in LastSent(sent, fields) : TRUE])
      WindAsSent(read) ==
        /\ read.ok <=> LastSent(sent, {"u"}) # {} /\ LastSent(sent, {"v"}) # {}
        /\ read.ok => read.values = <<Given({"u"}), Given({"v"})>>
      WavesAsSent(read) ==
        read.ok => \A i \in 1 .. 2 : read.values[1][i] ^ 2 + read.values[2][i] ^ 2
                                        = WaveHeight(Given({"height", "calm"})[i]) ^ 2
  IN /\ plain => WindAsSent(ParseWind(file)) /\ WavesAsSent(ParseWaves(file))
     /\ readable /\ (\A k \in DOMAIN sent : sent[k].grid = 30) => WindAsSent(DecodeHRRRWind(file))
     /\ readable =>
          \A k \in DOMAIN sent :
            /\ WalkMessage(file[k], "any", sent[k].grid).values = SentValues(sent[k])
            /\ sent[k].grid = 0 => ParseMessage(file[k], "any").values = SentValues(sent[k])

(* What the centres pack is what the readers give: the samples of a field, *)
(* whatever options its coder chose (aecDecode, unpackComplex); of a file  *)
(* of whole messages on the plain grid, the last wind of each direction,   *)
(* whatever else the file holds (parseGFSWind10m); and the same field from *)
(* the two parsers of messages (parseGRIBMessage, walkGRIBMessage); and of *)
(* a pressure file its grid and its field (decodeRegularLLMessage).        *)
FieldsReadAsPacked ==
  /\ input.kind = "coded" =>
       UnpackData(AecEncode(input.xs, input.packing, input.options), input.packing)
         = [ok |-> TRUE, values |-> Scaled(input.packing, input.xs)]
  /\ input.kind = "grouped" =>
       LET Unpacks(packed) ==
             UnpackData(packed.stream, packed.packing) = [ok |-> TRUE, values |-> input.xs]
       IN Unpacks(PackComplex(input.xs, input.order, input.lengths))
  /\ input.kind = "file" => FileReadsAsSent(input.sent, SentFile(input.sent))
  /\ input.kind = "pressure" =>
       LET record == FirstRecord(ParseMessages(forecast, "pressure"))
       IN record.verdict = "record" /\ record.grid = input.grid /\ record.values = input.values

(* "FS only (id=0), k-split (id=1..bps-3)" (grib_ccsds.go:28): a block     *)
(* coded with an identifier so understood, its k the identifier, is read.  *)
CommentedBlock(xs, id, packing) ==
  ToByte(Bits(id, IdBits(packing.bits))
         \o FlattenSeq([i \in DOMAIN xs |-> FS(xs[i] \div 2 ^ id)])
         \o AllBits([i \in DOMAIN xs |-> xs[i] % 2 ^ id], id))

CodesAsCommented ==
  (input.kind = "coded" /\ ~input.packing.preprocess) =>
    LET packing == [input.packing EXCEPT !.bits = 5, !.n = 2]
        xs == SubSeq(input.xs, 1, 2)
    IN \A id \in 0 .. packing.bits - 3 :
         UnpackData(CommentedBlock(xs, id, packing), packing)
           = [ok |-> TRUE, values |-> Scaled(packing, xs)]
=============================================================================
