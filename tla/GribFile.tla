----------------------------- MODULE GribFile ------------------------------
(***************************************************************************)
(* Reading a forecast file: the messages of a file one after another, the  *)
(* sections of a message, the fields that a reader wants, and the wind or  *)
(* the waves they make (noaa_weather_cache.go, grib_sections.go and        *)
(* weather_models.go).                                                     *)
(*                                                                         *)
(* A file is a sequence of messages.  A message has its edition, whether   *)
(* its lengths and marks are right, its discipline, and its sections, each *)
(* with its number and the fields read from it: the grid (3), the product  *)
(* (4), the packing (5), the bit map (6) and the data (7).                 *)
(***************************************************************************)
EXTENDS GribPacking

NoProduct == [category |-> 0, parameter |-> 0, surface |-> 0, level |-> 0]
NoGrid == [nx |-> 0, ny |-> 0, lo1 |-> 0, la1 |-> 0, dx |-> 0, dy |-> 0]
NoPacking == [template |-> 0, bits |-> 0, ref |-> 0, binary |-> 0, decimal |-> 0]

IsGRIB2(message) == message.whole /\ message.edition = 2

Packings == {0, 2, 3, 42}

-----------------------------------------------------------------------------
(* What the readers want.                                                  *)
Momentum == 2
UGRD == 2
VGRD == 3
HeightAboveGround == 103
Oceanography == 10
HTSGW == 3
DIRPW == 10

WantWind(discipline, product) ==
  /\ product.category = Momentum
  /\ product.parameter \in {UGRD, VGRD}
  /\ product.surface = HeightAboveGround
  /\ product.level = 10

WantWave(discipline, product) ==
  discipline = Oceanography /\ product.category = 0 /\ product.parameter \in {HTSGW, DIRPW}

WantPRMSL(discipline, product) ==
  product.category = 3 /\ product.parameter = 1 /\ product.surface = 101

(* A reader's want by its name; "any" takes every product.                 *)
Wants(reader, discipline, product) ==
  \/ reader = "wind" /\ WantWind(discipline, product)
  \/ reader = "waves" /\ WantWave(discipline, product)
  \/ reader = "pressure" /\ WantPRMSL(discipline, product)
  \/ reader = "any"

-----------------------------------------------------------------------------
(* parseGRIBMessage: the sections in their order, each over what an        *)
(* earlier one of its number left.  The verdict is "error" where the file  *)
(* is given up, "skipped" where only the message is.                       *)
Unread == [verdict |-> "reading", product |-> NoProduct, packing |-> NoPacking,
           points |-> 0, grid |-> NoGrid, data |-> <<>>]

ParseSection(st, s) ==
  IF st.verdict # "reading" THEN st
  ELSE CASE s.number = 3 -> IF s.template = 0
                            THEN [st EXCEPT !.points = s.points, !.grid = s.grid]
                            ELSE [st EXCEPT !.verdict = "error"]
         [] s.number = 4 -> [st EXCEPT !.product = s.product]
         [] s.number = 5 -> IF s.packing.template \in Packings
                            THEN [st EXCEPT !.packing = s.packing]
                            ELSE [st EXCEPT !.verdict = "skipped"]
         [] s.number = 6 -> IF s.present THEN [st EXCEPT !.verdict = "skipped"] ELSE st
         [] s.number = 7 -> [st EXCEPT !.data = s.stream]
         [] OTHER -> st

Count(points, grid) == IF points = 0 THEN grid.nx * grid.ny ELSE points

Verdict(v) == [verdict |-> v, product |-> NoProduct, grid |-> NoGrid, values |-> <<>>]

Record(product, grid, field) ==
  IF ~field.ok THEN Verdict("error")
  ELSE [verdict |-> "record", product |-> product, grid |-> grid, values |-> field.values]

ParseMessage(message, reader) ==
  LET read == FoldLeft(ParseSection, Unread, message.sections)
  IN IF ~IsGRIB2(message) THEN Verdict("error")
     ELSE IF read.verdict # "reading" THEN Verdict(read.verdict)
     ELSE IF ~Wants(reader, message.discipline, read.product) THEN Verdict("skipped")
     ELSE Record(read.product, read.grid,
                 UnpackData(read.data, [n |-> Count(read.points, read.grid)] @@ read.packing))

(* walkGRIBMessage with parseProductSection and parsePackingSection: the   *)
(* last section of each number, whether or not there is a bit map.         *)
LastOf(message, number) ==
  LET at == {k \in DOMAIN message.sections : message.sections[k].number = number}
  IN IF at = {} THEN [number |-> 0]
     ELSE message.sections[CHOOSE k \in at : \A j \in at : j <= k]

WalkMessage(message, reader, gridTemplate) ==
  LET grid == LastOf(message, 3)
      product == LastOf(message, 4)
      packing == LastOf(message, 5)
      data == LastOf(message, 7)
  IN IF ~IsGRIB2(message) \/ product.number # 4 THEN Verdict("error")
     ELSE IF ~Wants(reader, message.discipline, product.product) THEN Verdict("skipped")
     ELSE IF grid.number # 3 \/ packing.number # 5 THEN Verdict("error")
     ELSE IF grid.template # gridTemplate THEN Verdict("error")
     ELSE Record(product.product, grid.grid,
                 UnpackData(IF data.number = 7 THEN data.stream ELSE <<>>,
                            [n |-> grid.grid.nx * grid.grid.ny] @@ packing.packing))

-----------------------------------------------------------------------------
(* The records of a file by their parameter; a later one replaces an       *)
(* earlier one of the same parameter, and an error gives the file up.      *)
Nothing == [ok |-> TRUE, fields |-> <<>>]

Take(found, parsed) ==
  CASE parsed.verdict = "error" \/ ~found.ok -> [found EXCEPT !.ok = FALSE]
    [] parsed.verdict = "record" /\ found.ok ->
         [found EXCEPT !.fields = (parsed.product.parameter :> parsed.values) @@ @]
    [] OTHER -> found

Collect(parsed) == FoldLeft(Take, Nothing, parsed)

Pair(found, first, second) ==
  IF found.ok /\ {first, second} \subseteq DOMAIN found.fields
  THEN [ok |-> TRUE, values |-> <<found.fields[first], found.fields[second]>>]
  ELSE Unreadable

ParseMessages(file, reader) == [k \in DOMAIN file |-> ParseMessage(file[k], reader)]

(* parseGFSWind10m, and ParseECMWFWind10m.                                 *)
ParseWind(file) == Pair(Collect(ParseMessages(file, "wind")), UGRD, VGRD)

(* decodeHRRRWind, before the winds are brought to another grid.           *)
DecodeHRRRWind(file) ==
  Pair(Collect([k \in DOMAIN file |-> WalkMessage(file[k], "wind", 30)]), UGRD, VGRD)

(* decodeRegularLLMessage: the first wanted record; a message that cannot  *)
(* be read before it is an error.                                          *)
FirstRecord(parsed) ==
  LET ends == {k \in DOMAIN parsed : parsed[k].verdict # "skipped"}
  IN IF ends = {} THEN Verdict("skipped")
     ELSE parsed[CHOOSE k \in ends : \A j \in ends : k <= j]

-----------------------------------------------------------------------------
(* The waves as a wind that blows where they run, as strong as they are    *)
(* high.  Directions are multiples of 90 degrees.                          *)
Sine == [d \in {0, 90, 180, 270, 360} |-> CASE d = 90 -> 1 [] d = 270 -> -1 [] OTHER -> 0]
Cosine == [d \in DOMAIN Sine |-> CASE d = 180 -> -1 [] d \in {0, 360} -> 1 [] OTHER -> 0]

WaveHeight(h) == IF h > 1000000 \/ h < 0 THEN 0 ELSE h
HasDirection(d) == d \in 0 .. 360

Along(part, heights, directions) ==
  [i \in DOMAIN heights |->
     IF HasDirection(directions[i]) THEN -WaveHeight(heights[i]) * part[directions[i]] ELSE 0]

ParseWaves(file) ==
  LET Waves(pair) ==
        IF ~pair.ok \/ Len(pair.values[1]) # Len(pair.values[2]) THEN Unreadable
        ELSE [ok |-> TRUE, values |-> <<Along(Sine, pair.values[1], pair.values[2]),
                                        Along(Cosine, pair.values[1], pair.values[2])>>]
  IN Waves(Pair(Collect(ParseMessages(file, "waves")), HTSGW, DIRPW))
=============================================================================
