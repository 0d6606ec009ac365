----------------------------- MODULE OsmIngest ------------------------------
(***************************************************************************)
(* mapsync's jobs on the land map of one region, and the queries the tiles *)
(* are drawn from (mapdata/cmd/mapsync/main.go, osmtiler/mongo.go,         *)
(* render/enc.go).  Documents are spread over collections by the zoom they *)
(* are first drawn at; large ones are copied to a collection for the       *)
(* overview as well.  One job runs at a time.                              *)
(***************************************************************************)
EXTENDS OsmExtract

CONSTANTS
  Extracts,        \* the files of the region, as they come out
  BatchSize,
  Quirky,          \* the documents whose geometry the database rejects
  LowZoomMinSpan,  \* LowZoomMinSpanDeg
  Centre,          \* the middle of the one tile there is
  MaxStops,        \* bound: jobs that fail or are stopped
  NoDoc

VARIABLES
  file,      \* the extract on disk
  osm,       \* the document of each id, by collection
  osmMeta,   \* the ingest-meta document: pbfHash and docCount
  mapJob,    \* the job under way
  lowWhole,  \* the last rebuild of osm_lowzoom came to its end
  stops

osmVars == <<file, osm, osmMeta, mapJob, lowWhole, stops>>

-----------------------------------------------------------------------------
Buckets == <<"overview", "coastal", "detail", "skip">>
Collections == <<"overview", "coastal", "detail", "skip", "lowzoom">>

(* Mutant: the last zoom of the coastal bucket is in the next.             *)
BucketShort(zoom) ==
  IF zoom = 255 THEN "skip" ELSE IF zoom <= 7 THEN "overview"
  ELSE IF zoom <= 10 THEN "coastal" ELSE "detail"

BucketForMinZoom(zoom) ==
  IF zoom = 255 THEN "skip" ELSE IF zoom <= 7 THEN "overview"
  ELSE IF zoom <= 11 THEN "coastal" ELSE "detail"

BucketsForQueryZoom(zoom) ==
  CASE zoom <= 7 -> <<"overview">>
    [] zoom \in 8 .. 11 -> <<"overview", "coastal">>
    [] OTHER -> <<"overview", "coastal", "detail">>

BandClasses == {"natural", "landuse", "leisure", "road", "railway", "aeroway", "admin", "place"}
QualifiesForLowZoom(doc) ==
  doc.class \in BandClasses /\ (doc.kind = "point" \/ doc.span >= LowZoomMinSpan)

ExtractDocs == FoldLeft(LAMBDA docs, x : Append(docs, DocsOf(x)), <<>>, Extracts)
AllDocs == UNION {ToSet(ExtractDocs[k]) : k \in DOMAIN Extracts}
DocIds == {d.id : d \in AllDocs}

(* What a collection may hold: a document, with its own simplified         *)
(* geometry, that of another extract, or one given later.                  *)
LowGeometries == {d.low : d \in AllDocs} \cup {LowGeomFor(d.kind, d.geometry.at) : d \in AllDocs}
StoredDocs == {[d EXCEPT !.low = low] : d \in AllDocs, low \in LowGeometries}

(* An extract has each node, way and ring once, and every document lies    *)
(* somewhere.                                                              *)
HasFields(d) ==
  d = [id |-> d.id, class |-> d.class, zoom |-> d.zoom, rank |-> d.rank, kind |-> d.kind,
       geometry |-> d.geometry, low |-> d.low, span |-> d.span]

ASSUME OsmAssumption ==
  /\ Extracts \in Seq(ToSet(Extracts)) /\ Extracts # <<>>
  /\ \A k \in DOMAIN Extracts : /\ ExtractDocs[k] \in Seq(AllDocs)
                               /\ \A d, e \in ToSet(ExtractDocs[k]) : d.id = e.id => d = e
  /\ \A d \in AllDocs : /\ HasFields(d) /\ d.zoom \in Nat
                       /\ \E p \in ToSet(d.geometry.at) : p \in Int \X Int
  /\ NoDoc \notin StoredDocs
  /\ Centre \in Int \X Int

DocsIn(c) == {osm[c][id] : id \in DocIds} \ {NoDoc}
CountRegionDocs == Cardinality({at \in ToSet(Buckets) \X DocIds : osm[at[1]][at[2]] # NoDoc})

(* $set leaves a field that the new document omits; a rejected document    *)
(* leaves the old one.                                                     *)
SetDoc(docs, d) ==
  IF d.id \in Quirky THEN docs
  ELSE [docs EXCEPT ![d.id] =
          IF @ = NoDoc \/ d.low # NoGeometry THEN d ELSE [d EXCEPT !.low = docs[d.id].low]]

BulkWrite(c, docs) ==
  LET written[k \in 0 .. Len(docs)] == IF k = 0 THEN osm[c] ELSE SetDoc(written[k - 1], docs[k])
  IN  [osm EXCEPT ![c] = written[Len(docs)]]

-----------------------------------------------------------------------------
Unemployed == [at |-> "none"]

OsmInit ==
  /\ file = 1
  /\ osm = [c \in ToSet(Collections) |-> [id \in DocIds |-> NoDoc]]
  /\ osmMeta = NoDoc
  /\ mapJob = Unemployed
  /\ lowWhole = TRUE
  /\ stops = 0

(* A newer extract is downloaded over the old one.                         *)
Download ==
  /\ mapJob = Unemployed /\ file < Len(Extracts)
  /\ file' = file + 1
  /\ UNCHANGED <<osm, osmMeta, mapJob, lowWhole, stops>>

ShouldSkipIngest ==
  /\ osmMeta # NoDoc
  /\ osmMeta.pbfHash = file
  /\ CountRegionDocs >= (osmMeta.docCount * 95) \div 100

(* The hash, the look at the metadata, and the passes over the file.       *)
BeginIngest(force) ==
  /\ mapJob = Unemployed
  /\ force \/ ~ShouldSkipIngest
  /\ mapJob' = [at |-> "emit", left |-> ExtractDocs[file],
             pending |-> [c \in ToSet(Collections) |-> <<>>]]
  /\ UNCHANGED <<file, osm, osmMeta, lowWhole, stops>>

(* upserter.upsert: into the batch, which is written when it is full.      *)
Enqueue(c, doc, next) ==
  LET batch == Append(mapJob.pending[c], doc)
      full == Len(batch) >= BatchSize
  IN  /\ mapJob' = [next EXCEPT !.pending[c] = IF full THEN <<>> ELSE batch]
      /\ osm' = IF full THEN BulkWrite(c, batch) ELSE osm

UpsertDoc ==
  /\ mapJob.at = "emit" /\ mapJob.left # <<>>
  /\ LET doc == mapJob.left[1]
         copied == QualifiesForLowZoom(doc)
     IN  Enqueue(BucketForMinZoom(doc.zoom), doc,
                 [mapJob EXCEPT !.at = IF copied THEN "copy" ELSE "emit",
                             !.left = IF copied THEN @ ELSE Tail(@)])
  /\ UNCHANGED <<file, osmMeta, lowWhole, stops>>

CopyLow ==
  /\ mapJob.at = "copy"
  /\ Enqueue("lowzoom", mapJob.left[1], [mapJob EXCEPT !.at = "emit", !.left = Tail(@)])
  /\ UNCHANGED <<file, osmMeta, lowWhole, stops>>

(* bucketRouter.flush: the buckets in order, the copies last.              *)
FlushBucket ==
  /\ mapJob.at = "emit" /\ mapJob.left = <<>>
  /\ \E i \in DOMAIN Collections :
       LET c == Collections[i] IN
       /\ mapJob.pending[c] # <<>>
       /\ \A j \in 1 .. i - 1 : mapJob.pending[Collections[j]] = <<>>
       /\ osm' = BulkWrite(c, mapJob.pending[c])
       /\ mapJob' = [mapJob EXCEPT !.pending[c] = <<>>]
  /\ UNCHANGED <<file, osmMeta, lowWhole, stops>>

WriteIngestMeta ==
  /\ mapJob.at = "emit" /\ mapJob.left = <<>>
  /\ \A c \in ToSet(Collections) : mapJob.pending[c] = <<>>
  /\ osmMeta' = [pbfHash |-> file, docCount |-> CountRegionDocs]
  /\ mapJob' = Unemployed
  /\ UNCHANGED <<file, osm, lowWhole, stops>>

-----------------------------------------------------------------------------
(* backfill-lowzoom drops the collection and merges the qualifying         *)
(* documents of two buckets into it, the later replacing the earlier.      *)
DropLowZoom ==
  /\ mapJob = Unemployed
  /\ osm' = [osm EXCEPT !["lowzoom"] = [id \in DocIds |-> NoDoc]]
  /\ mapJob' = [at |-> "merge", from |-> "overview"]
  /\ lowWhole' = FALSE
  /\ UNCHANGED <<file, osmMeta, stops>>

MergeLowZoom ==
  /\ mapJob.at = "merge"
  /\ LET merged(id) == osm[mapJob.from][id] # NoDoc /\ QualifiesForLowZoom(osm[mapJob.from][id])
     IN  osm' = [osm EXCEPT !["lowzoom"] =
                   [id \in DocIds |-> IF merged(id) THEN osm[mapJob.from][id] ELSE @[id]]]
  /\ mapJob' = IF mapJob.from = "overview" THEN [at |-> "merge", from |-> "coastal"] ELSE Unemployed
  /\ lowWhole' = (mapJob.from = "coastal")
  /\ UNCHANGED <<file, osmMeta, stops>>

(* backfill-geomlow, one document of a batch at a time: the documents that *)
(* have no simplified geometry are given one where it is smaller.          *)
BackfillGeomLow ==
  /\ mapJob = Unemployed
  /\ \E c \in {"overview", "coastal"} : \E d \in DocsIn(c) :
       LET low == LowGeomFor(d.kind, d.geometry.at) IN
       /\ d.low = NoGeometry /\ low # NoGeometry
       /\ osm' = [osm EXCEPT ![c][d.id].low = low]
  /\ UNCHANGED <<file, osmMeta, mapJob, lowWhole, stops>>

(* The job is killed, or the database fails it after some of a batch.      *)
StopJob ==
  /\ mapJob # Unemployed /\ stops < MaxStops
  /\ \/ osm' = osm
     \/ /\ mapJob.at \in {"emit", "copy"}
        /\ \E c \in ToSet(Collections) : \E k \in DOMAIN mapJob.pending[c] :
             osm' = BulkWrite(c, <<mapJob.pending[c][k]>>)
  /\ mapJob' = Unemployed /\ stops' = stops + 1
  /\ UNCHANGED <<file, osmMeta, lowWhole>>

OsmNext ==
  \/ Download \/ (\E force \in BOOLEAN : BeginIngest(force))
  \/ UpsertDoc \/ CopyLow \/ FlushBucket \/ WriteIngestMeta
  \/ DropLowZoom \/ MergeLowZoom \/ BackfillGeomLow
  \/ StopJob

OsmSpec == OsmInit /\ [][OsmNext]_osmVars

-----------------------------------------------------------------------------
(* The tile's box and its quarters, which share their edges.               *)
Quarters == {"west", "east"} \X {"south", "north"}
InQuarter(p, q) ==
  /\ IF q[1] = "west" THEN p[1] <= Centre[1] ELSE p[1] >= Centre[1]
  /\ IF q[2] = "south" THEN p[2] <= Centre[2] ELSE p[2] >= Centre[2]

(* fetchFiltered over one collection and box.                              *)
Fetched(c, boxes, zoom, classes) ==
  {d \in DocsIn(c) :
     /\ d.zoom <= zoom /\ d.class \in classes
     /\ \E p \in ToSet(d.geometry.at), q \in boxes : InQuarter(p, q)}

EffectiveQueryZoom(z) == Max({11, z - 3})

AllClasses == {d.class : d \in AllDocs}

(* FetchTileFeaturesMulti: the buckets' documents together.                *)
RenderOSMTile(z) ==
  LET zoom == EffectiveQueryZoom(z)
  IN  UNION {Fetched(c, Quarters, zoom, AllClasses) : c \in ToSet(BucketsForQueryZoom(zoom))}

(* FetchTileFeaturesMultiQuad and FetchTileFeaturesQuad: a query for each  *)
(* quarter, and of those with one id the document of the first bucket.     *)
FetchQuad(cs, z, classes) ==
  LET got(i) == UNION {Fetched(cs[i], {q}, z, classes) : q \in Quarters}
  IN  UNION {{d \in got(i) : \A j \in 1 .. i - 1 : \A e \in got(j) : e.id # d.id} : i \in DOMAIN cs}

(* filterOverviewBand, by the road's kind, the border's level, the place's *)
(* kind.                                                                   *)
OverviewBand(d, z) ==
  CASE d.class = "road" -> d.rank <= 3
    [] d.class = "admin" -> d.rank <= (IF z >= 9 THEN 6 ELSE 4)
    [] d.class = "place" -> d.rank <= 2
    [] OTHER -> TRUE

RenderOverviewOSM(z) ==
  LET docs == IF z <= 8 THEN FetchQuad(<<"lowzoom">>, z, AllClasses)
              ELSE FetchQuad(BucketsForQueryZoom(z), z, BandClasses)
  IN  {d \in docs : OverviewBand(d, z)}

-----------------------------------------------------------------------------
(* A run that skips an extract ("already ingested", main.go:542) leaves    *)
(* every tile as the extract has it: each document the database accepts    *)
(* and that is to be seen at a zoom is fetched for the tile of that zoom,  *)
(* whichever bucket, copy or quarter it was put in.  A document that was   *)
(* moved to another bucket leaves its old copy behind and is excepted, and *)
(* so is the overview while osm_lowzoom is being rebuilt.                  *)
TileZooms == {7, 8, 9, 11, 12, 15}
InOneBucket(id) == Cardinality({c \in ToSet(Buckets) : osm[c][id] # NoDoc}) = 1

SkippedExtractIsServed ==
  (mapJob = Unemployed /\ ShouldSkipIngest) =>
    \A d \in {e \in ToSet(ExtractDocs[file]) : e.id \notin Quirky} : \A z \in TileZooms :
      /\ d.zoom <= EffectiveQueryZoom(z) =>
           \E e \in RenderOSMTile(z) : e.id = d.id /\ e.geometry = d.geometry
      /\ (/\ z <= 11 /\ d.zoom <= z /\ d.class \in BandClasses
          /\ OverviewBand(d, z) /\ InOneBucket(d.id)
          /\ z <= 8 => QualifiesForLowZoom(d) /\ lowWhole)
         => \E e \in RenderOverviewOSM(z) : e.id = d.id
=============================================================================
