---------------------------- MODULE ChartIngest -----------------------------
(***************************************************************************)
(* The ENC pipeline of one chart cell: NOAA's catalog, the cell's files on *)
(* disk with their manifest, and the documents in the database with the    *)
(* metadata that lets a later pass skip the cell (datasync.go and          *)
(* mapdata/noaa/{catalog,store,parse,ingest,mongo}.go).  A release is an   *)
(* edition and an update of the cell; downloads, upserts and prunes fail,  *)
(* passes are cut short, the parser is upgraded.                           *)
(***************************************************************************)
EXTENDS Naturals, Sequences

CONSTANTS
  Releases,    \* <<edition, update, ids of its features>>, as NOAA publishes them
  Runners,     \* passes that may run at once: the loop's, and sync_now's
  MaxParser,   \* bound: parser versions deployed
  MaxFailures, \* bound: failing calls and restarts
  Nil

ASSUME IngestAssumption ==
  /\ Releases \in Seq(Nat \X Nat \X SUBSET STRING) /\ Releases # <<>>
  /\ MaxParser \in Nat \ {0} /\ MaxFailures \in Nat

VARIABLES
  published, \* the newest release at NOAA
  catalog,   \* the release the catalog names; 0: no catalog yet
  manifest,  \* the release the manifest records; 0: none
  cellDir,   \* the cell's files: Nil, or a release and how much of it
  docs,      \* the cell's documents: for each id Nil or what it was parsed from
  meta,      \* the cell's metadata: Nil, or edition, update and parser
  parser,    \* ParserVersion of this build
  pass,      \* each runner's pass
  failures,
  whole,     \* ghost: the metadata is of a pass that no other overlapped, and
             \* no document changed since
  missing    \* ghost: ids whose documents that pass had refused

ghosts == <<whole, missing>>
ingestVars ==
  <<published, catalog, manifest, cellDir, docs, meta, parser, pass, failures, ghosts>>
stored == <<catalog, manifest, cellDir, docs, meta, ghosts>>

Edition(n) == Releases[n][1]
Update(n) == Releases[n][2]
Ids == UNION {Releases[n][3] : n \in DOMAIN Releases}

Idle == [at |-> "idle"]

(* ParseCell: the features of a release, and metadata from the cell file   *)
(* itself.  A base cell parses alike under every parser so far.            *)
Origin(n, p) == <<n, IF Update(n) = 0 THEN 1 ELSE p>>

ParseCell(n, p) ==
  [docs |-> [id \in Releases[n][3] |-> Origin(n, p)],
   meta |-> [edition |-> Edition(n), update |-> Update(n), parser |-> p]]

(* The release of a directory that holds only the .000 file of release n.  *)
BaseOf(n) == CHOOSE b \in DOMAIN Releases : Edition(b) = Edition(n) /\ Update(b) = 0

(* NOAA numbers releases upwards, and a new edition starts with update 0.  *)
ASSUME ReleasesAssumption ==
  \A n \in DOMAIN Releases :
    /\ \A k \in DOMAIN Releases :
         Edition(k) = Edition(n) /\ Update(k) = Update(n) => k = n
    /\ \E b \in DOMAIN Releases : Edition(b) = Edition(n) /\ Update(b) = 0

(* Mutant: whatever parser the metadata is of.                             *)
IsCurrentOfAnyParser(m, n) == m.edition = Edition(n) /\ m.update = Update(n)

IsCurrent(m, n) ==
  /\ m.edition = Edition(n) /\ m.update = Update(n)
  /\ Update(n) = 0 \/ m.parser >= parser

OnDisk == cellDir # Nil
NeedsDownload(n) == manifest = 0 \/ n > manifest \/ ~OnDisk

IngestInit ==
  /\ published = 1 /\ catalog = 0 /\ manifest = 0 /\ cellDir = Nil
  /\ docs = [id \in Ids |-> Nil] /\ meta = Nil
  /\ parser = 1
  /\ pass = [r \in Runners |-> Idle]
  /\ failures = 0
  /\ whole = FALSE /\ missing = {}

Fail(r) ==
  /\ failures < MaxFailures /\ failures' = failures + 1
  /\ pass' = [pass EXCEPT ![r] = Idle]

Step(r, state) == pass' = [pass EXCEPT ![r] = state] /\ UNCHANGED failures

-----------------------------------------------------------------------------
(* runLoop and sync_now start a pass; EnsureFresh refreshes a catalog past *)
(* its age, and the pass goes on with the old one when that fails.         *)
RunOnce(r) ==
  /\ pass[r] = Idle
  /\ \/ catalog' = published /\ Step(r, [at |-> "sync"])
     \/ catalog # 0 /\ UNCHANGED catalog /\ Step(r, [at |-> "sync"])
     \/ catalog = 0 /\ UNCHANGED catalog /\ Fail(r)
  /\ UNCHANGED <<published, manifest, cellDir, docs, meta, parser, ghosts>>

(* SyncBBox, for this cell: nothing to fetch, or a wait for cellLock.      *)
SyncBBox(r) ==
  /\ pass[r].at = "sync"
  /\ Step(r, IF NeedsDownload(catalog) THEN [at |-> "wait", cell |-> catalog]
             ELSE [at |-> "list"])
  /\ UNCHANGED <<published, stored, parser>>

(* downloadAndExtract, one at a time, looks again once it has the lock.    *)
Downloading == \E r \in Runners : pass[r].at \in {"fetch", "extract", "manifest"}

Lock(r) ==
  /\ pass[r].at = "wait" /\ ~Downloading
  /\ Step(r, IF NeedsDownload(pass[r].cell) THEN [at |-> "fetch", cell |-> pass[r].cell]
             ELSE [at |-> "list"])
  /\ UNCHANGED <<published, stored, parser>>

(* A cell whose download fails stays as it is, and the pass goes on.       *)
DownloadFails(r) ==
  /\ pass[r].at \in {"fetch", "extract"}
  /\ failures < MaxFailures /\ failures' = failures + 1
  /\ pass' = [pass EXCEPT ![r] = [at |-> "list"]]
  /\ UNCHANGED <<published, stored, parser>>

(* The archive that comes is the newest release; the directory is removed. *)
Fetch(r) ==
  /\ pass[r].at = "fetch"
  /\ Step(r, [at |-> "extract", cell |-> pass[r].cell, zip |-> published])
  /\ cellDir' = Nil
  /\ UNCHANGED <<published, catalog, manifest, docs, meta, parser, ghosts>>

(* extractFlat, the .000 file first: created, written, then the updates.   *)
Extract(r) ==
  /\ pass[r].at = "extract"
  /\ \/ cellDir = Nil /\ cellDir' = [release |-> pass[r].zip, part |-> "torn"] /\ Step(r, pass[r])
     \/ /\ cellDir # Nil /\ cellDir.part = "torn"
        /\ cellDir' = [cellDir EXCEPT !.part = "base"] /\ Step(r, pass[r])
     \/ /\ cellDir # Nil /\ cellDir.part = "base"
        /\ cellDir' = [cellDir EXCEPT !.part = "whole"]
        /\ Step(r, [at |-> "manifest", cell |-> pass[r].cell])
  /\ UNCHANGED <<published, catalog, manifest, docs, meta, parser, ghosts>>

(* The manifest records the release the catalog named.                     *)
SaveManifest(r) ==
  /\ pass[r].at = "manifest"
  /\ manifest' = pass[r].cell
  /\ Step(r, [at |-> "list"])
  /\ UNCHANGED <<published, catalog, cellDir, docs, meta, parser, ghosts>>

(* IngestBBox lists the cells again once the downloads are over, and skips *)
(* one whose metadata is current; metadata that cannot be read is not.     *)
CellsForBBox(r) ==
  /\ pass[r].at = "list"
  /\ Step(r, [at |-> "lookup", cell |-> catalog])
  /\ UNCHANGED <<published, stored, parser>>

Current(n) == IF meta = Nil THEN FALSE ELSE IsCurrent(meta, n)

LookupMeta(r) ==
  /\ pass[r].at = "lookup"
  /\ \/ Step(r, IF Current(pass[r].cell) THEN Idle ELSE [at |-> "parse"])
     \/ /\ failures < MaxFailures /\ failures' = failures + 1
        /\ pass' = [pass EXCEPT ![r] = [at |-> "parse"]]
  /\ UNCHANGED <<published, stored, parser>>

(* IngestCellFile parses the .000 with the updates beside it; a cell that  *)
(* is not on disk, or whose .000 does not parse, is passed over.  lone     *)
(* (ghost): no other pass wrote to the cell meanwhile.                     *)
Readable == IF cellDir = Nil THEN FALSE ELSE cellDir.part # "torn"
DirRelease == IF cellDir.part = "base" THEN BaseOf(cellDir.release) ELSE cellDir.release
Writing(r) == pass[r].at \in {"upsert", "meta"}

IngestCellFile(r) ==
  /\ pass[r].at = "parse"
  /\ \/ ~Readable /\ Step(r, Idle)
     \/ /\ Readable
        /\ LET parsed == ParseCell(DirRelease, parser) IN
           pass' = [q \in Runners |->
             IF q = r
             THEN [at |-> "upsert", parsed |-> parsed, left |-> DOMAIN parsed.docs, refused |-> {},
                   lone |-> \A o \in Runners : ~Writing(o)]
             ELSE IF Writing(q) THEN [pass[q] EXCEPT !.lone = FALSE] ELSE pass[q]]
        /\ UNCHANGED failures
  /\ UNCHANGED <<published, stored, parser>>

(* UpsertDocs, batch by batch, unordered: the documents Mongo refuses stay *)
(* as they were and the pass goes on; any other error ends the cell, with  *)
(* some of its documents written.                                          *)
Written(r, ids) == [id \in Ids |-> IF id \in ids THEN pass[r].parsed.docs[id] ELSE docs[id]]

Touch(r, ids) == docs' = Written(r, ids) /\ whole' = (whole /\ docs' = docs)

UpsertDocs(r) ==
  /\ pass[r].at = "upsert" /\ pass[r].left # {}
  /\ \/ \E batch \in SUBSET pass[r].left \ {{}}, refused \in SUBSET pass[r].left :
          /\ refused \subseteq batch
          /\ Touch(r, batch \ refused)
          /\ Step(r, [pass[r] EXCEPT !.left = @ \ batch, !.refused = @ \cup refused])
     \/ \E ids \in SUBSET pass[r].left : Touch(r, ids) /\ Fail(r)
  /\ UNCHANGED <<published, catalog, manifest, cellDir, meta, parser, missing>>

(* Mutant: documents the parse no longer has are kept.                     *)
PruneNothing(r) == {}

Stale(r) == {id \in Ids : docs[id] # Nil} \ DOMAIN pass[r].parsed.docs

PruneCellDocs(r) ==
  /\ pass[r].at = "upsert" /\ pass[r].left = {}
  /\ \E gone \in SUBSET Stale(r) :
       /\ docs' = [id \in Ids |-> IF id \in gone THEN Nil ELSE docs[id]]
       /\ whole' = (whole /\ docs' = docs)
       /\ \/ gone = Stale(r) /\ Step(r, [pass[r] EXCEPT !.at = "meta"])
          \/ Fail(r)
  /\ UNCHANGED <<published, catalog, manifest, cellDir, meta, parser, missing>>

WriteMeta(r) ==
  /\ pass[r].at = "meta"
  /\ \/ /\ meta' = pass[r].parsed.meta
        /\ whole' = pass[r].lone /\ missing' = pass[r].refused
        /\ Step(r, Idle)
     \/ UNCHANGED <<meta, ghosts>> /\ Fail(r)
  /\ UNCHANGED <<published, catalog, manifest, cellDir, docs, parser>>

(* Close, or a crash: passes end where they are; the next start may be of  *)
(* a build with a newer parser.                                            *)
Close ==
  /\ failures < MaxFailures /\ failures' = failures + 1
  /\ pass' = [r \in Runners |-> Idle]
  /\ parser' \in {parser} \cup ({parser + 1} \cap (1 .. MaxParser))
  /\ UNCHANGED <<published, stored>>

Publish ==
  /\ published < Len(Releases) /\ published' = published + 1
  /\ UNCHANGED <<stored, parser, pass, failures>>

RunnerStep(r) ==
  \/ RunOnce(r) \/ SyncBBox(r) \/ Lock(r) \/ DownloadFails(r) \/ Fetch(r) \/ Extract(r)
  \/ SaveManifest(r) \/ CellsForBBox(r) \/ LookupMeta(r) \/ IngestCellFile(r)
  \/ UpsertDocs(r) \/ PruneCellDocs(r) \/ WriteMeta(r)

IngestNext == (\E r \in Runners : RunnerStep(r)) \/ Close \/ Publish

IngestSpec == IngestInit /\ [][IngestNext]_ingestVars

(* Passes go on, time after time, and a catalog past its age is refreshed. *)
Refresh(r) == RunOnce(r) /\ catalog' = published

IngestFairness == \A r \in Runners : WF_ingestVars(RunnerStep(r)) /\ SF_ingestVars(Refresh(r))

FairSpec == IngestSpec /\ IngestFairness

-----------------------------------------------------------------------------
(* The cell holds the documents of release n as this build parses them,    *)
(* save those refused.                                                     *)
Loaded(n) ==
  \A id \in Ids \ missing :
    docs[id] = IF id \in Releases[n][3] THEN Origin(n, parser) ELSE Nil

(* Metadata under which a pass would skip the cell, whichever release its  *)
(* list names, tells that the release's documents are there and no others, *)
(* after any passes, failures, restarts and parsers, unless another pass   *)
(* overlapped the one that wrote it or began to write since (ingest.go:98).*)
CurrentIsLoaded == \A n \in DOMAIN Releases : Current(n) /\ whole => Loaded(n)

(* However passes fail and overlap, in the end the newest release is       *)
(* loaded, or it is marked current by such a pass: a cell that is not      *)
(* current is repaired.                                                    *)
EventuallyLoaded == <>[](Loaded(published) \/ (Current(published) /\ ~whole))

(* The repository's claim, "skip a cell whose edition+update are already   *)
(* loaded" (parse.go:57), for the newest release when no pass is under way:*)
(* such a cell is skipped until NOAA publishes again.                      *)
SkippedCellIsLoaded ==
  (\A r \in Runners : pass[r] = Idle) /\ Current(published) => Loaded(published)
=============================================================================
