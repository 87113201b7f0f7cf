------------------------------- MODULE Corpus -------------------------------
(***************************************************************************)
(* How source material becomes work items: fetch_corpus.py and people      *)
(* write files below data/, scan_inputs.py lists their chunks in           *)
(* manifest.jsonl, and the coordinator merges the manifest into its table. *)
(*                                                                         *)
(* A file is written row by row and may be read at any time; disk says how *)
(* many rows it has.  A text file has one chunk per row (what chunk_text   *)
(* does to short or long rows is in Chunking), an image or a recording is  *)
(* one item.  A content hash is the rows it is the hash of.                *)
(*                                                                         *)
(* A scan loads the ids there are, then hashes each file, reads it, and    *)
(* appends the new rows to the manifest at the end, in pieces.  The        *)
(* coordinator scans under its lock when it starts and on POST /rescan;    *)
(* a scan run by hand takes no lock.                                       *)
(***************************************************************************)
EXTENDS Integers, FiniteSets, Sequences, JsonLines

CONSTANTS
    Scanners,   \* who scans: "coordinator", and perhaps "hand"
    Content,    \* the rows of each file when it is complete, in walking order
    NText,      \* the first NText files are text, the others are media
    NBatches,   \* the first NBatches files are batches of the corpus API
    MaxFaults   \* bound: kills, lost answers and I/O errors

Files == 1..Len(Content)

ASSUME CorpusAssumption ==
    /\ Len(Content) \in Nat
    /\ \A f \in Files : Len(Content[f]) \in Nat
    /\ "coordinator" \in Scanners
    /\ NText \in 0..Len(Content)
    /\ NBatches \in 0..NText
    /\ MaxFaults \in Nat

VARIABLES
    disk,           \* how many rows each file has, -1 if it is not there
    cursor,         \* how many batches the API has served
    acked,          \* the batches the API knows to have arrived
    fetch,          \* what fetch_corpus is doing
    manifest,       \* manifest.jsonl
    scan,           \* what each scanner is doing
    process,        \* the coordinator's process: "down", "starting" or "up"
    table,          \* the item ids in its memory
    saved,          \* the item ids in its checkpoint
    fetch_faults,   \* how often fetching failed
    scan_faults,    \* how often scanning or the coordinator failed
    overlapped,     \* history: two scans ran at the same time
    due,            \* history: files complete when the coordinator's scan began
    promised        \* history: the same, of the last scan that was merged

fetching == <<disk, cursor, acked, fetch, fetch_faults>>

scanning == <<manifest, scan, process, table, saved, scan_faults, overlapped, due,
              promised>>

vars == <<disk, cursor, acked, fetch, fetch_faults, manifest, scan, process, table,
          saved, scan_faults, overlapped, due, promised>>

----------------------------------------------------------------------------
Complete(f) == disk[f] = Len(Content[f])

\* The id of a chunk of file f, when the file had n rows as it was hashed.
ItemId(f, n, idx) ==
    <<IF f <= NText THEN "text" ELSE "media", SubSeq(Content[f], 1, n), idx>>

Listed == {row.id : row \in RowsIn(manifest)}

\* The rows of a file for the manifest: its chunks whose ids are not in `seen`.
NewRows(s, f, n, chunks, seen) ==
    {row \in {[id |-> ItemId(f, n, idx), path |-> f, by |-> s] : idx \in 1..chunks} :
        row.id \notin seen}

\* A scan: the ids it knows, the files to come, the file at hand and its length as
\* it was hashed, the rows to append, and the row begun in the manifest.
Quiet == [stage |-> "idle", seen |-> {}, todo |-> {}, file |-> 0, hashed |-> 0,
          rows |-> {}, begun |-> {}]

TypeOK ==
    /\ \A f \in Files : disk[f] \in -1..Len(Content[f])
    /\ cursor \in 0..NBatches
    /\ acked \subseteq 1..cursor
    /\ fetch \in {"off", "ask", "write"}
    /\ process \in {"down", "starting", "up"}
    /\ process = "down" => table = {} /\ scan["coordinator"] = Quiet
    /\ fetch_faults + scan_faults \in 0..MaxFaults
    /\ \A s \in Scanners :
        /\ scan[s].stage \in {"idle", "walk", "read", "append", "flush", "merge"}
        /\ scan[s].stage = "read" => scan[s].file \in 1..NText
        /\ scan[s].stage = "append" => scan[s].rows # {}
        /\ scan[s].stage = "flush" => scan[s].begun # {}
        /\ scan[s].stage = "merge" => s = "coordinator"

Init ==
    /\ disk = [f \in Files |-> -1]
    /\ cursor = 0
    /\ acked = {}
    /\ fetch = "off"
    /\ manifest = <<>>
    /\ scan = [s \in Scanners |-> Quiet]
    /\ process = "down"
    /\ table = {}
    /\ saved = {}
    /\ fetch_faults = 0
    /\ scan_faults = 0
    /\ overlapped = FALSE
    /\ due = {}
    /\ promised = {}

----------------------------------------------------------------------------
(* Files arrive. *)

FetchFault ==
    /\ fetch_faults + scan_faults < MaxFaults
    /\ fetch_faults' = fetch_faults + 1

\* Without a corpus API in the configuration fetch_corpus exits.
FetchStarts ==
    /\ fetch = "off"
    /\ NBatches > 0
    /\ fetch' = "ask"
    /\ UNCHANGED <<disk, cursor, acked, fetch_faults, scanning>>

\* Fault: max_batches is looked at when the next batch is there.
FetchEndsLate ==
    /\ fetch = "ask"
    /\ cursor < NBatches
    /\ cursor' = cursor + 1
    /\ fetch' = "off"
    /\ UNCHANGED <<disk, acked, fetch_faults, scanning>>

\* There is no other batch (204), or max_batches are fetched.
FetchEnds ==
    /\ fetch = "ask"
    /\ fetch' = "off"
    /\ UNCHANGED <<disk, cursor, acked, fetch_faults, scanning>>

\* GET /v1/batches/next is answered with a batch, and its file is opened.
FetchNext ==
    /\ fetch = "ask"
    /\ cursor < NBatches
    /\ cursor' = cursor + 1
    /\ disk' = [disk EXCEPT ![cursor + 1] = 0]
    /\ fetch' = "write"
    /\ UNCHANGED <<acked, fetch_faults, scanning>>

FetchWriteRow ==
    /\ fetch = "write"
    /\ ~Complete(cursor)
    /\ disk' = [disk EXCEPT ![cursor] = @ + 1]
    /\ UNCHANGED <<cursor, acked, fetch, fetch_faults, scanning>>

\* Fault: the batch is acknowledged before it is written to its end.
FetchAckEarly ==
    /\ fetch = "write"
    /\ acked' \in {acked, acked \cup {cursor}}
    /\ fetch' = IF Complete(cursor) THEN "ask" ELSE "write"
    /\ UNCHANGED <<disk, cursor, fetch_faults, scanning>>

\* The file is closed and the batch acknowledged; an answer other than 200 is
\* only logged.
FetchAck ==
    /\ fetch = "write"
    /\ Complete(cursor)
    /\ acked' \in {acked, acked \cup {cursor}}
    /\ fetch' = "ask"
    /\ UNCHANGED <<disk, cursor, fetch_faults, scanning>>

\* fetch_corpus is killed, or a request or a write raises.  A batch may have
\* been served, or acknowledged, and the answer lost.
FetchDies ==
    /\ fetch # "off"
    /\ FetchFault
    /\ \/ UNCHANGED <<cursor, acked>>
       \/ fetch = "ask" /\ cursor < NBatches /\ cursor' = cursor + 1 /\ UNCHANGED acked
       \/ fetch = "write" /\ Complete(cursor) /\ acked' = acked \cup {cursor}
          /\ UNCHANGED cursor
    /\ fetch' = "off"
    /\ UNCHANGED <<disk, scanning>>

\* Somebody copies a file: it is created, then gets its rows.
CopyByHand(f) ==
    /\ f > NBatches
    /\ ~Complete(f)
    /\ disk' = [disk EXCEPT ![f] = @ + 1]
    /\ UNCHANGED <<cursor, acked, fetch, fetch_faults, scanning>>

----------------------------------------------------------------------------
(* Scanning. *)

ScanFault ==
    /\ fetch_faults + scan_faults < MaxFaults
    /\ scan_faults' = scan_faults + 1

Goes(s, stage) == scan' = [scan EXCEPT ![s].stage = stage]

MayScan(s) == scan[s].stage = "idle" /\ (s = "coordinator" => process # "down")

\* Fault: the ids the manifest lists are not loaded.
ScanBeginsBlind(s) ==
    /\ MayScan(s)
    /\ Sound(manifest)
    /\ scan' = [scan EXCEPT ![s] =
                  [Quiet EXCEPT !.stage = "walk",
                                !.todo = {f \in Files : disk[f] >= 0}]]
    /\ overlapped' = (overlapped \/ \E t \in Scanners : scan[t].stage # "idle")
    /\ due' = IF s = "coordinator" THEN {f \in Files : Complete(f)} ELSE due
    /\ UNCHANGED <<manifest, process, table, saved, scan_faults, promised, fetching>>

\* load_seen_ids reads every line; the directories are listed.
ScanBegins(s) ==
    /\ MayScan(s)
    /\ Sound(manifest)
    /\ scan' = [scan EXCEPT ![s] =
                  [Quiet EXCEPT !.stage = "walk", !.seen = Listed,
                                !.todo = {f \in Files : disk[f] >= 0}]]
    /\ overlapped' = (overlapped \/ \E t \in Scanners : scan[t].stage # "idle")
    /\ due' = IF s = "coordinator" THEN {f \in Files : Complete(f)} ELSE due
    /\ UNCHANGED <<manifest, process, table, saved, scan_faults, promised, fetching>>

\* What is scanned next: in _startup an exception is caught and the merge
\* follows, in /rescan it is answered 500.
Raised(s) ==
    /\ scan' = [scan EXCEPT ![s] =
          IF s = "coordinator" /\ process = "starting"
          THEN [Quiet EXCEPT !.stage = "merge"] ELSE Quiet]
    /\ due' = IF s = "coordinator" THEN {} ELSE due
    /\ UNCHANGED <<manifest, process, table, saved, overlapped, promised, fetching>>

\* load_seen_ids meets a line that does not parse.
LoadRaises(s) ==
    /\ MayScan(s)
    /\ ~Sound(manifest)
    /\ Raised(s)
    /\ UNCHANGED scan_faults

\* A file cannot be hashed, or the manifest not be written.
ScanRaises(s) ==
    /\ scan[s].stage \in {"walk", "append", "flush"}
    /\ ScanFault
    /\ Raised(s)

\* The text is read next; of an image or a recording that is all.
Hashed(s, f) ==
    IF f <= NText
    THEN [scan[s] EXCEPT !.todo = @ \ {f}, !.stage = "read", !.file = f, !.hashed = disk[f]]
    ELSE [scan[s] EXCEPT !.todo = @ \ {f},
                         !.rows = @ \cup NewRows(s, f, disk[f], 1, scan[s].seen)]

\* The next file is hashed.
HashFile(s) ==
    /\ scan[s].stage = "walk"
    /\ \E f \in scan[s].todo :
        /\ \A g \in scan[s].todo : f <= g
        /\ scan' = [scan EXCEPT ![s] = Hashed(s, f)]
    /\ UNCHANGED <<manifest, process, table, saved, scan_faults, overlapped, due,
                   promised, fetching>>

WalksOn(sc, rows) ==
    [sc EXCEPT !.stage = "walk", !.file = 0, !.hashed = 0, !.rows = @ \cup rows]

\* The text is read, after it was hashed, and cut into chunks.
ReadFile(s) ==
    LET f == scan[s].file IN
    /\ scan[s].stage = "read"
    /\ scan' = [scan EXCEPT ![s] =
          WalksOn(@, NewRows(s, f, scan[s].hashed, disk[f], scan[s].seen))]
    /\ UNCHANGED <<manifest, process, table, saved, scan_faults, overlapped, due,
                   promised, fetching>>

\* The text cannot be read: a warning, and on to the next file.
SkipFile(s) ==
    /\ scan[s].stage = "read"
    /\ ScanFault
    /\ scan' = [scan EXCEPT ![s] = WalksOn(@, {})]
    /\ due' = IF s = "coordinator" THEN due \ {scan[s].file} ELSE due
    /\ UNCHANGED <<manifest, process, table, saved, overlapped, promised, fetching>>

Finished(s) == IF s = "coordinator" THEN "merge" ELSE "idle"

\* Fault: when a scan finds nothing new, nothing is merged.
WalkEndsOnNews(s) ==
    /\ scan[s].stage = "walk"
    /\ scan[s].todo = {}
    /\ IF scan[s].rows # {} THEN Goes(s, "append")
       ELSE scan' = [scan EXCEPT ![s] = Quiet]
    /\ UNCHANGED <<manifest, process, table, saved, scan_faults, overlapped, due,
                   promised, fetching>>

\* Every file is seen; if anything is new, the manifest is opened.
WalkEnds(s) ==
    /\ scan[s].stage = "walk"
    /\ scan[s].todo = {}
    /\ IF scan[s].rows # {} THEN Goes(s, "append")
       ELSE scan' = [scan EXCEPT ![s] = [Quiet EXCEPT !.stage = Finished(s)]]
    /\ UNCHANGED <<manifest, process, table, saved, scan_faults, overlapped, due,
                   promised, fetching>>

\* The row that is next is begun: the files come in order, and so do their chunks.
BeginsRow(s, row) ==
    /\ scan[s].stage = "append"
    /\ row \in scan[s].rows
    /\ \A other \in scan[s].rows :
        \/ row.path < other.path
        \/ row.path = other.path /\ row.id[3] <= other.id[3]
    /\ scan' = [scan EXCEPT ![s].stage = "flush", ![s].begun = {row},
                            ![s].rows = @ \ {row}]
    /\ UNCHANGED <<process, table, saved, scan_faults, overlapped, due, promised, fetching>>

\* Fault: the manifest is opened with "w".
AppendTruncates(s) ==
    \E row \in scan[s].rows, stage \in {"part", "text"} :
        /\ BeginsRow(s, row)
        /\ manifest' = << [row |-> row, stage |-> stage] >>

\* Some of the next row reaches the manifest.
AppendRow(s) ==
    \E row \in scan[s].rows, stage \in {"part", "text"} :
        /\ BeginsRow(s, row)
        /\ manifest' = Append(manifest, [row |-> row, stage |-> stage])

\* The rest of it follows, perhaps after a row of another scan.
FlushRow(s) ==
    /\ scan[s].stage = "flush"
    /\ \E row \in scan[s].begun :
          manifest' = IF manifest[Len(manifest)].row = row THEN Completed(manifest)
                      ELSE Append(manifest, [row |-> row, stage |-> "rest"])
    /\ scan' = [scan EXCEPT ![s] =
          IF scan[s].rows # {} THEN [@ EXCEPT !.stage = "append", !.begun = {}]
          ELSE [Quiet EXCEPT !.stage = Finished(s)]]
    /\ UNCHANGED <<process, table, saved, scan_faults, overlapped, due, promised, fetching>>

\* Whoever runs the scan is killed.
HandScanDies ==
    /\ "hand" \in Scanners
    /\ scan["hand"].stage # "idle"
    /\ ScanFault
    /\ scan' = [scan EXCEPT !["hand"] = Quiet]
    /\ UNCHANGED <<manifest, process, table, saved, overlapped, due, promised, fetching>>

----------------------------------------------------------------------------
(* The coordinator. *)

\* _startup loads the checkpoint; the scan is next.
Start ==
    /\ process = "down"
    /\ process' = "starting"
    /\ table' = saved
    /\ UNCHANGED <<manifest, scan, saved, scan_faults, overlapped, due, promised, fetching>>

\* Fault: a line that does not parse is skipped.
MergeSkipsBadLines ==
    /\ scan["coordinator"].stage = "merge"
    /\ table' = table \cup Listed
    /\ saved' = IF table' # table THEN table' ELSE saved
    /\ process' = "up"
    /\ promised' = due
    /\ due' = {}
    /\ scan' = [scan EXCEPT !["coordinator"] = Quiet]
    /\ UNCHANGED <<manifest, scan_faults, overlapped, fetching>>

\* _merge_manifest_locked adds the listed items; if any is new, all are saved.
Merge ==
    /\ scan["coordinator"].stage = "merge"
    /\ Sound(manifest)
    /\ table' = table \cup Listed
    /\ saved' = IF table' # table THEN table' ELSE saved
    /\ process' = "up"
    /\ promised' = due
    /\ due' = {}
    /\ scan' = [scan EXCEPT !["coordinator"] = Quiet]
    /\ UNCHANGED <<manifest, scan_faults, overlapped, fetching>>

\* What an exception leaves of a merge that has added the items `ids`: a start
\* ends with the process, /rescan is answered 500 with the items in the table
\* and not in the checkpoint.
MergeEndsEarly(ids) ==
    /\ scan["coordinator"].stage = "merge"
    /\ IF process = "starting"
       THEN /\ process' = "down"
            /\ table' = {}
            /\ promised' = {}
       ELSE /\ table' = table \cup ids
            /\ UNCHANGED <<process, promised>>
    /\ due' = {}
    /\ scan' = [scan EXCEPT !["coordinator"] = Quiet]
    /\ UNCHANGED <<manifest, saved, overlapped, fetching>>

\* It meets a line that does not parse.
MergeRaises ==
    /\ ~Sound(manifest)
    /\ MergeEndsEarly({row.id : row \in RowsUpToError(manifest)})
    /\ UNCHANGED scan_faults

\* All items are added, and the checkpoint cannot be written.
MergeSaveRaises ==
    /\ Sound(manifest)
    /\ ~(Listed \subseteq table)
    /\ ScanFault
    /\ MergeEndsEarly(Listed)

\* A save between two scans: every 200 reports, every 30 s, on SIGTERM.
Checkpoint ==
    /\ process = "up"
    /\ scan["coordinator"].stage = "idle"
    /\ saved' = table
    /\ UNCHANGED <<manifest, scan, process, table, scan_faults, overlapped, due,
                   promised, fetching>>

\* Fault: the scan of a process that died goes on.
DiesScanning ==
    /\ process # "down"
    /\ ScanFault
    /\ process' = "down"
    /\ table' = {}
    /\ due' = {}
    /\ promised' = {}
    /\ UNCHANGED <<manifest, scan, saved, overlapped, fetching>>

\* The process is killed, wherever its scan has got to.
Dies ==
    /\ process # "down"
    /\ ScanFault
    /\ process' = "down"
    /\ table' = {}
    /\ scan' = [scan EXCEPT !["coordinator"] = Quiet]
    /\ due' = {}
    /\ promised' = {}
    /\ UNCHANGED <<manifest, saved, overlapped, fetching>>

----------------------------------------------------------------------------
Fetch ==
    \/ FetchStarts
    \/ FetchEnds
    \/ FetchNext
    \/ FetchWriteRow
    \/ FetchAck
    \/ FetchDies

Scan(s) ==
    \/ ScanBegins(s)
    \/ LoadRaises(s)
    \/ HashFile(s)
    \/ ReadFile(s)
    \/ WalkEnds(s)
    \/ AppendRow(s)
    \/ FlushRow(s)

Next ==
    \/ Fetch
    \/ \E f \in Files : CopyByHand(f)
    \/ \E s \in Scanners :
        \/ Scan(s)
        \/ ScanRaises(s)
        \/ SkipFile(s)
    \/ HandScanDies
    \/ Start
    \/ Merge
    \/ MergeRaises
    \/ MergeSaveRaises
    \/ Checkpoint
    \/ Dies

Spec == Init /\ [][Next]_vars

\* The coordinator's container is started again whenever it stops, and its
\* start goes on until the process serves or exits.
StartFairness ==
    /\ WF_vars(Start)
    /\ WF_vars(process = "starting" /\ (Scan("coordinator") \/ Merge \/ MergeRaises))

FairSpec == Spec /\ StartFairness

----------------------------------------------------------------------------
(* Safety. *)

\* What the API is told to have arrived is on disk, all of it: the file is
\* closed before the ack, whenever fetch_corpus or a request dies.
AckedIsOnDisk == \A b \in acked : Complete(b)

\* An interrupted fetch costs at most the batch it was working on: every other
\* batch the API has served (and will never serve again) is complete.
LostBounded ==
    LET working == IF fetch = "write" THEN {cursor} ELSE {} IN
    Cardinality({b \in 1..cursor : ~Complete(b)} \ working) <= fetch_faults

\* One scan at a time lists nothing a second time, whether scans before it
\* were killed, raised, or ended between two files that grew meanwhile.
ListedOnce ==
    ~overlapped =>
        \A j, k \in Readable(manifest) :
            manifest[j].row.id = manifest[k].row.id
            /\ manifest[j].row.path = manifest[k].row.path => j = k

\* When the coordinator has scanned and merged without an error, it has every
\* chunk of every file that was complete when it began: nothing is missed in
\* silence, whatever other scans did to the manifest meanwhile.
NothingMissed ==
    \A f \in promised : \A idx \in 1..(IF f <= NText THEN Len(Content[f]) ELSE 1) :
        ItemId(f, Len(Content[f]), idx) \in table

\* What the coordinator module takes for granted of the manifest: as long as
\* every line parses, nothing that was listed goes away.
ManifestGrows ==
    [][Sound(manifest') => Listed \subseteq {row.id : row \in RowsIn(manifest')}]_vars

\* Whenever the coordinator is down, or starting, it serves again sooner or
\* later, unless the manifest has a line that does not parse.
StartsIfSound == (process # "up") ~> (process = "up" \/ ~Sound(manifest))

----------------------------------------------------------------------------
(* What the repository says and the code does not do. *)

\* README, lines 131 to 133, and scan_inputs.py, lines 3 to 5: content-hash
\* ids, so nothing is listed twice.
IdListedOnce ==
    \A j, k \in Readable(manifest) : manifest[j].row.id = manifest[k].row.id => j = k

\* README, lines 140 to 142: files may be copied at any time, a scan picks up
\* what is new and leaves the rest alone, so a chunk is listed under one id.
ChunkListedOnce ==
    \A p, q \in RowsIn(manifest) :
        p.path = q.path /\ p.id[3] = q.id[3] => p.id = q.id

\* scan_inputs.py, lines 3 to 7: a scan is safe at any time, also one run by
\* hand on the shared volume, so without a fault there is no line in the
\* manifest that another scan, or the merge, raises on.
ScanIsSafe == scan_faults = 0 /\ scan["coordinator"].stage = "merge" => Sound(manifest)

\* coordinator.py, lines 5 to 7: a crash or reboot is followed by a start that
\* resumes.
ComesBack == (process # "up") ~> (process = "up")

\* README, lines 112 to 114: a fetch may be interrupted and started again, it
\* continues where it left off, so in the end every batch served is on disk.
FetchContinues == (cursor = NBatches /\ fetch = "off") => \A b \in 1..NBatches : Complete(b)

============================================================================
