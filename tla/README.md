# Verification of the data-preparation pipeline

TLA+ models, TLC runs and TLAPS proofs for the pipeline that turns a corpus of
text, images and audio into a bilingual dataset: a coordinator hands out work
items over HTTP, about twenty workers generate rows with a local model, and the
rows are merged into a dataset. The models are read off the code in `pipeline/`
and `ollama/`; `PROJECT.json` maps each definition to its lines.

## 1. Inventory

| Component | State | Operations | What is hard | Modelled in |
|---|---|---|---|---|
| Coordinator (`pipeline/coordinator.py`) | `_items` (status, attempts, lease per item), dirty flag, report counter, checkpoint file | `/lease`, `/complete`, `/rescan`, startup, periodic save, SIGTERM | handlers in a thread pool under one lock; crash between checkpoints; saves that raise; leases that expire; reports that come late, twice, or from a former owner | `Coordinator`, start and manifest also in `Corpus` |
| Worker (`pipeline/worker.py`) | batch, current item, shard files, temporary files | readiness gate, lease loop, process, write rows, report | a batch is worked through under one TTL; the report's own failure is reported as the item's; crash between rows and report | `Worker`, `Processing`, `Shards`, gate also in `Bootstrap` |
| Corpus scan (`pipeline/scan_inputs.py`) | `manifest.jsonl` | scan, append | torn append; two scans at once; files that change between hash, read and processing; duplicate files | `Corpus`, reading in `Chunking` |
| Corpus fetch (`pipeline/fetch_corpus.py`) | batch files, the server's cursor | next, write, ack | batch served but not written | `Corpus` |
| Model client (`pipeline/ollama_client.py`) | conversation of one call | health, model check, generate with retries | one retry budget over different kinds of errors; the model is checked at startup only | `Processing`, checks in `Bootstrap` |
| Transcript cache (`pipeline/asr.py`) | one JSON file per recording | read or transcribe and write | shared by workers, torn by a kill | `Processing` |
| Bootstrap (`ollama/*.sh`) | model on the node, ready file | pull, create, retry for ever | lost answers, unread lists, restarts; eventually ready | `Bootstrap` |
| Chunking (`pipeline/chunking.py`) | none | `chunk_text` | sizes at the boundaries; the worker must cut as the scan did | `Chunking` |
| Merge (`pipeline/dedup_merge.py`) | three parquet files, dataset card | load, split, write | torn shard lines; split by rank; files of different merges | `Dataset` |
| Row schema (`pipeline/schema.py`) | none | `validate`, ids | one language of a pair may be dropped | validity only, in `Worker` |
| Publish (`pipeline/push_to_hub.py`) | none | upload | publishes whatever is there | no |
| Configuration, prompts, deployment scripts, images | none at run time | | pure functions and one-shot I/O | no |

Interaction: scan and fetch write files the coordinator reads (`manifest.jsonl`,
the corpus); workers call `/lease`, `/file` and `/complete`, and the model server
on their node; the worker's rows go to its own shard files, which the merge
reads. The only state two threads of one process share is the coordinator's
table, behind `_lock`. Files that two processes use at a time are the manifest
(coordinator and a scan run by hand), the shards (worker and merge) and the
transcripts (workers on one NFS mount).

What makes each part correct:

- coordinator: an item is worked on within its retry budget; a live lease is
  exclusive; the checkpoint plus the manifest restore everything that is not
  dirty; a crash costs a bounded number of reports; no item is lost;
- worker and coordinator together: leases and batches agree; done means the
  output is on disk; every item comes to an end;
- processing: an attempt ends, within its retry budget, with rows of every
  language or an exception, and leaves no temporary file behind;
- scan and fetch: nothing listed twice, nothing listed goes away, nothing missed
  in silence, nothing acknowledged that is not on disk; the coordinator starts;
- merge: every written row once, and the files belong together;
- node: the gate opens, and a ready file can be believed.

The hazards behind these properties are listed, each at its line, under
`hazards` in `PROJECT.json`.

## 2. Modules

| Module | Models |
|---|---|
| `CheckpointedStore` | abstract promise: a table of outcomes, now and then copied whole to disk, resumed from after a stop |
| `Coordinator` | `coordinator.py`: every handler and thread step is one action; refinement mapping to `CheckpointedStore` |
| `Worker` | `worker.py`, `main`: gate, batch, rows, reports, restart |
| `Pipeline` | instances of `Coordinator` and `Worker` that talk HTTP, with timeouts, late requests, crashes on both sides |
| `Attempts` | abstract promise: what the worker loop takes for granted of a processor |
| `Processing` | the processors of `worker.py`, `asr.py` and `ollama_client.py`, step by step; implements `Attempts` |
| `JsonLines` | a file of JSON rows that writers append to in pieces: what parses, what is counted, what two writers make of it |
| `Shards` | `ShardWriter` of `worker.py`: files, rotation, restart, failing writes |
| `Dataset` | `dedup_merge.py` reading an instance of `Shards` that workers go on writing to |
| `Corpus` | `fetch_corpus.py`, `scan_inputs.py`, and the coordinator's start, scan and merge of the manifest |
| `Chunking` | `chunk_text` and `read_text_file`, on a text that grows |
| `Bootstrap` | `entrypoint.sh`, `bootstrap_muse_glimmer.sh` and the worker's gate on one node |
| `CoordinatorProofs`, `PipelineProofs`, `ProcessingProofs`, `BootstrapProofs`, `CorpusProofs`, `ShardsProofs`, `DatasetProofs`, `ChunkingProofs` | theorems about the module each is named for |
| `MCCoordinator`, `MCPipeline`, `MCDataset`, `MCCorpus` | the modules as TLC instantiates them: symmetry sets, contents of files |

### Coordinator

Handlers are synchronous functions that run wholly under `_lock`, so each is one
action. `items` is `_items`; `snapshot` is the checkpoint file (all rows absent:
no file); `os.replace` makes saving atomic. `manifest` is the number of lines of
the manifest: items are numbered in its order, which is also the dictionary's
order that `/lease` follows. `lease_expires_at` is kept as `ttl`, its distance
from now, in memory and in the file; `Tick` ages both, so time passes also while
the process is down. `saver` says whether the periodic thread still runs.
`handed` is a history variable: the items ever leased.

| Action | Code |
|---|---|
| `Lease` | `/lease`: recycle expired leases, lease the first `BatchSize` pending rows, set dirty if any |
| `CompleteUnsaved`, `CompleteSaved`, `CompleteSaveFails` | `/complete`: apply the report whoever sends it and whatever the status was; count; save on every `SaveEvery`th; the save may raise |
| `PeriodicSave`, `PeriodicSaveFails` | one round of `_periodic_save`; an exception ends the thread |
| `Rescan`, `ScanOnly` | `/rescan`: scan, merge, save if rows were added; a scan run by hand or one that raises after its append |
| `Start`, `StartFails` | `_startup`: load, scan, merge, save if rows were added |
| `Sigterm`, `Crash` | save and exit; the process is gone |
| `Tick` | time passes |

An item without a row is answered 404 by `/complete`. `HandedIsTracked` says
this never happens to an item that was leased, so `Report` has no such branch.
What the manifest looks like inside is in `Corpus`; `Coordinator` takes for
granted that nothing listed goes away, and `Corpus!ManifestGrows` says so. Not
modelled: the text of errors, `/file`, `/status`, `/healthz`, and power loss
(nothing is fsynced).

### Worker and Pipeline

A worker's `pc` runs `gate`, `idle`, `generate`, `write`, `post_done` or
`post_failed`. `batch` holds the items left of its lease, taken in item order.
The processors return the rows of all languages or none (audio without speech),
or raise (`Misfire`); rows are then validated and written one by one. `out` says
for an item and a language what became of its row: written to some shard, dropped
as invalid, lost, or none of these; a row that can be read stays, since shards are
only appended to and the merge keeps one row per id. A write that a kill or an
exception cuts off may leave its line unfinished (`torn`, counted by `tears`). The
next row of that worker, also one of the restarted process, then goes on in that
line: its write returns and its item is reported done, but nobody can read it
(`lost`). `ShardLeft` is what a stop does to the shard; it also allows that an
unfinished line is done with, by a rotation or by what was left in the buffer. The
files themselves are in `Shards`. `misfired` is a history variable.

In `Pipeline` a request answered in time is one step of both parties
(`LeaseAnswered`, `ReportAnswered`). A request whose caller stopped waiting (30 s
timeout, killed worker) may still be handled: it becomes a `stray` lease or a
`late` report, handled at any later time in any order, and lost when the
coordinator goes down. An answer lost after the handler ran is a request
abandoned just before it is handled. While the coordinator is down a report is
refused; the worker then does what it does on any exception. Two equal late
reports are kept as one.

### Processing and Attempts

`Worker` takes an attempt at an item for one step. `Processing` has its steps:
`at[w].step` is `fetch` (GET `/file`), `read`, `look_up`, `hear`, `open_cache`,
`fill_cache` (`asr.transcribe`) and `ask` (one request of `generate_item`). The
record has the local variables of `generate_item` (`attempt`, the number of
`messages`) and, as history, how many requests ended, how many met no model, and
how many seconds the loop slept. How long a request takes is left out: the timeout
of `requests` is one for the connection and for each read, so nothing bounds the
whole. `temps` counts the files `tempfile.mkstemp` left on a node, and `TempFiles`
is the set of these files. There is one item of each modality; a recording has
speech or not. The workers have the cache in common, as on an NFS mount.

| Action | Code |
|---|---|
| `Fetches`, `FetchRaises` | `fetch_source_file`: download, then write; a failed write leaves its file |
| `Reads`, `ReadRaises` | read and cut the text, or encode the image; unlink |
| `LooksUp`, `Transcribes`, `OpensCache`, `FillsCache`, `CacheRaises`, ... | `transcribe`, with a kill or a full disk between its steps |
| `Answers`, `AnswersBadly`, `NotFound`, `AskRaises`, `AnswersOddly` | the ways around and out of the loop: JSON, no JSON, 404, any other error, JSON of another shape |
| `Killed` | the worker dies and is started again |

`Attempts` is the promise: an attempt answers language after language, returns
rows only after the last, none only of a silent recording, and may raise or be
killed at any time; it ends. `ImplementsAttempts` is the refinement.

### Shards and Dataset

`Worker` keeps what the shards hold as a table (`out`); `Shards` looks at the
files themselves. A file is the sequence of the rows begun in it, each with how
far it got on disk, so that a row that goes on in a line left unfinished can be
told from one that parses (`JsonLines`). `writer` is the state of the
`ShardWriter`: `down`, `ready`, `writing` (inside `write`), `kept` (a write raised
and the file object still holds the rest of the row), `broken` (the next file
could not be opened). `part_num` is the number of the last file, so it is not a
variable.

| Action | Code |
|---|---|
| `Open` | `__init__`: count the lines of the last file, go on with it or open the next |
| `Begin`, `Finish` | `write`: rotate, write, flush, count |
| `WriteRaises`, `OpenNextRaises` | an `OSError` in `write` or `flush`, or in opening the next file |
| `Kill` | the process dies, also in the middle of a row |
| `MergeBegins`, `ReadShard`, `ReadRaises` | `load_all_rows`: list, read and deduplicate, or raise on a line that does not parse |
| `WriteSplit`, `WriteCard` | the rest of `main` |
| `MergeDies` | the merge is killed or a write of it raises; the file at hand may be torn |

Abstractions: rows are numbered in the order of their hashes (two rows with the
same hash modulo a million are not modelled: the order between them is up to the
sort); a row is its id, so which of two versions of a row is kept is not looked
at; the file object keeps the rest of at most one row; a file is read in one
step (its worker only appends to it). The list of files a merge has still to read
is kept as a set, `todo`, and read in the order of the paths (`IsNext`); `Added`
is the loop over the lines of one file, and `InOrder` the sort by hash, written as
a counting sort.

Two facts came out while writing the module. A worker restarted with a full last
shard opens the next one but keeps the count of the full one, so its first write
opens yet another and leaves an empty file behind; `ShardSizes` allows for it.
After a failed rotation (`broken`) the count is zero and the file closed, so the
process never rotates again and every write raises until it is restarted.

### Corpus

`disk[f]` is how many rows file `f` has so far; a scan may hash it at one length
and read it at another. A content hash is the rows it is the hash of, so an
`item_id` has them in it. `scan[s]` is where the scan of `s` (the coordinator's,
or one run by hand) has got to: `walk`, `read`, `append`, `flush`, and for the
coordinator `merge`, with the ids it knows, the file at hand, and the rows it
has for the manifest: a set, as path and chunk number give their order. A row
reaches the manifest in up to two pieces (`AppendRow`, `FlushRow`), and another
scan's piece may come between them. The coordinator's process is `down`,
`starting` or `up`; `table` and `saved` have the ids in memory and in the
checkpoint, all `Corpus` needs of `Coordinator`'s state.

| Action | Code |
|---|---|
| `FetchStarts`, `FetchNext`, `FetchWriteRow`, `FetchAck`, `FetchEnds`, `FetchDies` | `fetch`: ask for a batch, write its file, acknowledge it; die anywhere, with the request handled or not |
| `CopyByHand` | external: somebody copies a file |
| `ScanBegins`, `LoadRaises` | `load_seen_ids` and the listing of the directories |
| `HashFile`, `ReadFile`, `SkipFile` | `sha256_file`, `read_text_file` and `chunk_text`, or the warning |
| `WalkEnds`, `AppendRow`, `FlushRow`, `ScanRaises`, `HandScanDies` | the append, and what ends it early |
| `Start`, `Merge`, `MergeRaises`, `MergeSaveRaises`, `Checkpoint`, `Dies` | `_startup`, `_merge_manifest_locked` and the save after it, either of which may raise: a start then ends the process, a `/rescan` leaves what was added in the table; a save, a kill |

A text has one chunk per row here; how text becomes chunks is `Chunking`'s. The
API of the corpus is not in the repository: it serves each batch once, in order,
as README.md describes it.

### Chunking

A text is the sequence of its paragraphs' lengths, a chunk the paragraphs it was
joined from. `Take` is a turn of the loop of `chunk_text`, `Loop` the whole of it
and `Close` its tail; `Cuts`
defines the same without a loop. `jsonl` says which branch of `read_text_file`
applies: there a line that does not parse yet counts as it is, one paragraph. When
it is whole (`LineEnds`), the paragraphs of the row's text take its place: any
number of them, of any lengths that are together at least `WRAPPING` characters
shorter than the line (the JSON around the text; escapes shrink further, and the
lengths leave that open), or none if the text is blank. A row without text is
written anew as JSON, and a line that never parses stays: one paragraph of any
length. A line that is JSON but not an object makes `read_text_file` raise; in
`Corpus` that is a file that cannot be read (`SkipFile`).

### Bootstrap

`boot` is where the two scripts are (`remove`, `wait`, `tag`, `base`, `pull`,
`create`, `mark`, `sleep`, `end`; `down` with the container), `attempt` the counter of
`post_with_retry`, `tag` the model the workers ask for: none, built, or built by
hand. Somebody may build it by hand at any time (`BuiltByHand`, external), also
between the script's look at the list of models and its create; `unseen` is a
history variable that says so. A POST that is answered with an error may have been
done. `gate` is the
worker on the same node: `health`, `model`, then `idle` and `work`. The two share no
file: the ready file is for the container's health check only. A model is known
by one name everywhere; whether the server's list adds a `:latest` that neither
comparison expects is a matter of the server, which is not in the repository.

## 3. Runs

| Run | Question | Bounds |
|---|---|---|
| `coordinator` | do the table, the checkpoint and the flags stay consistent under any order of handlers, failing saves, crashes and restarts; does it implement `CheckpointedStore` | 2 workers, 2 items, TTL 1, 2 retries, batch 1, save every 3 |
| `slow_workers` | without crashes and timeouts, but with leases that run out at any time: do leases and batches agree | 2 workers, 2 items, 2 languages, batch 2, TTL 1 |
| `faults` | with crashes, stops, timeouts and unfinished lines: does done imply output | 2 workers, 1 item, 2 languages, 2 faults, 2 unfinished lines |
| `live` | does every item come to an end | 2 workers, 1 item, 2 faults |
| `merge` | do shards keep their sizes and rows through kills and failing writes; is what a finished merge publishes complete and free of duplicates | 1 worker that begins 3 rows, 2 row ids, 2 rows per shard, 2 faults, splits of 1 row and 1 row in 2 |
| `corpus` | does fetching lose only what it must; does one scan at a time list everything once; does the coordinator come back | 2 batches of 1 and 2 rows, 2 faults |
| `two_scans` | the same manifest with a scan run by hand beside the coordinator's | a file of 1 row, 3 faults |
| `chunking` | is the loop the greedy cut; what of it stays when the text grows | up to 5 paragraphs of 1 to 8 characters, MIN 3, MAX 4, at least 1 character of JSON |
| `attempts` | does an attempt end within its budgets, as the worker loop expects; is a shared transcript made once per worker | 2 workers, a text and a recording, 2 languages, 2 retries, 1 fault |
| `node` | does the gate open; can the ready file be believed; is a hand-built model kept | 2 attempts of a POST, 2 faults, the model may be removed or built by hand |
| `merge_raises` | violation, see section 5 | 1 row, no fault |
| `torn_manifest` | violation, see section 5 | 1 file of 2 rows, 1 fault |

Why these bounds show the interesting cases. Two workers give a former and a
present owner of an item; two items with batch 1 give a choice of which to
lease, with batch 2 a batch with an item still waiting; two retries separate the
first failure from the last; saving on every second or third report leaves
reports between checkpoints. With `LEASE_TTL` 0 one tick expires a lease, with 1
two do; only the order of expiry and reports matters to the properties.
`MaxAttempts`, `MaxCompleted` and `MaxFaults` bound counters in the guards. In
the pipeline runs `MaxAttempts` and `MaxCompleted` are larger than what any
behaviour reaches: dead items are not leased again, so only reports still under
way add attempts, and a counter that is saved stays below `SaveEvery`. Workers
are symmetric in the runs that check safety only.

In `merge` three rows fill one shard of two and begin the next, two ids give
duplicates within and across files, and two faults a failing write and a kill;
one directory is enough, as the merge reads the files of several workers like
several files of one. `SHARE` is 10 in the code; with 2, two or three rows fill
all splits.

In `corpus` a file of two rows can grow between its hash and its reading, between
two scans, and between served and acknowledged, while the batch before it was
acknowledged or lost. Two faults interrupt the fetching of both batches, or one and
then a scan, a merge or a save. Images are in no run: they differ from a text in
having one piece for the whole file, and the theorems, which hold for any files of
either kind, cover them. In `two_scans` two writers of one row each already mix
their lines in every way `JsonLines` tells apart (a part, a text without its
newline, the rest after another row), and three faults kill one scan, then the
other.

In `chunking` paragraphs of one to eight characters are shorter than, between and
longer than MIN and MAX, alone and with the two characters that join them; five
of them make up to five chunks and a short tail. A line of eight characters becomes
a row of none to three paragraphs of one character or one of any length, so that a
line that becomes whole costs no chunk, one, or the two chunks `EarlierChunksStay`
allows for. In `attempts` an image would
take the same steps as a text; with two retries every two kinds of errors follow
each other, and what the retry budget bounds is proved for every budget. In
`node` two attempts tell the last from the one before.

In `faults` two unfinished lines are one of each worker, or two of one; with two
languages the next row of the same item may go on in the line the one before left,
and the item is done with a row lost.

CHECK_DEADLOCK is off in `chunking`, as a text of the longest length is complete.

### Properties

- `RetryBudget`: pending and leased rows have failed less often than the budget,
  dead rows at least as often, in memory and on disk, in spite of late and
  repeated reports.
- `HandedIsTracked`: a worker that outlives a coordinator crash never reports an
  unknown item, because the manifest is written before the lease.
- `CleanMeansRecoverable`: with the dirty flag down, checkpoint and manifest give
  back every row. It rests on two facts that are easy to break: `/rescan` leaves
  the flag alone when its save raises (the manifest makes up for it), and
  `/lease` sets the flag only if it hands something out (a lease that recycles a
  row always hands something out).
- `BoundedLoss`: the items whose reports a crash takes back are at most
  `completed_since_save`, and fewer than `SaveEvery` where saves do not fail.
- `LiveLeaseKept`: no step moves an item to another worker while its lease runs.
- `ImplementsStore`: refinement of `CheckpointedStore`.
- `LeaseAgreement`, `NoOrphanLease`, `DoneIsFinal`: what holds between leases and
  batches until something fails (and, for two of them, until a lease runs out).
- `DoneHasOutput`: done, in memory or on disk, implies that the write of every
  language's row returned, or the row was dropped as invalid; and no more of these
  rows are lost than writes were cut off in a line. (Not none: see `DamageBounded`.)
- `EventuallySettled`: every item comes to an end, though leases nobody holds are
  only recycled by somebody's request, and late and double reports reopen items.
- `ShardSizes`: no shard outgrows `rows_per_shard_file`, and none is left before
  it is full, but for a line per fault.
- `DamageBounded`: a kill or a failing write costs at most one row whose write
  returned. (Not zero: the row after the torn one shares its line.)
- `DatasetComplete`, `RowsOnce`: a merge that finishes has every row that could
  be read when it began, once, whatever earlier merges left behind.
- `AckedIsOnDisk`, `LostBounded`: what was acknowledged is on disk to its end; an
  interruption costs the batch at hand and no other.
- `ListedOnce`: of one file, one scan at a time lists a chunk once, whichever way
  earlier scans ended.
- `NothingMissed`: a scan and merge of the coordinator that raise nothing have
  every chunk of every file that was complete when they began, whatever a scan by
  hand did to the manifest meanwhile. (A mangled line makes them raise.)
- `ManifestGrows`: nothing listed goes away while the manifest parses, which is
  what `Coordinator` builds on.
- `StartsIfSound`: the coordinator serves again, unless a line does not parse.
- `CutsAreGreedy`, `SizeBounded`, `EarlierChunksStay`: the loop does what its
  definition without a loop does; only the last chunk may be longer than MAX, by
  a short tail; what a scan listed of a plain text is still there, and the same,
  when the worker cuts the grown text, but for the last chunk; a line of a .jsonl
  file that becomes whole, a row of however many paragraphs, costs two chunks, no
  more: the one it was, and one it kept from being a short tail.
- `FreshConversation`, `NotGivenUpEarly`, `RetriesBounded`: no conversation is
  carried into the next language; whoever gives up has made its requests,
  whichever errors came in which order; and a generation is over after `max_retries`
  requests and sleeps no longer than the growing pauses between them, 15 s with
  `pipeline.yaml`'s values. (With `max_retries` at 1 a missing model is followed by
  a pause all the same.) Nothing bounds the time of the requests themselves, so
  nothing is said of it; that a lease runs out while its worker is at work is a step
  that is always possible in the pipeline runs.
- `TempsBounded`: temporary files that stay are those of kills and of downloads
  that could not be written.
- `TranscribedOnce`: each worker transcribes a recording at most once, but for
  kills and full disks.
- `AttemptEnds`, `ImplementsAttempts`: liveness, and the refinement.
- `ReadyIsTrue`, `HandBuiltKept`, `GateOpens`: a ready file stands for a model
  unless somebody removed it; a hand-built model stays if it was there when the
  script looked for it and the list could be read, whatever fails, is repeated or is
  cut short after that (one built later, during the pull, is replaced: `clobbered`);
  the worker comes to lease.

Each property of a passing run has a seeded fault (the operators commented
"Fault:") that breaks it.

### Fairness

`live` assumes weak fairness of: each worker's loop (it has no unbounded wait but
the gate, and the bootstrap retries for ever); handling of requests, late ones
included (thread pool, one lock, every handler ends); restart of the coordinator
(`--restart=always`); the periodic thread (a daemon thread with a 30 s sleep);
time. Nothing is assumed of scans, crashes, timeouts or failures. Saves do not
fail in this run; with `SaveMayFail` one that does ends the thread (section 5).
Crashes and timeouts are finitely many: with infinitely many no item need ever be
finished.

`corpus` assumes weak fairness of the coordinator's start and of the scan and
merge inside it, and nothing of fetching, copying or scans by hand. `attempts`
assumes it of each worker's steps: every call has a timeout or computes, and none
of the ways around the retry loop is preferred. `node` assumes it of restarts, of
the scripts and of the worker's polling; and strong fairness of the server
answering, of the pull and of the create, as these are tried again and again and
may fail each time: that they do not fail for ever is what "transient" means, and
it is what the scripts' retrying is for.

## 4. Proofs

### CoordinatorProofs

For all values of the constants, under `CoordinatorAssumption` (sizes are
naturals, batch, retries and `SaveEvery` at least 1, no worker is called `None`):

- `TypeCorrect`;
- `RetryBudgetHolds`: every operator on tables keeps the budget (one lemma each),
  and every action applies one of them or copies a table;
- `HandedIsTrackedAlways`: not inductive alone, since a start rebuilds the table
  from checkpoint and manifest. Strengthened by `OnlyListed`: table, checkpoint
  and leased items are all in the manifest;
- `CleanMeansRecoverableAlways`: strengthened by `DownIsEmpty` (a process that is
  down has no table and no flag) and `SavedIsTracked` (the checkpoint knows no
  item the running process does not know; otherwise a rescan could give such an
  item a fresh row while the file holds another). The step of `/lease` needs that
  a nonempty set of pending rows has a first one, which is derived from the
  well-foundedness of strict inclusion on finite sets;
- `BoundedLossAlways`: cardinality of the set of unsaved items;
- `LiveLeaseKeptAlways`;
- `CoordinatorImplementsStore`: initial states and steps map to
  `CheckpointedStore`; leasing, recycling, time and failing saves are stutters.

### PipelineProofs

For any number of workers, items, languages and faults:

- `PipelineRunsCoordinator`: `Spec => C!Spec`, so whatever workers and network do,
  the coordinator takes only steps of `Coordinator`, and what is proved of that one
  holds here; `BoundedLossAlways` is the example;
- `TypeCorrect`, of table, batches and network together;
- `DoneHasOutputAlways`. "Done" is not inductive alone, since the report
  travels: `OutputInv` says of the table, the checkpoint, a worker about to post,
  and every late report that *if* it says done the rows were written or dropped. It
  is kept because that is never undone and only `PostDone` makes such a report. The
  rows that are lost are counted beside it: a line is left unfinished by a write
  that was cut off, and swallows one row at most (`Cardinality(Lost) +
  Cardinality(torn) <= tears`);
- `NoOrphanLeaseAlways`, `LeaseAgreementAlways`, `DoneIsFinalAlways`: from
  `Undisturbed`, which adds to the two invariants that without a fault no request
  is under way outside its step and the coordinator was never down.

### ProcessingProofs

For any number of workers, languages, retries, pauses and faults:

- `FreshConversationAlways`, `NotGivenUpEarlyAlways`, `NudgedOnceAlways`,
  `RetriesBoundedAlways`: from `GoodInv`, with `InLoop` for a worker that is asking:
  so many requests ended as attempts were begun, at most one of them without a
  model and then not the first attempt any more, and the pauses no longer than those
  after the attempts so far. The pauses grow with the attempt, so the bound is a
  square; its arithmetic is in the lemmas `Monotone`, `BoundsAre`, `AnotherPause`
  and `AnotherBound`. A retry budget of one is a case of its own;
- `TypeCorrect`;
- `TempsBoundedAlways`, for any finite set of workers: the files there are and the
  attempts that hold one are counted step by step, as sets of pairs. Not inductive
  alone: a step that unlinks a file must know that there is one (`Held`);
- `TranscribedOnceAlways`, for any finite set of workers on one cache. While there
  is no transcript, every transcription belongs to a fault or to a worker about to
  write it; once the file is there, only workers that looked before still
  transcribe, and they are no more than there are workers. The step counts who is
  where with the cardinality theorems;
- `ProcessingImplementsAttempts`: every step moves one worker's record in one of
  six ways (`Move`), each of which is a step or a stutter of `Attempts`. This is the
  safety part; that attempts end stays with TLC.

### BootstrapProofs

For any number of attempts and faults: `TypeCorrect`; `ReadyCorrect`, strengthened
by what the script knows before it writes the file; `HandBuiltCorrect`, strengthened
by what the script knows of a model built by hand before it creates its own: there is
none, or it was unseen.

### CorpusProofs

For any files of any length, any scanners, and any number of faults:

- `AckedIsOnDiskAlways`: from `FilesInv`. Only served batches are acknowledged,
  later ones are not on disk yet, and a complete file stays complete;
- `LostBoundedAlways`: a set of lost batches to which each death of `fetch` adds
  at most one, by the cardinality theorems;
- `TypeCorrect`;
- `ManifestGrowsAlways`: the pieces of the manifest are only added to or completed,
  so the rows begun in it only become more; where every line parses, these are the
  rows it lists;
- `NothingMissedAlways`: not inductive alone, since the scan takes many steps. For a
  file that was complete when the scan began, `DueInv` follows it: it is still to be
  hashed, or being read with its whole length, or each of its ids is among those the
  scan knew, those it will append, or those begun in the manifest. When
  the merge raises nothing, what was begun is listed, and so in the table;
- `ListedOnceAlways`: a scan begins only if every line parses, so it knows all
  that is listed; while it is alone, none of its rows is in the manifest (`OnceInv`).

That the coordinator comes back (`StartsIfSound`) is liveness and stays with TLC.

### ShardsProofs and DatasetProofs

For any number of workers and rows, shards of any positive size and any number of
faults (`Sizes`, which `DatasetAssumption` gives):

- `TypeCorrect`: among the rest, a row is under way only in a file that is not full;
- `ShardSizesAlways`: the count of a writer is not the number of lines, because a
  failing write does not count what the buffer still holds and a restart counts a
  line that is then continued. `Counted` says how far the two may be apart: the
  rows ended in the last file are at most the count plus the writes that raised, and
  the count is at most those rows plus all faults, except for a writer that found
  its last file full and has the next one, empty;
- `DamageBoundedAlways`: `Cut` is the set of places of rows that were left
  unfinished for good. A fault adds at most one place, no other step adds any,
  and a row that is lost stands next to such a place.

- `RowsAlwaysStay`: what a `ShardWriter`'s comment promises, that a restarted
  worker does not clobber its own earlier output: no step takes a file or a row
  begun in it away, or moves it. A step only adds a file, a row, or the rest of a
  row. The merge's proof rests on it.

`DatasetProofs` shows that a behaviour of `Dataset` is one of `Shards`, so all of
this holds while merges read the files. Then, under `DatasetAssumption`:

- `TypeCorrect`;
- `DatasetCompleteAlways`, `RowsOnceAlways`: from `MergeInv`. A merge takes one step
  per file while workers go on writing, so the rows stored when it began have to be
  followed: each is among those it has read, or in a file still to be read
  (`NoneMissed`; this is where `RowsStay` is needed). What it has read has no row
  twice (`MergeTypes`), and a split already written is the one these rows give
  (`Written`): a merge that died earlier leaves others behind, but a finished one has
  written all three. The rest is about the operators: `AddedRows` (the loop over the
  lines of a file adds what is there, and nothing twice), `Ordered` (the counting
  sort permutes) and `SplitRows` (the three segments have every row between them,
  once).

### ChunkingProofs

For texts of any number of paragraphs of any lengths, and all settings with
`0 < MIN <= MAX`:

- `SizeBoundedAlways`: after every turn of the loop, the chunks and the buffer are
  single paragraphs or no longer than MAX (`States`); `Close` joins only a tail
  shorter than MIN, to the last chunk only;
- `EarlierChunksStayAlways`: a step adds a last paragraph, makes the last one longer,
  or puts the paragraphs of a row in its place (`TextMoves`), so both texts are turns
  of the loop away from the same state. `TurnCloses` says how many chunks a turn and
  the tail leave, depending on the length of the paragraph, and which are those
  before; the first two ways of growing are then a comparison each (`OneMore`,
  `Longer`). Of a row of any number of paragraphs it is enough that turns leave the
  chunks that are done alone (`Kept`, `TurnLeaves`, and `LoopLeaves` by induction)
  and that the tail touches the last one only (`Replaced`).

- `CutsAreGreedyAlways`: the definition without a loop chooses the set of beginnings
  that satisfies an equation, so first such a set has to exist (`BeginsAreCuts`, by
  recursion). Then the loop is followed paragraph by paragraph: chunks and buffer
  together are the pieces between the beginnings up to there (`Marks`), and a chunk
  closed before its time has MAX characters already, so the next paragraph would
  have begun another one anyway (`Cutting`). At the end the tail is a piece or is
  joined to the one before it, as `Cuts` says (`CutTail`).

The attempt to prove `EarlierChunksStay` showed that it had been stated too strongly,
with one chunk where a line that becomes whole can cost two: the line itself, and a
chunk before it that is then a short tail and joins the one before. The run has
bounds at which both happen.

What a loop computes is a function defined by recursion on an interval. That such a
function exists is not taken for granted: `Climb` derives induction up to a number
from the well-foundedness of strict inclusion on finite sets, and `Recursion` the
function from `Climb`, in `DatasetProofs` as in `ChunkingProofs`.

### Only model-checked

Liveness (`EventuallySettled`, `StartsIfSound`, `AttemptEnds`,
`GateOpens`, and the liveness in `ImplementsAttempts`), which is out of the prover's
reach. Every invariant and every action property of a passing run is proved.

## 5. Where code and documentation disagree

Two disagreements are among the runs:

- A merge ends with an exception when a worker is in the middle of a row
  (`merge_raises`), though `dedup_merge.py` says it is safe while workers run.
- A kill in the middle of the append to the manifest keeps the coordinator from
  ever starting again (`torn_manifest`): at start the scan's exception is caught and
  the merge's is not. `coordinator.py` says a crash resumes exactly where it
  stopped.

The others came up while modelling. Each is stated as a property in its module,
under "What the repository says and the code does not do" or beside the property
it weakens, and has a configuration that gives the counterexample
(`tlc -config <name>.cfg <module>`):

| Configuration, module | The code | The repository says |
|---|---|---|
| `crash_loses_progress`, `MCCoordinator` | a crash takes back answered reports; `BoundedLoss` says how many | `coordinator.py`: resumes exactly where it stopped |
| `saver_dies`, `MCCoordinator` | one failing checkpoint ends the periodic saves | README: saved every 30 s |
| `dead_without_failure`, `MCPipeline` | the timeout of the report "done" is reported as a failure of the item, so an item that never failed can be dead-lettered | `pipeline.yaml`: after this many failures |
| `language_missing`, `MCPipeline` | an item can be done with a row in one language only | `pipeline.yaml`: emitted once per language |
| `split_moves`, `MCDataset` | a later merge moves rows between the splits | `deterministic_split`: never reshuffles |
| `stale_card`, `MCDataset` | the card keeps the counts of the first merge | the card |
| `same_content`, `MCCorpus` | two files with the same content give one id twice in one scan | README: never duplicates an entry |
| `half_copied`, `MCCorpus` | a file scanned while it is copied is listed again when it is whole | README: picks up what is new and touches nothing else |
| `scan_by_hand`, `MCCorpus` | a scan by hand leaves half a line where the coordinator reads | `scan_inputs.py`: safe at any time, also run by hand |
| `interrupted_fetch`, `MCCorpus` | a batch served and not written is never served again | README: an interrupted fetch continues where it left off |
| `half_line`, `Chunking` | the last line of a .jsonl file that is being written is shorter when it is whole, so a listed chunk may not be there | `worker.py`: chunk boundaries line up |
| `torn_transcript`, `Processing` | a kill leaves a transcript every later attempt raises on | `asr.py`: transcribed once and cached |
| `no_nudge`, `Processing` | after another error the first 404 fails the item | `ollama_client.py`: one quick nudge |
| `clobbered`, `Bootstrap` | a model built by hand during the pull, or one that a list that cannot be read does not show, is built over | the script: never clobbered |
| `broken_node`, `Bootstrap` | a node whose server goes away after the gate goes on leasing | `worker.py`: a broken node never leases |
| `healthy_without_model`, `Bootstrap` | a node whose model was removed looks healthy | `entrypoint.sh`: visibly unhealthy |

## 6. Not modelled

- Configuration and prompts: pure functions of files, environment and strings,
  read once; their values are the constants of the modules.
- The row schema beyond validity: which fields make a row valid is data that no
  property tells apart.
- Publishing: one upload of a directory, with no state of its own. That the
  directory may be one of a merge that stopped half way is a state of `Dataset`.
- Deployment scripts and images: one-shot commands; container restart appears in
  the restart actions and in fairness.
- An item that kills its worker at every attempt: recycling an expired lease does
  not count as an attempt, so it is handed out for ever. Faults are finitely many
  in every run, so no run reaches it.
- Power loss, and clocks of different machines: the coordinator's is the only
  clock that leases depend on.

What was planned is built: coordinator, pipeline, shards and dataset first, then
corpus, processing, bootstrap and chunking, with proofs wherever an inductive
invariant carries the argument.
