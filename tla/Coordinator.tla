---------------------------- MODULE Coordinator ----------------------------
(***************************************************************************)
(* The work-queue coordinator (src/pipeline/coordinator.py).               *)
(*                                                                         *)
(* One process keeps the table _items in memory, one row per item of the   *)
(* manifest.  Every handler runs wholly under one lock, so each of them is *)
(* one action here.  The process may be killed at any moment, restarted,   *)
(* or stopped with SIGTERM; the checkpoint file and the manifest survive.  *)
(*                                                                         *)
(* Items are numbered in manifest order, which is also the insertion order *)
(* of the dictionary that /lease iterates: merging appends in manifest     *)
(* order and JSON keeps the order of the keys.                             *)
(*                                                                         *)
(* lease_expires_at is kept as the time it is away from now (ttl), which   *)
(* Tick decreases; lease_expires_at < now is ttl < 0.  A lease that ran    *)
(* out and a row with no lease both have ttl = -1.                         *)
(***************************************************************************)
EXTENDS Integers, FiniteSets

CONSTANTS
    Workers,            \* the worker ids that call the coordinator
    NoOwner,            \* lease_owner = None
    NItems,             \* how many items the corpus will ever yield
    LEASE_TTL,          \* leasing.lease_ttl_s, in ticks
    MAX_ITEM_RETRIES,   \* leasing.max_item_retries
    BatchSize,          \* the n of GET /lease, leasing.batch_size
    SaveEvery,          \* completions between two counted checkpoints (200)
    SaveMayFail,        \* whether writing the checkpoint can raise OSError
    MaxAttempts,        \* bound: failure reports of one item
    MaxCompleted        \* bound: reports since the last counted checkpoint

ASSUME CoordinatorAssumption ==
    /\ NoOwner \notin Workers
    /\ NItems \in Nat
    /\ LEASE_TTL \in Nat
    /\ MAX_ITEM_RETRIES \in Nat \ {0}
    /\ BatchSize \in Nat \ {0}
    /\ SaveEvery \in Nat \ {0}
    /\ SaveMayFail \in BOOLEAN
    /\ MaxAttempts \in Nat
    /\ MaxCompleted \in Nat

VARIABLES
    up,                   \* the process has finished _startup and serves
    items,                \* _items: the table in memory
    dirty,                \* _dirty_flag
    completed_since_save, \* _completed_since_save
    saver,                \* the _periodic_save thread is alive
    snapshot,             \* coordinator_state.json
    manifest,             \* how many items manifest.jsonl lists
    handed                \* history: the items some /lease has handed out

vars == <<up, items, dirty, completed_since_save, saver, snapshot, manifest,
          handed>>

ItemIds == 1..NItems

Status == {"absent", "pending", "leased", "done", "dead"}

Row == [status : Status,
        attempts : 0..MaxAttempts,
        lease_owner : Workers \cup {NoOwner},
        ttl : -1..LEASE_TTL]

Unleased(status, attempts) ==
    [status |-> status, attempts |-> attempts, lease_owner |-> NoOwner, ttl |-> -1]

\* No row for the item: it is not a key of the dictionary.
Absent == Unleased("absent", 0)

\* The row the merge of the manifest creates.
Fresh == Unleased("pending", 0)

\* The table of a process that has not loaded one, and a missing file.
NoRows == [i \in ItemIds |-> Absent]

TypeOK ==
    /\ up \in BOOLEAN
    /\ items \in [ItemIds -> Row]
    /\ dirty \in BOOLEAN
    /\ completed_since_save \in 0..MaxCompleted
    /\ saver \in BOOLEAN
    /\ snapshot \in [ItemIds -> Row]
    /\ manifest \in 0..NItems
    /\ handed \subseteq ItemIds

----------------------------------------------------------------------------
(* What the handlers do to a table of rows. *)

Tracked(rows) == {i \in ItemIds : rows[i].status # "absent"}

Pending(rows) == {i \in ItemIds : rows[i].status = "pending"}

\* Fault: the merge resets the rows there are.
MergeResetting(rows, listed) ==
    [i \in ItemIds |-> IF i <= listed THEN Fresh ELSE rows[i]]

\* _merge_manifest_locked: rows for the listed items that have none.
Merge(rows, listed) ==
    [i \in ItemIds |->
        IF rows[i].status = "absent" /\ i <= listed THEN Fresh ELSE rows[i]]

\* Fault: every lease is recycled, expired or not.
ReapedEarly(rows) ==
    [i \in ItemIds |->
        IF rows[i].status = "leased" THEN Unleased("pending", rows[i].attempts)
        ELSE rows[i]]

\* Fault: no lease is ever recycled.
ReapedNever(rows) == rows

\* _reap_expired_locked: an expired lease becomes pending; attempts stay.
Reaped(rows) ==
    [i \in ItemIds |->
        IF rows[i].status = "leased" /\ rows[i].ttl < 0
        THEN Unleased("pending", rows[i].attempts)
        ELSE rows[i]]

\* Fault: leased rows are offered too.
FirstOpen(rows, n) ==
    LET open == {i \in ItemIds : rows[i].status \in {"pending", "leased"}}
    IN  {i \in open : Cardinality({j \in open : j <= i}) <= n}

\* The first n pending rows in the order of the dictionary.
FirstPending(rows, n) ==
    {i \in Pending(rows) : Cardinality({j \in Pending(rows) : j <= i}) <= n}

LeaseOut(rows, out, w) ==
    [i \in ItemIds |->
        IF i \in out
        THEN [status |-> "leased", attempts |-> rows[i].attempts,
              lease_owner |-> w, ttl |-> LEASE_TTL]
        ELSE rows[i]]

\* Fault: one failure more than the budget.
ReportedOffByOne(row, st) ==
    IF st = "done"
    THEN Unleased("done", row.attempts)
    ELSE Unleased(IF row.attempts + 1 > MAX_ITEM_RETRIES THEN "dead" ELSE "pending",
                  row.attempts + 1)

\* The row after a report: the report's worker_id is not looked at, nor is
\* the status the row had.
Reported(row, st) ==
    IF st = "done"
    THEN Unleased("done", row.attempts)
    ELSE Unleased(IF row.attempts + 1 >= MAX_ITEM_RETRIES THEN "dead" ELSE "pending",
                  row.attempts + 1)

\* Fault: also what has run out, or is no lease, goes on ageing.
AgedForever(rows) == [i \in ItemIds |-> [rows[i] EXCEPT !.ttl = @ - 1]]

\* One unit of time goes by.
Aged(rows) ==
    [i \in ItemIds |->
        IF rows[i].ttl >= 0 THEN [rows[i] EXCEPT !.ttl = @ - 1] ELSE rows[i]]

----------------------------------------------------------------------------
Init ==
    /\ up = FALSE
    /\ items = NoRows
    /\ dirty = FALSE
    /\ completed_since_save = 0
    /\ saver = FALSE
    /\ snapshot = NoRows
    /\ manifest = 0
    /\ handed = {}

\* Fault: leasing does not set the dirty flag.
LeaseStaysClean(w) ==
    /\ up
    /\ LET rows == Reaped(items)
           out  == FirstPending(rows, BatchSize)
       IN  /\ items' = LeaseOut(rows, out, w)
           /\ handed' = handed \cup out
    /\ UNCHANGED <<up, dirty, completed_since_save, saver, snapshot, manifest>>

\* GET /lease: expired leases are recycled, then the first BatchSize pending
\* rows are leased to w.
Lease(w) ==
    /\ up
    /\ LET rows == Reaped(items)
           out  == FirstPending(rows, BatchSize)
       IN  /\ items' = LeaseOut(rows, out, w)
           /\ dirty' = (dirty \/ out # {})
           /\ handed' = handed \cup out
    /\ UNCHANGED <<up, completed_since_save, saver, snapshot, manifest>>

\* What both ways through POST /complete do.  An item without a row is
\* answered 404 and changes nothing; only a handed out item is reported.
Report(i, st) ==
    /\ up
    /\ i \in handed
    /\ items[i].status # "absent"
    /\ st = "failed" => items[i].attempts < MaxAttempts
    /\ completed_since_save < MaxCompleted
    /\ items' = [items EXCEPT ![i] = Reported(@, st)]
    /\ UNCHANGED <<up, saver, manifest, handed>>

\* POST /complete, fewer than SaveEvery reports since the last counted save.
CompleteUnsaved(i, st) ==
    /\ Report(i, st)
    /\ completed_since_save + 1 < SaveEvery
    /\ completed_since_save' = completed_since_save + 1
    /\ dirty' = TRUE
    /\ UNCHANGED snapshot

\* POST /complete that saves the checkpoint.
CompleteSaved(i, st) ==
    /\ Report(i, st)
    /\ completed_since_save + 1 >= SaveEvery
    /\ snapshot' = items'
    /\ completed_since_save' = 0
    /\ dirty' = FALSE

\* Fault: the counter is reset before the save that raises.
CompleteResetsFirst(i, st) ==
    /\ SaveMayFail
    /\ Report(i, st)
    /\ completed_since_save + 1 >= SaveEvery
    /\ completed_since_save' = 0
    /\ dirty' = TRUE
    /\ UNCHANGED snapshot

\* POST /complete whose save raises: the row has changed, the counter keeps
\* its value and the client is answered 500.
CompleteSaveFails(i, st) ==
    /\ SaveMayFail
    /\ Report(i, st)
    /\ completed_since_save + 1 >= SaveEvery
    /\ completed_since_save' = completed_since_save + 1
    /\ dirty' = TRUE
    /\ UNCHANGED snapshot

Complete(i, st) ==
    \/ CompleteUnsaved(i, st)
    \/ CompleteSaved(i, st)
    \/ CompleteSaveFails(i, st)

\* The periodic thread finds the table dirty and saves it.
PeriodicSave ==
    /\ up
    /\ saver
    /\ dirty
    /\ snapshot' = items
    /\ dirty' = FALSE
    /\ UNCHANGED <<up, items, completed_since_save, saver, manifest, handed>>

\* The save raises: nothing catches it, so the thread ends.
PeriodicSaveFails ==
    /\ SaveMayFail
    /\ up
    /\ saver
    /\ dirty
    /\ saver' = FALSE
    /\ UNCHANGED <<up, items, dirty, completed_since_save, snapshot, manifest,
                   handed>>

\* POST /rescan: scan, merge, and save if a row was added.  The dirty flag is
\* neither set nor reset, and the save may raise after the rows were added.
Rescan ==
    /\ up
    /\ \E listed \in manifest..NItems :
        /\ manifest' = listed
        /\ items' = Merge(items, listed)
    /\ \/ snapshot' = IF items' # items THEN items' ELSE snapshot
       \/ SaveMayFail /\ items' # items /\ snapshot' = snapshot
    /\ UNCHANGED <<up, dirty, completed_since_save, saver, handed>>

\* The scan appended to the manifest and the merge did not follow: the scan
\* was run by hand, or raised half way through /rescan.
ScanOnly ==
    /\ manifest < NItems
    /\ \E listed \in (manifest + 1)..NItems : manifest' = listed
    /\ UNCHANGED <<up, items, dirty, completed_since_save, saver, snapshot, handed>>

\* The memory of the process is gone.
Forget ==
    /\ up' = FALSE
    /\ items' = NoRows
    /\ dirty' = FALSE
    /\ completed_since_save' = 0
    /\ saver' = FALSE

\* SIGKILL, OOM, docker rm -f, node reboot.
Crash ==
    /\ up
    /\ Forget
    /\ UNCHANGED <<snapshot, manifest, handed>>

\* SIGTERM: the handler saves, then exits.  If the save raises, what is left
\* is what Crash leaves.
Sigterm ==
    /\ up
    /\ snapshot' = items
    /\ Forget
    /\ UNCHANGED <<manifest, handed>>

\* Fault: a start with a checkpoint does not look at the manifest.
StartWithoutMerge ==
    /\ ~up
    /\ items' = snapshot
    /\ up' = TRUE
    /\ saver' = TRUE
    /\ UNCHANGED <<dirty, completed_since_save, snapshot, manifest, handed>>

\* _startup: load the checkpoint, scan, merge, save if a row was added.
Start ==
    /\ ~up
    /\ \E listed \in manifest..NItems :
        /\ manifest' = listed
        /\ items' = Merge(snapshot, listed)
        /\ snapshot' = IF items' # snapshot THEN items' ELSE snapshot
    /\ up' = TRUE
    /\ saver' = TRUE
    /\ UNCHANGED <<dirty, completed_since_save, handed>>

\* _startup whose save raises: the process exits with its manifest grown.
StartFails ==
    /\ SaveMayFail
    /\ ~up
    /\ \E listed \in manifest..NItems :
        /\ Merge(snapshot, listed) # snapshot
        /\ manifest' = listed
    /\ UNCHANGED <<up, items, dirty, completed_since_save, saver, snapshot, handed>>

\* Time passes for the leases in memory and in the file.
Tick ==
    /\ \E i \in ItemIds : items[i].ttl >= 0 \/ snapshot[i].ttl >= 0
    /\ items' = Aged(items)
    /\ snapshot' = Aged(snapshot)
    /\ UNCHANGED <<up, dirty, completed_since_save, saver, manifest, handed>>

Next ==
    \/ \E w \in Workers : Lease(w)
    \/ \E i \in ItemIds, st \in {"done", "failed"} : Complete(i, st)
    \/ PeriodicSave
    \/ PeriodicSaveFails
    \/ Rescan
    \/ ScanOnly
    \/ Crash
    \/ Sigterm
    \/ Start
    \/ StartFails
    \/ Tick

Spec == Init /\ [][Next]_vars

\* The periodic thread is scheduled for as long as it lives.
SaverSpec == Spec /\ WF_vars(PeriodicSave \/ PeriodicSaveFails)

----------------------------------------------------------------------------
(* Safety. *)

\* The retry budget of pipeline.yaml: a row that may still be worked on has
\* failed fewer than MAX_ITEM_RETRIES times and a dead one at least that
\* often, in memory and in the checkpoint, whatever reports arrive late, and
\* exactly the leased rows have an owner.
RetryBudgetOf(rows) ==
    \A i \in ItemIds :
        /\ rows[i].status \in {"pending", "leased"} =>
               rows[i].attempts < MAX_ITEM_RETRIES
        /\ rows[i].status = "dead" => rows[i].attempts >= MAX_ITEM_RETRIES
        /\ rows[i].status = "absent" => rows[i] = Absent
        /\ rows[i].status = "leased" <=> rows[i].lease_owner # NoOwner
        /\ rows[i].ttl >= 0 => rows[i].status = "leased"

RetryBudget == RetryBudgetOf(items) /\ RetryBudgetOf(snapshot)

\* Whatever /lease has handed out, in this life of the process or an earlier
\* one, has a row: a worker that survives a crash of the coordinator is never
\* answered 404 by /complete.  The checkpoint may not know the item: it is the
\* manifest, written before the lease, that brings it back.
HandedIsTracked == up => handed \subseteq Tracked(items)

\* The dirty flag is what the periodic thread goes by.  While it is not set,
\* loading the checkpoint and merging the manifest gives back every row the
\* process has, leases included, also after a rescan (which adds rows and
\* leaves the flag alone) whose save raised.
CleanMeansRecoverable ==
    up /\ ~dirty =>
        \A i \in Tracked(items) : items[i] = Merge(snapshot, manifest)[i]

\* What was reported of an item, of which a lease is no part.
Outcome(row) ==
    [kind |-> CASE row.status = "done" -> "done"
                [] row.status = "dead" -> "dead"
                [] OTHER -> "open",
     attempts |-> row.attempts]

\* The items whose reports a crash would take back.
Unsaved == {i \in ItemIds : Outcome(items[i]) # Outcome(snapshot[i])}

\* README "saved every 30s, every 200 completions": a crash takes back the
\* reports of fewer than SaveEvery items, unless saves were failing, and never
\* those of more items than the counter says.  The periodic save does not
\* reset the counter, a failing save leaves it over the limit.
BoundedLoss ==
    up => /\ Cardinality(Unsaved) <= completed_since_save
          /\ ~SaveMayFail => completed_since_save < SaveEvery

\* No step hands an item to another worker while the lease it is under still
\* runs.
LiveLeaseKept ==
    [][\A i \in ItemIds :
          items[i].status = "leased" /\ items[i].ttl >= 0 /\ items'[i].status = "leased"
              => items'[i].lease_owner = items[i].lease_owner]_vars

----------------------------------------------------------------------------
(* The coordinator implements the store: leasing, expiry, time, the manifest
   and the flags are invisible. *)

NoOutcome == [kind |-> "unknown", attempts |-> 0]

OutcomesOf(rows) ==
    [i \in ItemIds |->
        IF rows[i].status = "absent" THEN NoOutcome ELSE Outcome(rows[i])]

Store == INSTANCE CheckpointedStore WITH
    Items    <- ItemIds,
    Outcomes <- [kind : {"open", "done", "dead"}, attempts : 0..MaxAttempts],
    New      <- Outcome(Fresh),
    Unknown  <- NoOutcome,
    up       <- up,
    mem      <- OutcomesOf(items),
    disk     <- OutcomesOf(snapshot)

\* Every behaviour of the coordinator is one of CheckpointedStore: outcomes
\* change by reports alone, the file is always a complete table, and a restart
\* neither drops, resets nor invents anything the file holds.
ImplementsStore == Store!Spec

----------------------------------------------------------------------------
(* What the repository says and the code does not do, and liveness. *)

\* coordinator.py, lines 5 to 8: a restart (a redeploy, a reboot, a crash)
\* resumes exactly where the process stopped, so what was answered "done" is
\* in the file whenever the process goes down.
DoneSurvivesDowntime ==
    [][up /\ ~up' =>
          \A i \in ItemIds : items[i].status = "done" => snapshot'[i].status = "done"]_vars

\* README, lines 134 to 136: a dirty table is saved (every 30 s) for as long
\* as the process is up.
EventuallySaved == (up /\ dirty) ~> (~up \/ ~dirty)

============================================================================
