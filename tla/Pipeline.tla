----------------------------- MODULE Pipeline ------------------------------
(***************************************************************************)
(* The coordinator and its workers, talking HTTP.                          *)
(*                                                                         *)
(* A request that is answered in time is one step: the handler runs and    *)
(* the worker has its answer.  A request whose caller has given up (30 s   *)
(* timeout, a killed worker) may still sit in the coordinator's thread     *)
(* pool, behind a long /rescan for instance, and is handled later without  *)
(* anyone waiting for it: stray leases and late reports.  They die with    *)
(* the coordinator's process.  An answer that is lost after the handler    *)
(* ran is such a request, handled right after it was abandoned.            *)
(*                                                                         *)
(* Crashes, stops and timeouts are counted, so that MaxFaults bounds them. *)
(***************************************************************************)
EXTENDS Integers, FiniteSets

CONSTANTS
    Workers, NoOwner, NItems, NLangs,
    LEASE_TTL, MAX_ITEM_RETRIES, BatchSize, SaveEvery, SaveMayFail,
    MaxAttempts, MaxCompleted,
    MaxTears,   \* bound: writes that are cut off in the middle of a line
    MaxFaults   \* bound: crashes, stops and timeouts in one behaviour

VARIABLES
    up, items, dirty, completed_since_save, saver, snapshot, manifest, handed,
    pc, batch, lang, out, torn, tears, misfired,
    stray,      \* workers a GET /lease of which nobody waits for any more
    late,       \* reports nobody waits for any more
    faults,     \* how many crashes, stops and timeouts there were
    overdue     \* history: some lease has been recycled

C == INSTANCE Coordinator

W == INSTANCE Worker

ASSUME PipelineAssumption ==
    /\ C!CoordinatorAssumption
    /\ NLangs \in Nat \ {0}
    /\ MaxTears \in Nat
    /\ MaxFaults \in Nat

coordinator == <<up, items, dirty, completed_since_save, saver, snapshot,
                 manifest, handed>>

worker == <<pc, batch, lang, out, torn, tears, misfired>>

net == <<stray, late, faults>>

vars == <<coordinator, worker, net, overdue>>

ItemIds == 1..NItems

Report == [item : ItemIds, status : {"done", "failed"}]

ReportOf(w) == [item |-> W!Current(w), status |-> W!Verdict(w)]

TypeOK ==
    /\ C!TypeOK
    /\ W!TypeOK
    /\ stray \subseteq Workers
    /\ late \subseteq Report
    /\ faults \in 0..MaxFaults
    /\ overdue \in BOOLEAN

Init ==
    /\ C!Init
    /\ W!Init
    /\ stray = {}
    /\ late = {}
    /\ faults = 0
    /\ overdue = FALSE

Fault ==
    /\ faults < MaxFaults
    /\ faults' = faults + 1

Recycles == overdue' = (overdue \/ C!Reaped(items) # items)

----------------------------------------------------------------------------
\* A worker's lease is handled and answered.
LeaseAnswered(w) ==
    /\ C!Lease(w)
    /\ W!TakeBatch(w, C!FirstPending(C!Reaped(items), BatchSize))
    /\ Recycles
    /\ UNCHANGED net

\* A worker gives up waiting for its lease and asks again later.
LeaseTimesOut(w) ==
    /\ up
    /\ pc[w] = "idle"
    /\ w \notin stray
    /\ stray' = stray \cup {w}
    /\ Fault
    /\ UNCHANGED <<coordinator, worker, late, overdue>>

\* The coordinator leases a batch to a worker that will never know.
StrayLease(w) ==
    /\ w \in stray
    /\ stray' = stray \ {w}
    /\ C!Lease(w)
    /\ Recycles
    /\ UNCHANGED <<worker, late, faults>>

\* A worker's report is handled and answered.
ReportAnswered(w) ==
    /\ W!Answered(w)
    /\ C!Complete(W!Current(w), W!Verdict(w))
    /\ UNCHANGED <<net, overdue>>

\* The worker gives up waiting for the answer; the report is lost, or it is
\* still to be handled.
ReportTimesOut(w) ==
    /\ up
    /\ Fault
    /\ W!PostRaises(w)
    /\ late' \in {late, late \cup {ReportOf(w)}}
    /\ UNCHANGED <<coordinator, stray, overdue>>

\* Nobody listens.
ReportRefused(w) ==
    /\ ~up
    /\ W!PostRaises(w)
    /\ UNCHANGED <<coordinator, net, overdue>>

LateReport(r) ==
    /\ r \in late
    /\ late' = late \ {r}
    /\ C!Complete(r.item, r.status)
    /\ UNCHANGED <<worker, stray, faults, overdue>>

WorkerStep(w) ==
    /\ W!Internal(w)
    /\ UNCHANGED <<coordinator, net, overdue>>

\* The worker dies; the request it waits for may still be handled.
WorkerCrash(w) ==
    /\ Fault
    /\ W!Crash(w)
    /\ IF W!Posting(w) /\ up
       THEN late' \in {late, late \cup {ReportOf(w)}}
       ELSE late' = late
    /\ UNCHANGED <<coordinator, stray, overdue>>

CoordinatorStops ==
    /\ Fault
    /\ C!Crash \/ C!Sigterm
    /\ stray' = {}
    /\ late' = {}
    /\ UNCHANGED <<worker, overdue>>

CoordinatorStarts ==
    /\ C!Start
    /\ UNCHANGED <<worker, net, overdue>>

\* The corpus grows, or a start fails.
CoordinatorStep ==
    /\ \/ C!Rescan
       \/ C!ScanOnly
       \/ C!StartFails
    /\ UNCHANGED <<worker, net, overdue>>

PeriodicThread ==
    /\ \/ C!PeriodicSave
       \/ C!PeriodicSaveFails
    /\ UNCHANGED <<worker, net, overdue>>

TimePasses ==
    /\ C!Tick
    /\ UNCHANGED <<worker, net, overdue>>

Next ==
    \/ \E w \in Workers :
        \/ LeaseAnswered(w)
        \/ LeaseTimesOut(w)
        \/ StrayLease(w)
        \/ ReportAnswered(w)
        \/ ReportTimesOut(w)
        \/ ReportRefused(w)
        \/ WorkerStep(w)
        \/ WorkerCrash(w)
    \/ \E r \in Report : LateReport(r)
    \/ CoordinatorStops
    \/ CoordinatorStarts
    \/ CoordinatorStep
    \/ PeriodicThread
    \/ TimePasses

Spec == Init /\ [][Next]_vars

\* Every worker's loop goes on, the coordinator answers, its queue drains, its
\* container is started again, its periodic thread runs, and time passes.
Fairness ==
    /\ \A w \in Workers :
        /\ WF_vars(LeaseAnswered(w))
        /\ WF_vars(StrayLease(w))
        /\ WF_vars(ReportAnswered(w))
        /\ WF_vars(WorkerStep(w))
    /\ \A r \in Report : WF_vars(LateReport(r))
    /\ WF_vars(CoordinatorStarts)
    /\ WF_vars(PeriodicThread)
    /\ WF_vars(TimePasses)

FairSpec == Spec /\ Fairness

----------------------------------------------------------------------------
(* Safety. *)

\* While nothing has failed and no lease has run out, the coordinator's leases
\* and the batches of the workers are the same thing: no item is with two
\* workers, none is leased to a worker that does not have it, and a worker's
\* item is not offered to another.
LeaseAgreement ==
    up /\ faults = 0 /\ ~overdue =>
        \A i \in ItemIds, w \in Workers :
            i \in batch[w] <=> items[i].status = "leased" /\ items[i].lease_owner = w

\* Leases may run out while a worker is slow, and reports of the former owner
\* then hit the row of the present one; as long as nothing crashed or timed
\* out, a leased item is still in the hands of its owner.
NoOrphanLease ==
    up /\ faults = 0 =>
        \A i \in ItemIds :
            items[i].status = "leased" => i \in batch[items[i].lease_owner]

\* While nothing has failed and no lease has run out, done is final: no second
\* report ever meets the row.  (With a lease run out it is not: the former
\* owner may still report a failure of what the present one has finished.)
DoneIsFinal ==
    [][faults' = 0 /\ ~overdue' =>
          \A i \in ItemIds : items[i].status = "done" => items'[i].status = "done"]_vars

\* An item counts as done, in memory or in the checkpoint, only when each of its
\* rows was flushed to a shard or dropped as invalid, whatever was lost, repeated
\* or late.
DoneIsWritten ==
    \A i \in ItemIds :
        "done" \in {items[i].status, snapshot[i].status} =>
            \A l \in 1..NLangs : out[<<i, l>>] # "none"

Lost == {il \in ItemIds \X (1..NLangs) : out[il] = "lost"}

\* Output is flushed before the report is sent, and so the shards hold the rows
\* of what is done, or they were dropped as invalid; but for each write that was
\* cut off one row can be missing, the one that went on in the unfinished line,
\* for good and without anyone noticing.
DoneHasOutput ==
    /\ DoneIsWritten
    /\ Cardinality(Lost) + Cardinality(torn) <= tears

\* The coordinator, driven by these workers, still loses the reports of at most
\* completed_since_save items in a crash, fewer than SaveEvery of them if saves
\* do not fail.
BoundedLoss == C!BoundedLoss

----------------------------------------------------------------------------
(* Liveness. *)

Settled(i) == items[i].status \in {"done", "dead"}

\* When crashes and timeouts come to an end, every item the coordinator knows
\* is done or dead for good: leases nobody holds run out, reports that are
\* late or double cannot keep an item going for ever.
EventuallySettled == <>[](up /\ \A i \in C!Tracked(items) : Settled(i))

----------------------------------------------------------------------------
(* What the repository says and the code does not do. *)

\* pipeline.yaml, line 98: max_item_retries failures send an item to the dead
\* letters.  An item no attempt of which ever raised should not get there.
DeadOnlyAfterFailures ==
    \A i \in ItemIds : items[i].status = "dead" => i \in misfired

\* pipeline.yaml, lines 49 to 51: every item is emitted once per language, so
\* an item that is done has its rows in all of them or in none.
LanguagesComplete ==
    \A i \in ItemIds :
        items[i].status = "done" =>
            \A k, l \in 1..NLangs : out[<<i, k>>] = "written" <=> out[<<i, l>>] = "written"

============================================================================
