--------------------------- MODULE PipelineProofs ---------------------------
(* Theorems about the coordinator and its workers together, for any number  *)
(* of workers, items, languages and faults.                                 *)
EXTENDS Pipeline, FiniteSetTheorems, TLAPS

CP == INSTANCE CoordinatorProofs

----------------------------------------------------------------------------
(* The coordinator inside the pipeline. *)

LEMMA Assumed == CP!CoordinatorAssumption
  BY PipelineAssumption DEF C!CoordinatorAssumption, CP!CoordinatorAssumption

LEMMA SameType == C!TypeOK <=> CP!TypeOK
  BY DEF C!TypeOK, CP!TypeOK, C!ItemIds, CP!ItemIds, C!Row, CP!Row, C!Status, CP!Status

LEMMA SameInit == C!Init <=> CP!Init
  BY DEF C!Init, CP!Init, C!NoRows, CP!NoRows, C!ItemIds, CP!ItemIds, C!Absent, CP!Absent,
         C!Unleased, CP!Unleased

LEMMA SameCardinality == \A S : C!Cardinality(S) = CP!Cardinality(S)
  BY DEF C!Cardinality, CP!Cardinality

LEMMA SameMerge ==
  \A rows, m : C!Merge(rows, m) = CP!Merge(rows, m)
  BY DEF C!Merge, CP!Merge, C!ItemIds, CP!ItemIds, C!Fresh, CP!Fresh, C!Unleased, CP!Unleased

LEMMA SameNext == C!Next <=> CP!Next
<1>1. \A w \in Workers : C!Lease(w) <=> CP!Lease(w)
  <2>1. \A rows : C!Reaped(rows) = CP!Reaped(rows)
    BY DEF C!Reaped, CP!Reaped, C!ItemIds, CP!ItemIds, C!Unleased, CP!Unleased
  <2>2. \A rows, n : C!FirstPending(rows, n) = CP!FirstPending(rows, n)
    BY SameCardinality
       DEF C!FirstPending, CP!FirstPending, C!Pending, CP!Pending, C!ItemIds, CP!ItemIds
  <2>3. \A rows, given, w : C!LeaseOut(rows, given, w) = CP!LeaseOut(rows, given, w)
    BY DEF C!LeaseOut, CP!LeaseOut, C!ItemIds, CP!ItemIds
  <2> QED
    BY <2>1, <2>2, <2>3 DEF C!Lease, CP!Lease
<1>2. \A i, st : C!Report(i, st) <=> CP!Report(i, st)
  BY DEF C!Report, CP!Report, C!Reported, CP!Reported, C!Unleased, CP!Unleased
<1>3. \A i, st : C!Complete(i, st) <=> CP!Complete(i, st)
  BY <1>2 DEF C!Complete, CP!Complete, C!CompleteUnsaved, CP!CompleteUnsaved,
              C!CompleteSaved, CP!CompleteSaved, C!CompleteSaveFails, CP!CompleteSaveFails
<1>4. /\ C!PeriodicSave <=> CP!PeriodicSave
      /\ C!PeriodicSaveFails <=> CP!PeriodicSaveFails
      /\ C!ScanOnly <=> CP!ScanOnly
  BY DEF C!PeriodicSave, CP!PeriodicSave, C!PeriodicSaveFails, CP!PeriodicSaveFails,
         C!ScanOnly, CP!ScanOnly
<1>5. /\ C!Rescan <=> CP!Rescan
      /\ C!Start <=> CP!Start
      /\ C!StartFails <=> CP!StartFails
  BY SameMerge DEF C!Rescan, CP!Rescan, C!Start, CP!Start, C!StartFails, CP!StartFails
<1>6. (C!Crash <=> CP!Crash) /\ (C!Sigterm <=> CP!Sigterm)
  BY DEF C!Crash, CP!Crash, C!Sigterm, CP!Sigterm, C!Forget, CP!Forget, C!NoRows, CP!NoRows,
         C!ItemIds, CP!ItemIds, C!Absent, CP!Absent, C!Unleased, CP!Unleased
<1>7. C!Tick <=> CP!Tick
  BY DEF C!Tick, CP!Tick, C!Aged, CP!Aged, C!ItemIds, CP!ItemIds
<1> QED
  BY <1>1, <1>3, <1>4, <1>5, <1>6, <1>7 DEF C!Next, CP!Next, C!ItemIds, CP!ItemIds

LEMMA CoordinatorTyped ==
  ASSUME C!TypeOK, [C!Next]_C!vars
  PROVE  C!TypeOK'
<1>1. CP!TypeOK /\ [CP!Next]_CP!vars => CP!TypeOK'
  BY CP!TypeStep, Assumed DEF CP!CoordinatorAssumption
<1>2. C!TypeOK' <=> CP!TypeOK'
  BY DEF C!TypeOK, CP!TypeOK, C!ItemIds, CP!ItemIds, C!Row, CP!Row, C!Status, CP!Status
<1>3. C!vars = CP!vars /\ C!vars' = CP!vars'
  BY DEF C!vars, CP!vars
<1> QED
  BY <1>1, <1>2, <1>3, SameType, SameNext

\* Every step of the pipeline is one of the coordinator, or none to it.
LEMMA CoordinatorStepOf ==
  ASSUME C!TypeOK, [Next]_vars
  PROVE  [C!Next]_C!vars
<1>1. \A i, st : C!Complete(i, st) => i \in C!ItemIds
  BY DEF C!Complete, C!CompleteUnsaved, C!CompleteSaved, C!CompleteSaveFails, C!Report,
         C!TypeOK
<1>2. \A w : W!Verdict(w) \in {"done", "failed"}
  BY DEF W!Verdict
<1>3. UNCHANGED coordinator => UNCHANGED C!vars
  BY DEF coordinator, C!vars
<1>4. ASSUME NEW w \in Workers,
             \/ LeaseAnswered(w) \/ LeaseTimesOut(w) \/ StrayLease(w) \/ ReportAnswered(w)
             \/ ReportTimesOut(w) \/ ReportRefused(w) \/ WorkerStep(w) \/ WorkerCrash(w)
      PROVE  [C!Next]_C!vars
  BY <1>1, <1>2, <1>3, <1>4
     DEF LeaseAnswered, LeaseTimesOut, StrayLease, ReportAnswered, ReportTimesOut,
         ReportRefused, WorkerStep, WorkerCrash, C!Next
<1>5. ASSUME NEW r \in Report, LateReport(r)
      PROVE  [C!Next]_C!vars
  BY <1>1, <1>5 DEF LateReport, C!Next, Report
<1>6. CASE CoordinatorStops \/ CoordinatorStarts \/ CoordinatorStep \/ PeriodicThread
           \/ TimePasses
  BY <1>6 DEF CoordinatorStops, CoordinatorStarts, CoordinatorStep, PeriodicThread,
              TimePasses, C!Next
<1>7. CASE UNCHANGED vars
  BY <1>3, <1>7 DEF vars
<1> QED
  BY <1>4, <1>5, <1>6, <1>7 DEF Next

LEMMA CoordinatorTypedAlways == Spec => []C!TypeOK
<1>1. Init => C!TypeOK
  BY CP!TypeInit, Assumed, SameInit, SameType DEF Init, CP!CoordinatorAssumption
<1>2. C!TypeOK /\ [Next]_vars => C!TypeOK'
  BY CoordinatorStepOf, CoordinatorTyped
<1> QED
  BY <1>1, <1>2, PTL DEF Spec

\* Whatever the workers and the network do, the coordinator of the pipeline is
\* the one of Coordinator: what is proved of that one holds of this one.
THEOREM PipelineRunsCoordinator == Spec => C!Spec
<1>1. Init => C!Init
  BY DEF Init
<1>2. C!TypeOK /\ [Next]_vars => [C!Next]_C!vars
  BY CoordinatorStepOf
<1> QED
  BY <1>1, <1>2, CoordinatorTypedAlways, PTL DEF Spec, C!Spec

LEMMA SameLoss == BoundedLoss <=> CP!BoundedLoss
<1>1. \A row : C!Outcome(row) = CP!Outcome(row)
  BY DEF C!Outcome, CP!Outcome
<1>2. C!Unsaved = CP!Unsaved
  BY <1>1 DEF C!Unsaved, CP!Unsaved, C!ItemIds, CP!ItemIds
<1> QED
  BY <1>2, SameCardinality DEF BoundedLoss, C!BoundedLoss, CP!BoundedLoss

\* The coordinator driven by these workers loses the reports of at most
\* completed_since_save items in a crash; of fewer than SaveEvery if saves do
\* not fail.
THEOREM BoundedLossAlways == Spec => []BoundedLoss
<1>1. C!Spec => CP!Spec
  <2>1. C!Init <=> CP!Init
    BY SameInit
  <2>2. [C!Next]_C!vars => [CP!Next]_CP!vars
    <3>1. C!vars = CP!vars /\ C!vars' = CP!vars'
      BY DEF C!vars, CP!vars
    <3> QED
      BY <3>1, SameNext
  <2> QED
    BY <2>1, <2>2, PTL DEF C!Spec, CP!Spec
<1>2. CP!Spec => []CP!BoundedLoss
  BY CP!BoundedLossAlways, Assumed DEF CP!CoordinatorAssumption
<1>3. CP!BoundedLoss => BoundedLoss
  BY SameLoss
<1> QED
  BY <1>1, <1>2, <1>3, PipelineRunsCoordinator, PTL

----------------------------------------------------------------------------
(* The workers. *)

\* The item a worker is at is one of its batch.
LEMMA CurrentInBatch ==
  ASSUME NEW w, batch[w] \in SUBSET ItemIds, batch[w] # {}
  PROVE  W!Current(w) \in batch[w]
<1>1. IsFiniteSet(batch[w]) /\ batch[w] \in SUBSET Nat
  <2>1. IsFiniteSet(ItemIds) /\ ItemIds \subseteq Nat
    BY FS_Interval, PipelineAssumption DEF ItemIds, C!CoordinatorAssumption
  <2> QED
    BY <2>1, FS_Subset
<1>2. PICK x \in batch[w] : \A y \in batch[w] : x <= y
  <2>1. CP!IsFiniteSet(batch[w])
    BY <1>1 DEF IsFiniteSet, CP!IsFiniteSet
  <2> QED
    BY <1>1, <2>1, CP!LeastElement, Assumed DEF CP!CoordinatorAssumption
<1> QED
  BY <1>2 DEF W!Current, W!Min

LEMMA BusyCurrent ==
  ASSUME W!TypeOK, NEW w \in Workers, pc[w] \notin {"gate", "idle"}
  PROVE  W!Current(w) \in batch[w] /\ W!Current(w) \in ItemIds
<1>1. batch[w] \in SUBSET ItemIds /\ batch[w] # {}
  BY DEF W!TypeOK, W!ItemIds, ItemIds
<1> QED
  BY <1>1, CurrentInBatch

LEMMA GivenItems ==
  \A rows, n : C!FirstPending(rows, n) \subseteq {i \in ItemIds : rows[i].status = "pending"}
  BY DEF C!FirstPending, C!Pending, C!ItemIds, ItemIds

\* What a worker does by itself or with a lease or a report.
WorkerActs(w) ==
    \/ W!Internal(w)
    \/ \E leased \in SUBSET ItemIds : W!TakeBatch(w, leased)
    \/ W!Answered(w)
    \/ W!PostRaises(w)
    \/ W!Crash(w)

\* What a row can become.
RowStates == {"none", "dropped", "lost", "written"}

LEMMA RowWritten ==
  /\ \A what \in RowStates : W!Dropped(what) \in RowStates \ {"none"}
  /\ \A w, what : W!Appended(w, what) \in RowStates \ {"none"}
  BY DEF W!Dropped, W!Appended, RowStates

\* WriteRow leaves the item and language at hand with a row that was begun.
LEMMA WriteRowOut ==
  ASSUME W!TypeOK, NEW w \in Workers, W!WriteRow(w)
  PROVE  /\ <<W!Current(w), lang[w]>> \in ItemIds \X (1..NLangs)
         /\ \E what \in RowStates \ {"none"} :
               out' = [out EXCEPT ![<<W!Current(w), lang[w]>>] = what]
<1>1. <<W!Current(w), lang[w]>> \in ItemIds \X (1..NLangs)
  BY BusyCurrent DEF W!WriteRow, W!Writing, W!Langs
<1>2. out[<<W!Current(w), lang[w]>>] \in RowStates
  BY <1>1 DEF W!TypeOK, W!ItemIds, W!Langs, ItemIds, RowStates
<1> QED
  BY <1>1, <1>2, RowWritten DEF W!WriteRow

\* A stop leaves the output alone.
LEMMA ShardLeftTyped ==
  ASSUME W!TypeOK, NEW w \in Workers, W!ShardLeft(w)
  PROVE  out' = out /\ torn' \subseteq Workers /\ tears' \in 0..MaxTears
  BY PipelineAssumption DEF W!ShardLeft, W!TypeOK

LEMMA WorkerTyped ==
  ASSUME W!TypeOK, NEW w \in Workers, WorkerActs(w)
  PROVE  W!TypeOK'
<1> USE DEF W!TypeOK, W!ItemIds, W!Langs
<1>0. NLangs \in Nat /\ 1 \in 1..(NLangs + 1) /\ NLangs + 1 \in 1..(NLangs + 1)
  BY PipelineAssumption
<1>1. CASE W!PassGate(w) \/ W!Generated(w)
  BY <1>1 DEF W!PassGate, W!Generated, W!shards
<1>2. CASE W!PostDone(w)
  BY <1>0, <1>2 DEF W!PostDone, W!shards
<1>3. CASE W!NoSpeech(w)
  <2>1. \A il \in W!ItemIds \X W!Langs : W!Dropped(out[il]) \in RowStates
    BY RowWritten DEF RowStates
  <2>2. out' \in [W!ItemIds \X W!Langs -> {"none", "dropped", "lost", "written"}]
    BY <1>3, <2>1 DEF W!NoSpeech, RowStates
  <2>3. lang' \in [Workers -> 1..(NLangs + 1)] /\ UNCHANGED <<batch, torn, tears, misfired>>
    BY <1>0, <1>3 DEF W!NoSpeech
  <2>4. pc' \in [Workers -> {"gate", "idle", "generate", "write", "post_done", "post_failed"}]
    BY <1>3 DEF W!NoSpeech
  <2>5. \A v \in Workers : batch'[v] = {} <=> pc'[v] \in {"gate", "idle"}
    BY <1>3 DEF W!NoSpeech
  <2> QED
    BY <2>2, <2>3, <2>4, <2>5
<1>4. CASE W!WriteRow(w)
  <2>1. out' \in [W!ItemIds \X W!Langs -> {"none", "dropped", "lost", "written"}]
    BY <1>4, WriteRowOut DEF RowStates
  <2>2. lang[w] + 1 \in 1..(NLangs + 1)
    BY <1>0, <1>4 DEF W!WriteRow, W!Writing
  <2>3. lang' \in [Workers -> 1..(NLangs + 1)] /\ UNCHANGED <<pc, batch, tears, misfired>>
    BY <1>4, <2>2 DEF W!WriteRow
  <2>4. torn' \subseteq Workers
    BY <1>4 DEF W!WriteRow
  <2> QED
    BY <2>1, <2>3, <2>4
<1>5. CASE W!Misfire(w)
  <2>1. W!Current(w) \in ItemIds
    BY <1>5, BusyCurrent DEF W!Misfire, W!Writing
  <2>2. out' = out /\ torn' \subseteq Workers /\ tears' \in 0..MaxTears
    BY <1>5, ShardLeftTyped DEF W!Misfire, W!shards
  <2>3. /\ pc' = [pc EXCEPT ![w] = "post_failed"]
        /\ lang' = [lang EXCEPT ![w] = 1]
        /\ misfired' = misfired \cup {W!Current(w)}
        /\ UNCHANGED batch
        /\ pc[w] \in {"generate", "write"}
    BY <1>5 DEF W!Misfire, W!Writing
  <2> QED
    BY <1>0, <2>1, <2>2, <2>3 DEF ItemIds
<1>6. ASSUME NEW leased \in SUBSET ItemIds, W!TakeBatch(w, leased)
      PROVE  W!TypeOK'
  BY <1>6 DEF W!TakeBatch, W!shards, ItemIds
<1>7. CASE W!Answered(w)
  BY <1>7 DEF W!Answered, W!Advance, W!Posting, W!shards
<1>8. CASE W!PostRaises(w)
  BY <1>8 DEF W!PostRaises, W!Advance, W!shards
<1>9. CASE W!Crash(w)
  <2>1. out' = out /\ torn' \subseteq Workers /\ tears' \in 0..MaxTears
    BY <1>9, ShardLeftTyped DEF W!Crash
  <2> QED
    BY <1>0, <1>9, <2>1 DEF W!Crash
<1> QED
  BY <1>1, <1>2, <1>3, <1>4, <1>5, <1>6, <1>7, <1>8, <1>9 DEF WorkerActs, W!Internal

LEMMA WorkerStays ==
  ASSUME W!TypeOK, UNCHANGED worker
  PROVE  W!TypeOK'
  BY DEF worker, W!TypeOK

\* Every step of the pipeline is one of a worker, or none to any.
LEMMA WorkerStepOf ==
  ASSUME [Next]_vars
  PROVE  UNCHANGED worker \/ \E w \in Workers : WorkerActs(w)
<1>1. ASSUME NEW w \in Workers,
             \/ LeaseAnswered(w) \/ LeaseTimesOut(w) \/ StrayLease(w) \/ ReportAnswered(w)
             \/ ReportTimesOut(w) \/ ReportRefused(w) \/ WorkerStep(w) \/ WorkerCrash(w)
      PROVE  UNCHANGED worker \/ WorkerActs(w)
  BY <1>1, GivenItems
     DEF LeaseAnswered, LeaseTimesOut, StrayLease, ReportAnswered, ReportTimesOut,
         ReportRefused, WorkerStep, WorkerCrash, WorkerActs
<1>2. CASE \/ CoordinatorStops \/ CoordinatorStarts \/ CoordinatorStep \/ PeriodicThread
           \/ TimePasses \/ \E r \in Report : LateReport(r)
  BY <1>2 DEF CoordinatorStops, CoordinatorStarts, CoordinatorStep, PeriodicThread,
              TimePasses, LateReport
<1>3. CASE UNCHANGED vars
  BY <1>3 DEF vars
<1> QED
  BY <1>1, <1>2, <1>3 DEF Next

Typed == C!TypeOK /\ W!TypeOK

LEMMA TypedInit == Init => Typed
<1>1. C!Init => C!TypeOK
  BY CP!TypeInit, Assumed, SameInit, SameType DEF CP!CoordinatorAssumption
<1>2. W!Init => W!TypeOK
  BY PipelineAssumption DEF W!Init, W!TypeOK, W!ItemIds, W!Langs
<1> QED
  BY <1>1, <1>2 DEF Init, Typed

LEMMA TypedStep == Typed /\ [Next]_vars => Typed'
<1> SUFFICES ASSUME Typed, [Next]_vars
             PROVE  Typed'
  OBVIOUS
<1>1. C!TypeOK'
  BY CoordinatorStepOf, CoordinatorTyped DEF Typed
<1>2. W!TypeOK'
  BY WorkerStepOf, WorkerStays, WorkerTyped DEF Typed
<1> QED
  BY <1>1, <1>2 DEF Typed

LEMMA ReportTyped ==
  ASSUME Typed, NEW w \in Workers, W!Posting(w)
  PROVE  ReportOf(w) \in Report
<1>1. W!Current(w) \in ItemIds
  BY BusyCurrent DEF W!Posting, Typed
<1> QED
  BY <1>1 DEF ReportOf, Report, W!Verdict

NetTyped ==
    /\ stray \subseteq Workers
    /\ late \subseteq Report
    /\ faults \in 0..MaxFaults
    /\ overdue \in BOOLEAN

LEMMA NetInit == Init => NetTyped
<1>1. 0 \in 0..MaxFaults
  BY PipelineAssumption
<1> QED
  BY <1>1 DEF Init, NetTyped

LEMMA NetStep == Typed /\ NetTyped /\ [Next]_vars => NetTyped'
<1> SUFFICES ASSUME Typed, NetTyped, [Next]_vars
             PROVE  NetTyped'
  OBVIOUS
<1> USE DEF NetTyped
<1>0. Fault => faults' \in 0..MaxFaults
  BY PipelineAssumption DEF Fault
<1>1. Recycles => overdue' \in BOOLEAN
  BY DEF Recycles
<1>2. ASSUME NEW w \in Workers, LeaseAnswered(w) \/ LeaseTimesOut(w) \/ StrayLease(w)
      PROVE  NetTyped'
  BY <1>0, <1>1, <1>2 DEF LeaseAnswered, LeaseTimesOut, StrayLease, net
<1>3. ASSUME NEW w \in Workers, ReportAnswered(w) \/ ReportRefused(w) \/ WorkerStep(w)
      PROVE  NetTyped'
  BY <1>3 DEF ReportAnswered, ReportRefused, WorkerStep, net
<1>4. ASSUME NEW w \in Workers, ReportTimesOut(w)
      PROVE  NetTyped'
  <2>1. ReportOf(w) \in Report
    BY <1>4, ReportTyped DEF ReportTimesOut, W!PostRaises, W!Posting
  <2> QED
    BY <1>0, <1>4, <2>1 DEF ReportTimesOut
<1>5. ASSUME NEW w \in Workers, WorkerCrash(w)
      PROVE  NetTyped'
  <2>1. W!Posting(w) => ReportOf(w) \in Report
    BY ReportTyped
  <2> QED
    BY <1>0, <1>5, <2>1 DEF WorkerCrash
<1>6. ASSUME NEW r \in Report, LateReport(r)
      PROVE  NetTyped'
  BY <1>6 DEF LateReport
<1>7. CASE CoordinatorStops \/ CoordinatorStarts \/ CoordinatorStep \/ PeriodicThread
           \/ TimePasses
  BY <1>0, <1>7 DEF CoordinatorStops, CoordinatorStarts, CoordinatorStep, PeriodicThread,
                    TimePasses, net
<1>8. CASE UNCHANGED vars
  BY <1>8 DEF vars, net
<1> QED
  BY <1>2, <1>3, <1>4, <1>5, <1>6, <1>7, <1>8 DEF Next

\* The variables of coordinator, workers and network keep their types.
THEOREM TypeCorrect == Spec => []TypeOK
<1>1. Init => Typed /\ NetTyped
  BY NetInit, TypedInit
<1>2. Typed /\ NetTyped /\ [Next]_vars => (Typed /\ NetTyped)'
  BY TypedStep, NetStep
<1>3. Typed /\ NetTyped => TypeOK
  BY DEF Typed, NetTyped, TypeOK
<1> QED
  BY <1>1, <1>2, <1>3, PTL DEF Spec

----------------------------------------------------------------------------
(* What is done has its output. *)

Langs == 1..NLangs

Has(i) == \A l \in Langs : out[<<i, l>>] # "none"

DoneHas(rows) == \A i \in ItemIds : rows[i].status = "done" => Has(i)

\* What a worker has of its item: the rows before the language it is at, all of
\* them once it reports.
WorkerHas(w) ==
    /\ pc[w] # "write" => lang[w] = 1
    /\ pc[w] = "write" =>
           \A l \in Langs : l < lang[w] => out[<<W!Current(w), l>>] # "none"
    /\ pc[w] = "post_done" => Has(W!Current(w))

LateHas == \A r \in late : r.status = "done" => Has(r.item)

OutputInv ==
    /\ DoneHas(items)
    /\ DoneHas(snapshot)
    /\ \A w \in Workers : WorkerHas(w)
    /\ LateHas

\* Rows stay.
LEMMA OutStays ==
  ASSUME Typed, [Next]_vars, NEW i \in ItemIds, NEW l \in Langs, out[<<i, l>>] # "none"
  PROVE  out'[<<i, l>>] # "none"
<1>1. out \in [ItemIds \X Langs -> RowStates] /\ W!TypeOK
  BY DEF Typed, W!TypeOK, W!ItemIds, W!Langs, ItemIds, Langs, RowStates
<1>2. CASE UNCHANGED worker
  BY <1>2 DEF worker
<1>3. ASSUME NEW w \in Workers, WorkerActs(w)
      PROVE  out'[<<i, l>>] # "none"
  <2>1. CASE W!NoSpeech(w)
    BY <1>1, <2>1, RowWritten DEF W!NoSpeech, W!ItemIds, W!Langs, ItemIds, Langs
  <2>2. CASE W!WriteRow(w)
    BY <1>1, <2>2, WriteRowOut
  <2>3. CASE W!Misfire(w) \/ W!Crash(w)
    BY <1>1, <2>3, ShardLeftTyped DEF W!Misfire, W!Crash, W!shards
  <2>4. CASE ~(W!NoSpeech(w) \/ W!WriteRow(w) \/ W!Misfire(w) \/ W!Crash(w))
    BY <1>3, <2>4 DEF WorkerActs, W!Internal, W!PassGate, W!Generated, W!PostDone,
                      W!TakeBatch, W!Answered, W!PostRaises, W!shards
  <2> QED
    BY <2>1, <2>2, <2>3, <2>4
<1> QED
  BY <1>2, <1>3, WorkerStepOf

LEMMA HasStays ==
  ASSUME Typed, [Next]_vars, NEW i \in ItemIds, Has(i)
  PROVE  Has(i)'
<1>1. ASSUME NEW l \in Langs
      PROVE  out'[<<i, l>>] # "none"
  BY <1>1, OutStays DEF Has
<1> QED
  BY <1>1 DEF Has, Langs

\* The steps of the coordinator that record no report make nothing done.
LEMMA QuietStep ==
  ASSUME C!TypeOK,
         \/ \E w \in Workers : C!Lease(w)
         \/ C!PeriodicSave \/ C!PeriodicSaveFails \/ C!Rescan \/ C!ScanOnly
         \/ C!Crash \/ C!Sigterm \/ C!Start \/ C!StartFails \/ C!Tick
         \/ UNCHANGED coordinator,
         NEW i \in ItemIds,
         "done" \in {items'[i].status, snapshot'[i].status}
  PROVE  "done" \in {items[i].status, snapshot[i].status}
<1>1. /\ \A m : C!Merge(items, m)[i].status = "done" => items[i].status = "done"
      /\ \A m : C!Merge(snapshot, m)[i].status = "done" => snapshot[i].status = "done"
  BY DEF C!Merge, C!Fresh, C!Unleased, C!ItemIds, ItemIds
<1>2. CASE \E w \in Workers : C!Lease(w)
  <2>1. \A given, w : C!LeaseOut(C!Reaped(items), given, w)[i].status = "done"
                          => items[i].status = "done"
    BY DEF C!LeaseOut, C!Reaped, C!Unleased, C!ItemIds, ItemIds
  <2> QED
    BY <1>2, <2>1 DEF C!Lease
<1>3. CASE C!PeriodicSave \/ C!PeriodicSaveFails \/ C!ScanOnly \/ UNCHANGED coordinator
  BY <1>3 DEF C!PeriodicSave, C!PeriodicSaveFails, C!ScanOnly, coordinator
<1>4. CASE C!Rescan
  BY <1>1, <1>4 DEF C!Rescan
<1>5. CASE C!Start \/ C!StartFails
  BY <1>1, <1>5 DEF C!Start, C!StartFails
<1>6. CASE C!Crash \/ C!Sigterm
  <2>1. C!NoRows[i].status # "done"
    BY DEF C!NoRows, C!Absent, C!Unleased, C!ItemIds, ItemIds
  <2> QED
    BY <1>6, <2>1 DEF C!Crash, C!Sigterm, C!Forget
<1>7. CASE C!Tick
  <2>1. /\ C!Aged(items)[i].status = items[i].status
        /\ C!Aged(snapshot)[i].status = snapshot[i].status
    BY DEF C!Aged, C!TypeOK, C!Row, C!ItemIds, ItemIds
  <2> QED
    BY <1>7, <2>1 DEF C!Tick
<1> QED
  BY <1>2, <1>3, <1>4, <1>5, <1>6, <1>7

\* A report changes the row of its item, and the checkpoint, if at all, to the
\* table of that moment.
LEMMA CompleteStep ==
  ASSUME C!TypeOK, NEW j, NEW st, C!Complete(j, st)
  PROVE  /\ j \in ItemIds
         /\ items' = [items EXCEPT ![j] = C!Reported(items[j], st)]
         /\ snapshot' = snapshot \/ snapshot' = items'
<1>1. C!Report(j, st) /\ (snapshot' = snapshot \/ snapshot' = items')
  BY DEF C!Complete, C!CompleteUnsaved, C!CompleteSaved, C!CompleteSaveFails
<1> QED
  BY <1>1 DEF C!Report, C!TypeOK, C!ItemIds, ItemIds

LEMMA CompleteDone ==
  ASSUME C!TypeOK, NEW j, NEW st, C!Complete(j, st),
         NEW i \in ItemIds,
         "done" \in {items'[i].status, snapshot'[i].status}
  PROVE  \/ "done" \in {items[i].status, snapshot[i].status}
         \/ i = j /\ st = "done"
<1>1. C!Reported(items[j], st).status = "done" => st = "done"
  BY DEF C!Reported, C!Unleased
<1>2. items \in [ItemIds -> C!Row]
  BY DEF C!TypeOK, C!ItemIds, ItemIds
<1>3. items'[i].status = "done" => items[i].status = "done" \/ (i = j /\ st = "done")
  BY <1>1, <1>2, CompleteStep
<1> QED
  BY <1>3, CompleteStep

\* What is done after a step was done before it, or its report "done" was just
\* handled, which a worker or the network had.
LEMMA DoneHasStep == Typed /\ OutputInv /\ [Next]_vars => (DoneHas(items) /\ DoneHas(snapshot))'
<1> SUFFICES ASSUME Typed, OutputInv, [Next]_vars,
                    NEW i \in ItemIds,
                    "done" \in {items'[i].status, snapshot'[i].status}
             PROVE  Has(i)'
  BY DEF DoneHas, ItemIds
<1>1. C!TypeOK
  BY DEF Typed
<1>2. "done" \in {items[i].status, snapshot[i].status} => Has(i)'
  BY HasStays DEF OutputInv, DoneHas
<1>3. ASSUME NEW w \in Workers, ReportAnswered(w)
      PROVE  Has(i)'
  <2>1. C!Complete(W!Current(w), W!Verdict(w))
    BY <1>3 DEF ReportAnswered
  <2>2. CASE i = W!Current(w) /\ W!Verdict(w) = "done"
    <3>1. Has(i)
      BY <2>2 DEF OutputInv, WorkerHas, W!Verdict
    <3> QED
      BY <3>1, HasStays
  <2> QED
    BY <1>1, <1>2, <2>1, <2>2, CompleteDone
<1>4. ASSUME NEW r \in Report, LateReport(r)
      PROVE  Has(i)'
  <2>1. C!Complete(r.item, r.status) /\ r \in late
    BY <1>4 DEF LateReport
  <2>2. CASE i = r.item /\ r.status = "done"
    <3>1. Has(i)
      BY <2>1, <2>2 DEF OutputInv, LateHas
    <3> QED
      BY <3>1, HasStays
  <2> QED
    BY <1>1, <1>2, <2>1, <2>2, CompleteDone
<1>5. \/ \E w \in Workers : C!Lease(w)
      \/ C!PeriodicSave \/ C!PeriodicSaveFails \/ C!Rescan \/ C!ScanOnly
      \/ C!Crash \/ C!Sigterm \/ C!Start \/ C!StartFails \/ C!Tick
      \/ UNCHANGED coordinator
      \/ \E w \in Workers : ReportAnswered(w)
      \/ \E r \in Report : LateReport(r)
  BY DEF Next, LeaseAnswered, LeaseTimesOut, StrayLease, ReportTimesOut, ReportRefused,
         WorkerStep, WorkerCrash, CoordinatorStops, CoordinatorStarts, CoordinatorStep,
         PeriodicThread, TimePasses, vars
<1> QED
  BY <1>1, <1>2, <1>3, <1>4, <1>5, QuietStep

LEMMA WorkerHasStep ==
  ASSUME Typed, OutputInv, [Next]_vars, NEW v \in Workers
  PROVE  WorkerHas(v)'
<1>1. WorkerHas(v) /\ W!TypeOK
  BY DEF OutputInv, Typed
<1>2. NLangs \in Nat
  BY PipelineAssumption
<1>3. /\ pc \in [Workers -> {"gate", "idle", "generate", "write", "post_done", "post_failed"}]
      /\ batch \in [Workers -> SUBSET ItemIds]
      /\ lang \in [Workers -> 1..(NLangs + 1)]
      /\ out \in [ItemIds \X Langs -> RowStates]
  BY <1>1 DEF W!TypeOK, W!ItemIds, W!Langs, ItemIds, Langs, RowStates
<1>4. pc[v] \notin {"gate", "idle"} => W!Current(v) \in ItemIds
  BY <1>1, BusyCurrent
<1>6. CASE UNCHANGED <<pc[v], batch[v], lang[v]>>
  <2>1. W!Current(v)' = W!Current(v)
    BY <1>6 DEF W!Current
  <2>2. pc[v] = "write" =>
            \A l \in Langs : l < lang[v] => out'[<<W!Current(v), l>>] # "none"
    BY <1>1, <1>4, OutStays DEF WorkerHas
  <2>3. pc[v] = "post_done" => \A l \in Langs : out'[<<W!Current(v), l>>] # "none"
    BY <1>1, <1>4, OutStays DEF WorkerHas, Has
  <2> QED
    BY <1>1, <1>6, <2>1, <2>2, <2>3 DEF WorkerHas, Has, Langs
<1>7. CASE W!PassGate(v) \/ \E leased \in SUBSET ItemIds : W!TakeBatch(v, leased)
  BY <1>1, <1>3, <1>7 DEF W!PassGate, W!TakeBatch, WorkerHas
<1>8. CASE W!Generated(v)
  <2>1. pc'[v] = "write" /\ lang'[v] = 1
    BY <1>1, <1>3, <1>8 DEF W!Generated, WorkerHas
  <2>2. \A l \in Langs : ~(l < 1)
    BY <1>2 DEF Langs
  <2> QED
    BY <2>1, <2>2 DEF WorkerHas, Langs
<1>9. CASE W!NoSpeech(v)
  <2>1. /\ pc'[v] = "write"
        /\ W!Current(v)' = W!Current(v)
        /\ W!Current(v) \in ItemIds
    BY <1>3, <1>4, <1>9 DEF W!NoSpeech, W!Current
  <2>2. \A l \in Langs : out'[<<W!Current(v), l>>] # "none"
    BY <1>3, <1>9, <2>1, RowWritten DEF W!NoSpeech, W!ItemIds, W!Langs, ItemIds, Langs
  <2> QED
    BY <2>1, <2>2 DEF WorkerHas, Langs
<1>10. CASE W!WriteRow(v)
  <2>1. /\ pc'[v] = "write"
        /\ W!Current(v)' = W!Current(v)
        /\ W!Current(v) \in ItemIds
        /\ lang[v] \in Langs
        /\ lang'[v] = lang[v] + 1
    BY <1>3, <1>4, <1>10 DEF W!WriteRow, W!Writing, W!Current, W!Langs, Langs
  <2>2. out'[<<W!Current(v), lang[v]>>] # "none"
    BY <1>1, <1>3, <1>10, <2>1, WriteRowOut
  <2>3. ASSUME NEW l \in Langs, l < lang'[v]
        PROVE  out'[<<W!Current(v), l>>] # "none"
    <3>1. l = lang[v] \/ l < lang[v]
      BY <1>2, <2>1, <2>3 DEF Langs
    <3>2. CASE l < lang[v]
      <4>1. out[<<W!Current(v), l>>] # "none"
        BY <1>1, <1>10, <2>3, <3>2 DEF WorkerHas, W!WriteRow, W!Writing
      <4> QED
        BY <2>1, <2>3, <4>1, OutStays
    <3> QED
      BY <2>2, <3>1, <3>2
  <2> QED
    BY <2>1, <2>3 DEF WorkerHas, Langs
<1>11. CASE W!PostDone(v)
  <2>1. /\ pc'[v] = "post_done" /\ lang'[v] = 1
        /\ W!Current(v)' = W!Current(v)
        /\ W!Current(v) \in ItemIds
        /\ UNCHANGED out
    BY <1>3, <1>4, <1>11 DEF W!PostDone, W!Current, W!shards
  <2>2. \A l \in Langs : l < lang[v]
    BY <1>2, <1>11 DEF W!PostDone, Langs
  <2>3. \A l \in Langs : out[<<W!Current(v), l>>] # "none"
    BY <1>1, <1>11, <2>2 DEF WorkerHas, W!PostDone
  <2> QED
    BY <2>1, <2>3 DEF WorkerHas, Has, Langs
<1>12. CASE W!Misfire(v) \/ W!Crash(v)
  BY <1>3, <1>12 DEF W!Misfire, W!Crash, WorkerHas
<1>13. CASE W!Answered(v) \/ W!PostRaises(v)
  <2>1. pc'[v] \in {"idle", "generate", "post_failed"} /\ lang'[v] = lang[v]
    BY <1>3, <1>13 DEF W!Answered, W!PostRaises, W!Advance
  <2>2. lang[v] = 1
    BY <1>1, <1>13 DEF W!Answered, W!PostRaises, W!Posting, WorkerHas
  <2> QED
    BY <2>1, <2>2 DEF WorkerHas
<1>14. ASSUME NEW w \in Workers, WorkerActs(w), w # v
       PROVE  UNCHANGED <<pc[v], batch[v], lang[v]>>
  BY <1>3, <1>14
     DEF WorkerActs, W!Internal, W!PassGate, W!Generated, W!NoSpeech, W!WriteRow, W!Misfire,
         W!PostDone, W!TakeBatch, W!Answered, W!PostRaises, W!Advance, W!Crash
<1>15. WorkerActs(v) => WorkerHas(v)'
  BY <1>7, <1>8, <1>9, <1>10, <1>11, <1>12, <1>13 DEF WorkerActs, W!Internal
<1>16. UNCHANGED worker => UNCHANGED <<pc[v], batch[v], lang[v]>>
  BY DEF worker
<1> QED
  BY <1>6, <1>14, <1>15, <1>16, WorkerStepOf

LEMMA LateHasStep == Typed /\ NetTyped /\ OutputInv /\ [Next]_vars => LateHas'
<1> SUFFICES ASSUME Typed, NetTyped, OutputInv, [Next]_vars,
                    NEW r \in late', r.status = "done"
             PROVE  Has(r.item)'
  BY DEF LateHas
<1>1. CASE r \in late
  <2>1. r.item \in ItemIds /\ Has(r.item)
    BY <1>1 DEF OutputInv, LateHas, NetTyped, Report
  <2> QED
    BY <2>1, HasStays
<1>2. ASSUME NEW w \in Workers, W!Posting(w), r = ReportOf(w)
      PROVE  Has(r.item)'
  <2>1. r.item = W!Current(w) /\ pc[w] = "post_done"
    BY <1>2 DEF ReportOf, W!Verdict
  <2>2. W!Current(w) \in ItemIds
    BY <2>1, BusyCurrent DEF Typed
  <2>3. Has(W!Current(w))
    BY <2>1 DEF OutputInv, WorkerHas
  <2> QED
    BY <2>1, <2>2, <2>3, HasStays
<1>3. r \in late \/ \E w \in Workers : W!Posting(w) /\ r = ReportOf(w)
  <2>1. ASSUME NEW w \in Workers, ReportTimesOut(w) \/ WorkerCrash(w)
        PROVE  r \in late \/ (W!Posting(w) /\ r = ReportOf(w))
    BY <2>1 DEF ReportTimesOut, WorkerCrash, W!PostRaises, W!Posting
  <2>2. \/ late' \subseteq late
        \/ \E w \in Workers : ReportTimesOut(w) \/ WorkerCrash(w)
    BY DEF Next, LeaseAnswered, LeaseTimesOut, StrayLease, ReportAnswered, ReportRefused,
           WorkerStep, LateReport, CoordinatorStops, CoordinatorStarts, CoordinatorStep,
           PeriodicThread, TimePasses, vars, net
  <2> QED
    BY <2>1, <2>2
<1> QED
  BY <1>1, <1>2, <1>3

LEMMA OutputInit == Init => OutputInv
<1> SUFFICES ASSUME Init
             PROVE  OutputInv
  OBVIOUS
<1>1. DoneHas(items) /\ DoneHas(snapshot)
  BY DEF Init, C!Init, C!NoRows, C!Absent, C!Unleased, C!ItemIds, ItemIds, DoneHas
<1>2. ASSUME NEW w \in Workers
      PROVE  WorkerHas(w)
  BY DEF Init, W!Init, WorkerHas
<1> QED
  BY <1>1, <1>2 DEF Init, OutputInv, LateHas

\* Each row that is lost, and each unfinished line, comes from a write of its own
\* that was cut off.
LossInv == IsFiniteSet(torn) /\ Cardinality(Lost) + Cardinality(torn) <= tears

LEMMA FewRows ==
  \A S : S \subseteq ItemIds \X Langs => IsFiniteSet(S) /\ Cardinality(S) \in Nat
<1>1. IsFiniteSet(ItemIds) /\ IsFiniteSet(Langs)
  BY FS_Interval, PipelineAssumption DEF ItemIds, Langs, C!CoordinatorAssumption
<1>2. IsFiniteSet(ItemIds \X Langs)
  BY <1>1, FS_Product
<1> QED
  BY <1>2, FS_Subset, FS_CardinalityType

LEMMA OneMore ==
  ASSUME NEW S, NEW x, IsFiniteSet(S)
  PROVE  /\ IsFiniteSet(S \cup {x})
         /\ Cardinality(S \cup {x}) \in Nat
         /\ Cardinality(S \cup {x}) <= Cardinality(S) + 1
<1>1. /\ IsFiniteSet(S \cup {x})
      /\ \/ Cardinality(S \cup {x}) = Cardinality(S)
         \/ Cardinality(S \cup {x}) = Cardinality(S) + 1
  BY FS_AddElement
<1>2. Cardinality(S) \in Nat /\ Cardinality(S \cup {x}) \in Nat
  BY <1>1, FS_CardinalityType
<1> QED
  BY <1>1, <1>2

LEMMA LossShrinks ==
  ASSUME LossInv, tears \in Nat, Lost' \subseteq Lost, torn' \subseteq torn, tears' = tears
  PROVE  LossInv'
<1>1. Lost \subseteq ItemIds \X Langs
  BY DEF Lost, Langs
<1>2. Cardinality(Lost') <= Cardinality(Lost) /\ Cardinality(Lost) \in Nat
      /\ Cardinality(Lost') \in Nat
  BY <1>1, FewRows, FS_Subset, FS_CardinalityType
<1>3. IsFiniteSet(torn') /\ Cardinality(torn') <= Cardinality(torn)
      /\ Cardinality(torn) \in Nat /\ Cardinality(torn') \in Nat
  BY FS_Subset, FS_CardinalityType DEF LossInv
<1> QED
  BY <1>2, <1>3 DEF LossInv

LEMMA LossStep == Typed /\ LossInv /\ [Next]_vars => LossInv'
<1> SUFFICES ASSUME Typed, LossInv, [Next]_vars
             PROVE  LossInv'
  OBVIOUS
<1>1. W!TypeOK /\ tears \in Nat /\ Cardinality(torn) \in Nat
  BY PipelineAssumption, FS_CardinalityType DEF Typed, W!TypeOK, LossInv
<1>2. out \in [ItemIds \X Langs -> RowStates]
  BY <1>1 DEF W!TypeOK, W!ItemIds, W!Langs, ItemIds, Langs, RowStates
<1>3. UNCHANGED <<out, torn, tears>> => LossInv'
  BY DEF LossInv, Lost
<1>4. ASSUME NEW w \in Workers, W!NoSpeech(w)
      PROVE  LossInv'
  <2>1. Lost' \subseteq Lost
    BY <1>2, <1>4 DEF Lost, W!NoSpeech, W!Dropped, W!ItemIds, W!Langs, ItemIds, Langs, RowStates
  <2> QED
    BY <1>1, <1>4, <2>1, LossShrinks DEF W!NoSpeech
<1>5. ASSUME NEW w \in Workers, W!WriteRow(w)
      PROVE  LossInv'
  <2> DEFINE il == <<W!Current(w), lang[w]>>
  <2>1. il \in ItemIds \X Langs /\ tears' = tears
    BY <1>1, <1>5, WriteRowOut DEF W!WriteRow, Langs
  <2>2. CASE out' = [out EXCEPT ![il] = W!Dropped(@)] /\ UNCHANGED torn
    <3>1. Lost' \subseteq Lost
      BY <1>2, <2>1, <2>2 DEF Lost, W!Dropped, Langs, RowStates
    <3> QED
      BY <1>1, <2>1, <2>2, <3>1, LossShrinks
  <2>3. CASE out' = [out EXCEPT ![il] = W!Appended(w, @)] /\ torn' = torn \ {w}
    <3>1. CASE w \notin torn
      <4>1. Lost' \subseteq Lost
        BY <1>2, <2>1, <2>3, <3>1 DEF Lost, W!Appended, Langs, RowStates
      <4> QED
        BY <1>1, <2>1, <2>3, <4>1, LossShrinks
    <3>2. CASE w \in torn
      <4>1. Lost' \subseteq Lost \cup {il}
        BY <1>2, <2>1, <2>3 DEF Lost, Langs
      <4>2. IsFiniteSet(Lost) /\ Cardinality(Lost) \in Nat
        BY FewRows DEF Lost, Langs
      <4>3. IsFiniteSet(Lost \cup {il}) /\ Cardinality(Lost \cup {il}) <= Cardinality(Lost) + 1
        BY <4>2, OneMore
      <4>4. Cardinality(Lost') <= Cardinality(Lost) + 1 /\ Cardinality(Lost') \in Nat
        BY <4>1, <4>2, <4>3, FS_Subset, FS_CardinalityType
      <4>5. IsFiniteSet(torn') /\ Cardinality(torn') = Cardinality(torn) - 1
        BY <2>3, <3>2, FS_RemoveElement DEF LossInv
      <4> QED
        BY <1>1, <2>1, <4>2, <4>4, <4>5 DEF LossInv
    <3> QED
      BY <3>1, <3>2
  <2> QED
    BY <1>5, <2>2, <2>3 DEF W!WriteRow
<1>6. ASSUME NEW w \in Workers, W!ShardLeft(w)
      PROVE  LossInv'
  <2>1. out' = out /\ Lost' = Lost
    BY <1>6 DEF W!ShardLeft, Lost
  <2>2. CASE torn' \in {torn, torn \ {w}} /\ tears' = tears
    BY <1>1, <2>1, <2>2, LossShrinks
  <2>3. CASE torn' = torn \cup {w} /\ tears' = tears + 1
    <3>1. IsFiniteSet(torn') /\ Cardinality(torn') \in Nat
          /\ Cardinality(torn') <= Cardinality(torn) + 1
      BY <2>3, OneMore DEF LossInv
    <3>2. Cardinality(Lost) \in Nat
      BY FewRows DEF Lost, Langs
    <3> QED
      BY <1>1, <2>1, <2>3, <3>1, <3>2 DEF LossInv
  <2> QED
    BY <1>6, <2>2, <2>3 DEF W!ShardLeft
<1>7. ASSUME NEW w \in Workers, WorkerActs(w)
      PROVE  LossInv'
  <2>1. W!Misfire(w) \/ W!Crash(w) => LossInv'
    BY <1>3, <1>6 DEF W!Misfire, W!Crash, W!shards
  <2> QED
    BY <1>3, <1>4, <1>5, <1>7, <2>1
       DEF WorkerActs, W!Internal, W!PassGate, W!Generated, W!PostDone, W!TakeBatch, W!Answered,
           W!PostRaises, W!shards
<1>8. UNCHANGED worker => LossInv'
  BY <1>3 DEF worker
<1> QED
  BY <1>7, <1>8, WorkerStepOf

LEMMA LossInit == Init => LossInv
<1> SUFFICES ASSUME Init
             PROVE  LossInv
  OBVIOUS
<1>1. torn = {} /\ tears = 0 /\ Lost = {}
  BY DEF Init, W!Init, W!ItemIds, W!Langs, Lost, ItemIds, Langs
<1> QED
  BY <1>1, FS_EmptySet DEF LossInv

\* Whatever crashes, times out, is lost or repeated, an item that is done in
\* memory or in the checkpoint has had its rows flushed to the shards, and all
\* of them are there but for one per write that was cut off.
THEOREM DoneHasOutputAlways == Spec => []DoneHasOutput
<1> DEFINE Inv == Typed /\ NetTyped /\ OutputInv /\ LossInv
<1>1. Init => Inv
  BY NetInit, TypedInit, OutputInit, LossInit
<1>2. Inv /\ [Next]_vars => Inv'
  <2> SUFFICES ASSUME Inv, [Next]_vars
               PROVE  Inv'
    OBVIOUS
  <2>1. \A w \in Workers : WorkerHas(w)'
    BY WorkerHasStep
  <2>2. OutputInv'
    BY <2>1, DoneHasStep, LateHasStep DEF OutputInv
  <2> QED
    BY <2>2, TypedStep, NetStep, LossStep
<1>3. Inv => DoneHasOutput
  BY DEF OutputInv, DoneHas, Has, Langs, DoneIsWritten, LossInv, DoneHasOutput
<1> QED
  BY <1>1, <1>2, <1>3, PTL DEF Spec

----------------------------------------------------------------------------
(* Leases and batches, while nothing crashes, stops or times out. *)

LeasedTo(rows, i, w) == rows[i].status = "leased" /\ rows[i].lease_owner = w

\* A coordinator that is not up has never been up.
NeverUp ==
    /\ \A i \in ItemIds : items[i].status = "absent" /\ snapshot[i].status = "absent"
    /\ \A w \in Workers : batch[w] = {}

Undisturbed ==
    faults = 0 =>
        /\ stray = {}
        /\ late = {}
        /\ ~up => NeverUp
        /\ \A i \in ItemIds :
               items[i].status = "leased" =>
                   \E w \in Workers : items[i].lease_owner = w /\ i \in batch[w]
        /\ ~overdue =>
               \A i \in ItemIds, w \in Workers : i \in batch[w] => LeasedTo(items, i, w)

LEMMA UndisturbedInit == Init => Undisturbed
  BY DEF Init, C!Init, W!Init, C!NoRows, C!Absent, C!Unleased, C!ItemIds, ItemIds,
         Undisturbed, NeverUp

\* What the steps that neither lease nor report leave alone.
LeasesStay ==
    /\ UNCHANGED <<batch, stray, late, faults, overdue>>
    /\ \A i \in ItemIds :
           items[i].status # "absent" =>
               /\ items'[i].status = items[i].status
               /\ items'[i].lease_owner = items[i].lease_owner
    /\ \A i \in ItemIds : items[i].status = "absent" => items'[i].status # "leased"
    /\ \/ up /\ up'
       \/ /\ ~up /\ ~up'
          /\ \A i \in ItemIds : /\ items'[i].status = items[i].status
                                /\ snapshot'[i].status = snapshot[i].status

LEMMA StepLeasesStay ==
  ASSUME Typed,
         \/ \E w \in Workers : WorkerStep(w)
         \/ CoordinatorStep \/ PeriodicThread \/ TimePasses \/ UNCHANGED vars
  PROVE  LeasesStay
<1>1. C!TypeOK
  BY DEF Typed
<1>2. CASE \E w \in Workers : WorkerStep(w)
  <2>1. UNCHANGED <<batch, coordinator, net, overdue>>
    BY <1>2 DEF WorkerStep, W!Internal, W!PassGate, W!Generated, W!NoSpeech, W!WriteRow,
                W!Misfire, W!PostDone
  <2> QED
    BY <1>1, <2>1 DEF coordinator, net, LeasesStay, C!TypeOK
<1>3. CASE CoordinatorStep
  <2>1. \A m : \A i \in ItemIds :
            C!Merge(items, m)[i] = items[i]
            \/ (items[i].status = "absent" /\ C!Merge(items, m)[i].status = "pending")
    BY <1>1 DEF C!Merge, C!Fresh, C!Unleased, C!ItemIds, ItemIds, C!TypeOK
  <2> QED
    BY <1>1, <1>3, <2>1 DEF CoordinatorStep, C!Rescan, C!ScanOnly, C!StartFails, worker, net,
                            LeasesStay, C!TypeOK
<1>4. CASE PeriodicThread
  BY <1>1, <1>4 DEF PeriodicThread, C!PeriodicSave, C!PeriodicSaveFails, worker, net, LeasesStay
<1>5. CASE TimePasses
  <2>1. \A i \in ItemIds :
            /\ C!Aged(items)[i].status = items[i].status
            /\ C!Aged(items)[i].lease_owner = items[i].lease_owner
            /\ C!Aged(snapshot)[i].status = snapshot[i].status
    BY <1>1 DEF C!Aged, C!TypeOK, C!Row, C!ItemIds, ItemIds
  <2> QED
    BY <1>1, <1>5, <2>1 DEF TimePasses, C!Tick, worker, net, LeasesStay, C!TypeOK
<1>6. CASE UNCHANGED vars
  BY <1>1, <1>6 DEF vars, coordinator, worker, net, LeasesStay, C!TypeOK
<1> QED
  BY <1>2, <1>3, <1>4, <1>5, <1>6

\* What a lease does to a row that was not overdue.
LEMMA LeaseStep ==
  ASSUME Typed, NEW w \in Workers, C!Lease(w)
  PROVE  LET rows == C!Reaped(items)
             given == C!FirstPending(rows, BatchSize)
         IN  \A i \in ItemIds :
                /\ i \in given => LeasedTo(items', i, w) /\ rows[i].status = "pending"
                /\ i \notin given =>
                       items'[i] = items[i] \/ (items'[i].status = "pending" /\ rows # items)
                /\ items[i].status = "done" => items'[i].status = "done"
<1> DEFINE rows == C!Reaped(items)
           given == C!FirstPending(rows, BatchSize)
<1>1. items \in [ItemIds -> C!Row]
  BY DEF Typed, C!TypeOK, C!ItemIds, ItemIds
<1>2. given \subseteq {i \in ItemIds : rows[i].status = "pending"}
  BY GivenItems
<1>3. items' = C!LeaseOut(rows, given, w)
  BY DEF C!Lease
<1> SUFFICES ASSUME NEW i \in ItemIds
             PROVE  /\ i \in given => LeasedTo(items', i, w) /\ rows[i].status = "pending"
                    /\ i \notin given =>
                           items'[i] = items[i] \/ (items'[i].status = "pending" /\ rows # items)
                    /\ items[i].status = "done" => items'[i].status = "done"
  OBVIOUS
<1>4. /\ rows[i] = items[i] \/ (rows[i].status = "pending" /\ items[i].status = "leased")
      /\ rows # items \/ rows[i] = items[i]
  BY <1>1 DEF C!Reaped, C!Unleased, C!ItemIds, ItemIds
<1> HIDE DEF rows, given
<1>5. /\ i \in given => items'[i].status = "leased" /\ items'[i].lease_owner = w
      /\ i \notin given => items'[i] = rows[i]
  BY <1>3 DEF C!LeaseOut, C!ItemIds, ItemIds
<1>6. i \in given => rows[i].status = "pending"
  BY <1>2
<1> QED
  BY <1>4, <1>5, <1>6 DEF LeasedTo

LEMMA Faulted ==
  ASSUME NetTyped, Fault
  PROVE  faults' # 0
  BY PipelineAssumption DEF NetTyped, Fault

\* The item of a report that is answered, while leases and batches agree.
LEMMA AnsweredStep ==
  ASSUME Typed, NEW w \in Workers, ReportAnswered(w)
  PROVE  LET j == W!Current(w) IN
         /\ j \in batch[w]
         /\ batch' = [batch EXCEPT ![w] = @ \ {j}]
         /\ items'[j].status # "leased"
         /\ \A i \in ItemIds \ {j} : items'[i] = items[i]
         /\ UNCHANGED <<up, stray, late, faults, overdue>>
<1> DEFINE j == W!Current(w)
<1>1. j \in batch[w] /\ j \in ItemIds
  BY BusyCurrent DEF ReportAnswered, W!Answered, W!Posting, Typed
<1>2. batch' = [batch EXCEPT ![w] = batch[w] \ {j}]
  BY DEF ReportAnswered, W!Answered, W!Advance
<1>3. items' = [items EXCEPT ![j] = C!Reported(items[j], W!Verdict(w))] /\ up' = up
  <2>1. C!Complete(j, W!Verdict(w))
    BY DEF ReportAnswered
  <2>2. up' = up
    BY <2>1 DEF C!Complete, C!CompleteUnsaved, C!CompleteSaved, C!CompleteSaveFails, C!Report
  <2> QED
    BY <2>1, <2>2, CompleteStep DEF Typed
<1>4. C!Reported(items[j], W!Verdict(w)).status # "leased"
  BY DEF C!Reported, C!Unleased
<1>5. items \in [ItemIds -> C!Row]
  BY DEF Typed, C!TypeOK, C!ItemIds, ItemIds
<1>6. UNCHANGED <<stray, late, faults, overdue>>
  BY DEF ReportAnswered, net
<1> HIDE DEF j
<1>7. items'[j].status # "leased" /\ \A i \in ItemIds \ {j} : items'[i] = items[i]
  BY <1>1, <1>3, <1>4, <1>5
<1> QED
  BY <1>1, <1>2, <1>3, <1>6, <1>7 DEF j

\* While nothing has failed, a step starts the coordinator for the first time,
\* leases, records an answered report, or leaves the leases alone.
LEMMA UndisturbedSteps ==
  ASSUME Typed, NetTyped, Undisturbed, [Next]_vars, faults' = 0
  PROVE  /\ faults = 0
         /\ \/ \E w \in Workers : LeaseAnswered(w) \/ ReportAnswered(w)
            \/ CoordinatorStarts
            \/ LeasesStay
<1>1. ~Fault
  BY Faulted
<1>2. ASSUME NEW w \in Workers, LeaseTimesOut(w) \/ ReportTimesOut(w) \/ WorkerCrash(w)
      PROVE  FALSE
  BY <1>1, <1>2 DEF LeaseTimesOut, ReportTimesOut, WorkerCrash
<1>3. ~CoordinatorStops
  BY <1>1 DEF CoordinatorStops
<1>4. ASSUME NEW w \in Workers, StrayLease(w)
      PROVE  FALSE
  BY <1>4 DEF StrayLease, Undisturbed
<1>5. ASSUME NEW r \in Report, LateReport(r)
      PROVE  FALSE
  BY <1>5 DEF LateReport, Undisturbed
<1>6. ASSUME NEW w \in Workers, ReportRefused(w)
      PROVE  FALSE
  <2>1. batch[w] = {}
    BY <1>6 DEF ReportRefused, net, Undisturbed, NeverUp
  <2>2. batch[w] # {}
    BY <1>6 DEF ReportRefused, W!PostRaises, Typed, W!TypeOK
  <2> QED
    BY <2>1, <2>2
<1>7. \/ \E w \in Workers : LeaseAnswered(w) \/ ReportAnswered(w) \/ WorkerStep(w)
      \/ CoordinatorStarts \/ CoordinatorStep \/ PeriodicThread \/ TimePasses
      \/ UNCHANGED vars
  BY <1>2, <1>3, <1>4, <1>5, <1>6 DEF Next
<1>8. faults = 0
  BY <1>7 DEF LeaseAnswered, ReportAnswered, WorkerStep, CoordinatorStarts, CoordinatorStep,
              PeriodicThread, TimePasses, net, vars
<1> QED
  BY <1>7, <1>8, StepLeasesStay

LEMMA UndisturbedStep ==
  Typed /\ NetTyped /\ Undisturbed /\ [Next]_vars => Undisturbed'
<1> SUFFICES ASSUME Typed, NetTyped, Undisturbed, [Next]_vars, faults' = 0
             PROVE  /\ stray' = {}
                    /\ late' = {}
                    /\ ~up' => NeverUp'
                    /\ \A i \in ItemIds :
                           items'[i].status = "leased" =>
                               \E w \in Workers : items'[i].lease_owner = w /\ i \in batch'[w]
                    /\ ~overdue' =>
                           \A i \in ItemIds, w \in Workers :
                               i \in batch'[w] => LeasedTo(items', i, w)
  BY DEF Undisturbed, LeasedTo, ItemIds
<1>1. /\ stray = {} /\ late = {}
      /\ ~up => NeverUp
      /\ \A i \in ItemIds :
             items[i].status = "leased" =>
                 \E w \in Workers : items[i].lease_owner = w /\ i \in batch[w]
      /\ ~overdue =>
             \A i \in ItemIds, w \in Workers : i \in batch[w] => LeasedTo(items, i, w)
  BY UndisturbedSteps DEF Undisturbed
<1>2. batch \in [Workers -> SUBSET ItemIds]
  BY DEF Typed, W!TypeOK, W!ItemIds, ItemIds
<1>3. ASSUME NEW v \in Workers, LeaseAnswered(v)
      PROVE  /\ stray' = {} /\ late' = {} /\ up'
             /\ \A i \in ItemIds :
                    items'[i].status = "leased" =>
                        \E w \in Workers : items'[i].lease_owner = w /\ i \in batch'[w]
             /\ ~overdue' =>
                    \A i \in ItemIds, w \in Workers :
                        i \in batch'[w] => LeasedTo(items', i, w)
  <2> DEFINE rows == C!Reaped(items)
             given == C!FirstPending(rows, BatchSize)
  <2>1. /\ UNCHANGED <<stray, late>>
        /\ up'
        /\ batch[v] = {}
        /\ batch' = [batch EXCEPT ![v] = given]
    BY <1>3 DEF LeaseAnswered, net, C!Lease, W!TakeBatch, Typed, W!TypeOK
  <2>2. ~overdue' => ~overdue /\ rows = items
    BY <1>3 DEF LeaseAnswered, Recycles
  <2>3. \A i \in ItemIds :
            /\ i \in given => LeasedTo(items', i, v) /\ rows[i].status = "pending"
            /\ i \notin given =>
                   items'[i] = items[i] \/ (items'[i].status = "pending" /\ rows # items)
    BY <1>3, LeaseStep DEF LeaseAnswered
  <2> HIDE DEF rows, given
  <2>4. ASSUME NEW i \in ItemIds, items'[i].status = "leased"
        PROVE  \E w \in Workers : items'[i].lease_owner = w /\ i \in batch'[w]
    <3>1. CASE i \in given
      BY <1>2, <2>1, <2>3, <3>1 DEF LeasedTo
    <3>2. CASE i \notin given
      <4>1. items'[i] = items[i]
        BY <2>3, <2>4, <3>2
      <4>2. PICK w \in Workers : items[i].lease_owner = w /\ i \in batch[w]
        BY <1>1, <2>4, <4>1
      <4> QED
        BY <1>2, <2>1, <4>1, <4>2
    <3> QED
      BY <3>1, <3>2
  <2>5. ASSUME ~overdue', NEW i \in ItemIds, NEW w \in Workers, i \in batch'[w]
        PROVE  LeasedTo(items', i, w)
    <3>1. CASE w = v
      BY <1>2, <2>1, <2>3, <2>5, <3>1
    <3>2. CASE w # v
      <4>1. LeasedTo(items, i, w)
        BY <1>1, <1>2, <2>1, <2>2, <2>5, <3>2
      <4>2. i \notin given
        BY <2>2, <2>3, <2>5, <4>1 DEF LeasedTo
      <4> QED
        BY <2>2, <2>3, <2>5, <4>1, <4>2 DEF LeasedTo
    <3> QED
      BY <3>1, <3>2
  <2> QED
    BY <1>1, <2>1, <2>4, <2>5
<1>4. ASSUME NEW v \in Workers, ReportAnswered(v)
      PROVE  /\ stray' = {} /\ late' = {} /\ up'
             /\ \A i \in ItemIds :
                    items'[i].status = "leased" =>
                        \E w \in Workers : items'[i].lease_owner = w /\ i \in batch'[w]
             /\ ~overdue' =>
                    \A i \in ItemIds, w \in Workers :
                        i \in batch'[w] => LeasedTo(items', i, w)
  <2> DEFINE j == W!Current(v)
  <2>1. /\ j \in batch[v]
        /\ batch' = [batch EXCEPT ![v] = @ \ {j}]
        /\ items'[j].status # "leased"
        /\ \A i \in ItemIds \ {j} : items'[i] = items[i]
        /\ UNCHANGED <<up, stray, late, overdue>>
    BY <1>4, AnsweredStep
  <2>2. up
    BY <1>1, <2>1 DEF NeverUp
  <2> HIDE DEF j
  <2>3. ASSUME NEW i \in ItemIds, items'[i].status = "leased"
        PROVE  \E w \in Workers : items'[i].lease_owner = w /\ i \in batch'[w]
    <3>1. i # j /\ items'[i] = items[i]
      BY <2>1, <2>3
    <3>2. PICK w \in Workers : items[i].lease_owner = w /\ i \in batch[w]
      BY <1>1, <2>3, <3>1
    <3>3. i \in batch'[w]
      BY <1>2, <2>1, <3>1, <3>2
    <3> QED
      BY <3>1, <3>2, <3>3
  <2>4. ASSUME ~overdue', NEW i \in ItemIds, NEW w \in Workers, i \in batch'[w]
        PROVE  LeasedTo(items', i, w)
    <3>1. i \in batch[w] /\ ~(w = v /\ i = j)
      BY <1>2, <2>1, <2>4
    <3>2. LeasedTo(items, i, w) /\ LeasedTo(items, j, v)
      BY <1>1, <1>2, <2>1, <2>4, <3>1
    <3>3. i # j
      BY <3>1, <3>2 DEF LeasedTo
    <3> QED
      BY <2>1, <3>2, <3>3 DEF LeasedTo
  <2> QED
    BY <1>1, <2>1, <2>2, <2>3, <2>4
<1>5. CASE CoordinatorStarts
  <2>1. NeverUp /\ up'
    BY <1>1, <1>5 DEF CoordinatorStarts, C!Start
  <2>2. \A m : \A i \in ItemIds : C!Merge(snapshot, m)[i].status # "leased"
    BY <2>1 DEF NeverUp, C!Merge, C!Fresh, C!Unleased, C!ItemIds, ItemIds
  <2>3. \A i \in ItemIds : items'[i].status # "leased"
    BY <1>5, <2>2 DEF CoordinatorStarts, C!Start
  <2>4. \A w \in Workers : batch'[w] = {}
    BY <1>5, <2>1 DEF CoordinatorStarts, worker, NeverUp
  <2> QED
    BY <1>1, <1>5, <2>1, <2>3, <2>4 DEF CoordinatorStarts, net
<1>6. CASE LeasesStay
  <2>1. ~up' => NeverUp'
    BY <1>1, <1>6 DEF LeasesStay, NeverUp, ItemIds
  <2>2. \A i \in ItemIds : items'[i].status = "leased" =>
            items[i].status = "leased" /\ items'[i].lease_owner = items[i].lease_owner
    BY <1>6 DEF LeasesStay
  <2>3. \A i \in ItemIds, w \in Workers : LeasedTo(items, i, w) => LeasedTo(items', i, w)
    BY <1>6 DEF LeasesStay, LeasedTo
  <2>4. UNCHANGED <<batch, stray, late, overdue>>
    BY <1>6 DEF LeasesStay
  <2> QED
    BY <1>1, <2>1, <2>2, <2>3, <2>4
<1> QED
  BY <1>3, <1>4, <1>5, <1>6, UndisturbedSteps

LEMMA UndisturbedAlways == Spec => [](Typed /\ NetTyped /\ Undisturbed)
<1>1. Init => Typed /\ NetTyped /\ Undisturbed
  BY TypedInit, NetInit, UndisturbedInit
<1>2. Typed /\ NetTyped /\ Undisturbed /\ [Next]_vars => (Typed /\ NetTyped /\ Undisturbed)'
  BY TypedStep, NetStep, UndisturbedStep
<1> QED
  BY <1>1, <1>2, PTL DEF Spec

\* As long as nothing failed, a leased item is in the hands of its owner.
THEOREM NoOrphanLeaseAlways == Spec => []NoOrphanLease
<1>1. Undisturbed => NoOrphanLease
  BY DEF Undisturbed, NoOrphanLease
<1> QED
  BY <1>1, UndisturbedAlways, PTL

\* As long as nothing failed and no lease ran out, the leases in the table and
\* the batches of the workers are the same.
THEOREM LeaseAgreementAlways == Spec => []LeaseAgreement
<1>1. Undisturbed => LeaseAgreement
  BY DEF Undisturbed, LeaseAgreement, LeasedTo
<1> QED
  BY <1>1, UndisturbedAlways, PTL

\* As long as nothing failed and no lease ran out, done is final.
THEOREM DoneIsFinalAlways == Spec => DoneIsFinal
<1> DEFINE Keeps == faults' = 0 /\ ~overdue' =>
                        \A i \in ItemIds : items[i].status = "done" => items'[i].status = "done"
<1>1. Typed /\ NetTyped /\ Undisturbed /\ [Next]_vars => Keeps
  <2> SUFFICES ASSUME Typed, NetTyped, Undisturbed, [Next]_vars, faults' = 0, ~overdue',
                      NEW i \in ItemIds, items[i].status = "done"
               PROVE  items'[i].status = "done"
    OBVIOUS
  <2>1. faults = 0
    BY UndisturbedSteps
  <2>2. ASSUME NEW w \in Workers, LeaseAnswered(w)
        PROVE  items'[i].status = "done"
    BY <2>2, LeaseStep DEF LeaseAnswered
  <2>3. ASSUME NEW w \in Workers, ReportAnswered(w)
        PROVE  items'[i].status = "done"
    <3> DEFINE j == W!Current(w)
    <3>1. j \in batch[w] /\ ~overdue /\ \A k \in ItemIds \ {j} : items'[k] = items[k]
      BY <2>3, AnsweredStep
    <3>2. j \in ItemIds
      BY <2>3, BusyCurrent DEF ReportAnswered, W!Answered, W!Posting, Typed
    <3>3. LeasedTo(items, j, w)
      BY <2>1, <3>1, <3>2 DEF Undisturbed
    <3> QED
      BY <3>1, <3>3 DEF LeasedTo
  <2>4. CASE CoordinatorStarts
    BY <2>1, <2>4 DEF CoordinatorStarts, C!Start, Undisturbed, NeverUp
  <2>5. CASE LeasesStay
    BY <2>5 DEF LeasesStay
  <2> QED
    BY <2>2, <2>3, <2>4, <2>5, UndisturbedSteps
<1> QED
  BY <1>1, UndisturbedAlways, PTL DEF Spec, DoneIsFinal

=============================================================================
