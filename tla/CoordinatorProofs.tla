------------------------- MODULE CoordinatorProofs -------------------------
(* Theorems about the coordinator, for all values of the constants.         *)
EXTENDS Coordinator, FiniteSetTheorems, WellFoundedInduction, TLAPS

----------------------------------------------------------------------------
(* The operators on tables. *)

Table == [ItemIds -> Row]

LEMMA FixedRows == Absent \in Row /\ Fresh \in Row /\ NoRows \in Table
  BY CoordinatorAssumption
     DEF Absent, Fresh, Unleased, NoRows, Row, Status, Table

LEMMA MergeTyped ==
  ASSUME NEW rows \in Table, NEW m \in 0..NItems
  PROVE  Merge(rows, m) \in Table
  BY FixedRows DEF Merge, Table

LEMMA ReapedTyped ==
  ASSUME NEW rows \in Table
  PROVE  Reaped(rows) \in Table
  BY CoordinatorAssumption DEF Reaped, Table, Row, Status, Unleased

LEMMA LeaseOutTyped ==
  ASSUME NEW rows \in Table, NEW out, NEW w \in Workers
  PROVE  LeaseOut(rows, out, w) \in Table
  BY CoordinatorAssumption DEF LeaseOut, Table, Row, Status

LEMMA ReportedTyped ==
  ASSUME NEW row \in Row, NEW st, st = "failed" => row.attempts < MaxAttempts,
         st \in {"done", "failed"}
  PROVE  Reported(row, st) \in Row
  BY CoordinatorAssumption DEF Reported, Row, Status, Unleased

LEMMA AgedTyped ==
  ASSUME NEW rows \in Table
  PROVE  Aged(rows) \in Table
<1> SUFFICES ASSUME NEW i \in ItemIds
             PROVE  Aged(rows)[i] \in Row
  BY DEF Aged, Table
<1>1. rows[i] \in Row
  BY DEF Table
<1>2. rows[i].ttl \in Int /\ rows[i].ttl - 1 \in Int
  BY <1>1, CoordinatorAssumption DEF Row
<1>3. CASE rows[i].ttl >= 0
  <2>1. rows[i].ttl - 1 \in -1..LEASE_TTL
    BY <1>1, <1>3, CoordinatorAssumption DEF Row
  <2> QED
    BY <1>1, <1>3, <2>1 DEF Aged, Row
<1>4. CASE ~(rows[i].ttl >= 0)
  BY <1>1, <1>4 DEF Aged
<1> QED
  BY <1>3, <1>4

----------------------------------------------------------------------------
(* Type correctness. *)

LEMMA TypeStep == TypeOK /\ [Next]_vars => TypeOK'
<1> SUFFICES ASSUME TypeOK, [Next]_vars
             PROVE  TypeOK'
  OBVIOUS
<1> USE DEF TypeOK
<1>0. items \in Table /\ snapshot \in Table
  BY DEF Table
<1>1. ASSUME NEW w \in Workers, Lease(w)
      PROVE  TypeOK'
  <2>1. items' \in Table
    BY <1>0, <1>1, ReapedTyped, LeaseOutTyped DEF Lease
  <2>2. handed' \subseteq ItemIds
    BY <1>1 DEF Lease, FirstPending, Pending
  <2>3. dirty' \in BOOLEAN
    BY <1>1 DEF Lease
  <2> QED
    BY <1>1, <2>1, <2>2, <2>3 DEF Lease, Table
<1>2. ASSUME NEW i \in ItemIds, NEW st \in {"done", "failed"}, Complete(i, st)
      PROVE  TypeOK'
  <2>1. Report(i, st)
    BY <1>2 DEF Complete, CompleteUnsaved, CompleteSaved, CompleteSaveFails
  <2>2. Reported(items[i], st) \in Row
    BY <2>1, ReportedTyped DEF Report
  <2>3. items' \in Table
    BY <1>0, <2>1, <2>2 DEF Report, Table
  <2>4. completed_since_save' \in 0..MaxCompleted
    BY <1>2, <2>1, CoordinatorAssumption
       DEF Complete, CompleteUnsaved, CompleteSaved, CompleteSaveFails, Report
  <2>5. snapshot' \in Table /\ dirty' \in BOOLEAN
    BY <1>0, <1>2, <2>3 DEF Complete, CompleteUnsaved, CompleteSaved, CompleteSaveFails
  <2> QED
    BY <2>1, <2>3, <2>4, <2>5 DEF Report, Table
<1>3. CASE PeriodicSave \/ PeriodicSaveFails
  BY <1>3 DEF PeriodicSave, PeriodicSaveFails
<1>4. CASE Rescan
  <2>1. PICK listed \in manifest..NItems :
          manifest' = listed /\ items' = Merge(items, listed)
    BY <1>4 DEF Rescan
  <2>2. listed \in 0..NItems
    BY <2>1
  <2>3. items' \in Table
    BY <1>0, <2>1, <2>2, MergeTyped
  <2> QED
    BY <1>4, <2>1, <2>2, <2>3 DEF Rescan, Table
<1>5. CASE ScanOnly
  BY <1>5 DEF ScanOnly
<1>6. CASE Crash \/ Sigterm
  <2>1. /\ up' = FALSE /\ items' = NoRows /\ dirty' = FALSE
        /\ completed_since_save' = 0 /\ saver' = FALSE
        /\ manifest' = manifest /\ handed' = handed
        /\ snapshot' \in {snapshot, items}
    BY <1>6 DEF Crash, Sigterm, Forget
  <2>2. items' \in Table /\ snapshot' \in Table
    BY <1>0, <2>1, FixedRows
  <2>3. completed_since_save' \in 0..MaxCompleted
    BY <2>1, CoordinatorAssumption
  <2> QED
    BY <2>1, <2>2, <2>3 DEF Table
<1>7. CASE Start
  <2>1. PICK listed \in manifest..NItems :
          /\ manifest' = listed
          /\ items' = Merge(snapshot, listed)
          /\ snapshot' = IF items' # snapshot THEN items' ELSE snapshot
    BY <1>7 DEF Start
  <2>2. listed \in 0..NItems
    BY <2>1
  <2>3. items' \in Table
    BY <1>0, <2>1, <2>2, MergeTyped
  <2> QED
    BY <1>7, <2>1, <2>2, <2>3 DEF Start, Table
<1>8. CASE StartFails
  BY <1>8 DEF StartFails
<1>9. CASE Tick
  <2>1. items' \in Table /\ snapshot' \in Table
    BY <1>0, <1>9, AgedTyped DEF Tick
  <2> QED
    BY <1>9, <2>1 DEF Tick, Table
<1>10. CASE UNCHANGED vars
  BY <1>10 DEF vars
<1> QED
  BY <1>1, <1>2, <1>3, <1>4, <1>5, <1>6, <1>7, <1>8, <1>9, <1>10 DEF Next

LEMMA TypeInit == Init => TypeOK
<1> SUFFICES ASSUME Init
             PROVE  TypeOK
  OBVIOUS
<1>1. items \in Table /\ snapshot \in Table
  BY FixedRows DEF Init
<1>2. completed_since_save \in 0..MaxCompleted /\ manifest \in 0..NItems
  BY CoordinatorAssumption DEF Init
<1> QED
  BY <1>1, <1>2 DEF Init, TypeOK, Table

\* The variables of the coordinator keep their types.
THEOREM TypeCorrect == Spec => []TypeOK
  BY TypeInit, TypeStep, PTL DEF Spec

----------------------------------------------------------------------------
(* The retry budget: every operator on tables keeps it. *)

LEMMA MergeKeepsBudget ==
  ASSUME NEW rows \in Table, NEW m \in 0..NItems, RetryBudgetOf(rows)
  PROVE  RetryBudgetOf(Merge(rows, m))
  BY CoordinatorAssumption DEF Merge, RetryBudgetOf, Fresh, Absent, Unleased, Table, Row

LEMMA ReapedKeepsBudget ==
  ASSUME NEW rows \in Table, RetryBudgetOf(rows)
  PROVE  RetryBudgetOf(Reaped(rows))
  BY CoordinatorAssumption DEF Reaped, RetryBudgetOf, Unleased, Table, Row

LEMMA LeaseOutKeepsBudget ==
  ASSUME NEW rows \in Table, NEW out \in SUBSET Pending(rows), NEW w \in Workers,
         RetryBudgetOf(rows)
  PROVE  RetryBudgetOf(LeaseOut(rows, out, w))
  BY CoordinatorAssumption DEF LeaseOut, Pending, RetryBudgetOf, Table, Row

LEMMA ReportedKeepsBudget ==
  ASSUME NEW rows \in Table, NEW i \in ItemIds, NEW st, RetryBudgetOf(rows)
  PROVE  RetryBudgetOf([rows EXCEPT ![i] = Reported(@, st)])
  BY CoordinatorAssumption DEF Reported, RetryBudgetOf, Unleased, Table, Row

LEMMA AgedKeepsBudget ==
  ASSUME NEW rows \in Table, RetryBudgetOf(rows)
  PROVE  RetryBudgetOf(Aged(rows))
  BY CoordinatorAssumption DEF Aged, RetryBudgetOf, Absent, Unleased, Table, Row

LEMMA NoRowsKeepBudget == RetryBudgetOf(NoRows)
  BY DEF NoRows, RetryBudgetOf, Absent, Unleased

LEMMA BudgetStep == TypeOK /\ RetryBudget /\ [Next]_vars => RetryBudget'
<1> SUFFICES ASSUME TypeOK, RetryBudget, [Next]_vars
             PROVE  RetryBudgetOf(items)' /\ RetryBudgetOf(snapshot)'
  BY DEF RetryBudget
<1>0. /\ items \in Table /\ snapshot \in Table /\ manifest \in 0..NItems
      /\ RetryBudgetOf(items) /\ RetryBudgetOf(snapshot)
  BY DEF Table, TypeOK, RetryBudget
<1>a. ASSUME items' = items, snapshot' \in {snapshot, items}
      PROVE  RetryBudgetOf(items)' /\ RetryBudgetOf(snapshot)'
  BY <1>0, <1>a DEF RetryBudgetOf
<1>b. ASSUME NEW rows, RetryBudgetOf(rows), items' = rows, snapshot' \in {snapshot, items, rows}
      PROVE  RetryBudgetOf(items)' /\ RetryBudgetOf(snapshot)'
  BY <1>0, <1>b DEF RetryBudgetOf
<1>1. ASSUME NEW w \in Workers, Lease(w)
      PROVE  RetryBudgetOf(items)' /\ RetryBudgetOf(snapshot)'
  <2> DEFINE rows == Reaped(items)
             out  == FirstPending(rows, BatchSize)
  <2>1. rows \in Table /\ RetryBudgetOf(rows)
    BY <1>0, ReapedTyped, ReapedKeepsBudget
  <2>2. out \in SUBSET Pending(rows)
    BY DEF FirstPending
  <2>3. RetryBudgetOf(LeaseOut(rows, out, w))
    BY <2>1, <2>2, LeaseOutKeepsBudget
  <2> QED
    BY <1>1, <1>b, <2>3 DEF Lease
<1>2. ASSUME NEW i \in ItemIds, NEW st \in {"done", "failed"}, Complete(i, st)
      PROVE  RetryBudgetOf(items)' /\ RetryBudgetOf(snapshot)'
  <2>1. items' = [items EXCEPT ![i] = Reported(@, st)]
    BY <1>2 DEF Complete, CompleteUnsaved, CompleteSaved, CompleteSaveFails, Report
  <2>2. snapshot' \in {snapshot, items'}
    BY <1>2 DEF Complete, CompleteUnsaved, CompleteSaved, CompleteSaveFails
  <2> QED
    BY <1>0, <1>b, <2>1, <2>2, ReportedKeepsBudget
<1>3. CASE PeriodicSave \/ PeriodicSaveFails
  BY <1>3, <1>a DEF PeriodicSave, PeriodicSaveFails
<1>4. CASE Rescan
  <2>1. PICK listed \in manifest..NItems :
          manifest' = listed /\ items' = Merge(items, listed)
    BY <1>4 DEF Rescan
  <2>2. listed \in 0..NItems
    BY <1>0, <2>1
  <2>3. snapshot' \in {snapshot, items'}
    BY <1>4 DEF Rescan
  <2> QED
    BY <1>0, <1>b, <2>1, <2>2, <2>3, MergeKeepsBudget
<1>5. CASE ScanOnly \/ StartFails
  BY <1>5, <1>a DEF ScanOnly, StartFails
<1>6. CASE Crash \/ Sigterm
  <2>1. items' = NoRows /\ snapshot' \in {snapshot, items}
    BY <1>6 DEF Crash, Sigterm, Forget
  <2> QED
    BY <1>b, <2>1, NoRowsKeepBudget
<1>7. CASE Start
  <2>1. PICK listed \in manifest..NItems :
          items' = Merge(snapshot, listed) /\ snapshot' \in {snapshot, items'}
    BY <1>7 DEF Start
  <2>2. listed \in 0..NItems
    BY <1>0, <2>1
  <2> QED
    BY <1>0, <1>b, <2>1, <2>2, MergeKeepsBudget
<1>8. CASE Tick
  <2>1. items' = Aged(items) /\ snapshot' = Aged(snapshot)
    BY <1>8 DEF Tick
  <2>2. RetryBudgetOf(Aged(items)) /\ RetryBudgetOf(Aged(snapshot))
    BY <1>0, AgedKeepsBudget
  <2> QED
    BY <2>1, <2>2 DEF RetryBudgetOf
<1>9. CASE UNCHANGED vars
  BY <1>9, <1>a DEF vars
<1> QED
  BY <1>1, <1>2, <1>3, <1>4, <1>5, <1>6, <1>7, <1>8, <1>9 DEF Next

\* No row of the table or of the checkpoint is worked on beyond its retry
\* budget, or given up before it, in whatever order leases, late reports,
\* crashes, saves and merges come.
THEOREM RetryBudgetHolds == Spec => []RetryBudget
<1>1. Init => RetryBudget
  BY NoRowsKeepBudget DEF Init, RetryBudget
<1> QED
  BY <1>1, BudgetStep, TypeCorrect, PTL DEF Spec

----------------------------------------------------------------------------
(* The manifest covers the table, the checkpoint and all leases. *)

Listed == 1..manifest

OnlyListed == Tracked(items) \cup Tracked(snapshot) \cup handed \subseteq Listed

TrackedInv == TypeOK /\ OnlyListed /\ HandedIsTracked

LEMMA TrackedOperators ==
  ASSUME NEW rows \in Table
  PROVE  /\ Tracked(Reaped(rows)) = Tracked(rows)
         /\ Tracked(Aged(rows)) = Tracked(rows)
         /\ \A m \in 0..NItems : Tracked(Merge(rows, m)) = Tracked(rows) \cup 1..m
         /\ \A w \in Workers, n \in Nat :
               Tracked(LeaseOut(rows, FirstPending(rows, n), w)) = Tracked(rows)
         /\ \A i \in Tracked(rows), st \in {"done", "failed"} :
               Tracked([rows EXCEPT ![i] = Reported(@, st)]) = Tracked(rows)
<1>1. Tracked(Reaped(rows)) = Tracked(rows)
  BY DEF Tracked, Reaped, Unleased
<1>2. Tracked(Aged(rows)) = Tracked(rows)
  BY DEF Tracked, Aged, Table, Row
<1>3. ASSUME NEW m \in 0..NItems
      PROVE  Tracked(Merge(rows, m)) = Tracked(rows) \cup 1..m
  BY CoordinatorAssumption DEF Tracked, Merge, Fresh, Unleased, ItemIds
<1>4. ASSUME NEW w \in Workers, NEW n \in Nat
      PROVE  Tracked(LeaseOut(rows, FirstPending(rows, n), w)) = Tracked(rows)
  BY DEF Tracked, LeaseOut, FirstPending, Pending
<1>5. ASSUME NEW i \in Tracked(rows), NEW st \in {"done", "failed"}
      PROVE  Tracked([rows EXCEPT ![i] = Reported(@, st)]) = Tracked(rows)
  BY DEF Tracked, Reported, Unleased, Table
<1> QED
  BY <1>1, <1>2, <1>3, <1>4, <1>5

LEMMA TrackedStep == TrackedInv /\ [Next]_vars => TrackedInv'
<1> SUFFICES ASSUME TypeOK, OnlyListed, HandedIsTracked, TypeOK', [Next]_vars
             PROVE  OnlyListed' /\ HandedIsTracked'
  BY TypeStep DEF TrackedInv
<1>0. /\ items \in Table /\ snapshot \in Table
      /\ manifest \in 0..NItems /\ manifest' \in 0..NItems
      /\ Tracked(items) \subseteq Listed /\ Tracked(snapshot) \subseteq Listed
      /\ handed \subseteq Listed
  BY DEF TypeOK, OnlyListed, Table
<1>a. /\ Tracked(items)' = Tracked(items') /\ Tracked(snapshot)' = Tracked(snapshot')
      /\ Listed' = 1..(manifest')
  BY DEF Tracked, Listed
<1>1. ASSUME NEW w \in Workers, Lease(w)
      PROVE  OnlyListed' /\ HandedIsTracked'
  <2> DEFINE rows == Reaped(items)
             out  == FirstPending(rows, BatchSize)
  <2>1. Tracked(rows) = Tracked(items) /\ rows \in Table
    BY <1>0, TrackedOperators, ReapedTyped
  <2>2. Tracked(LeaseOut(rows, out, w)) = Tracked(items)
    BY <2>1, TrackedOperators, CoordinatorAssumption
  <2>3. out \subseteq Tracked(items)
    BY <2>1 DEF FirstPending, Pending, Tracked
  <2>4. /\ items' = LeaseOut(rows, out, w) /\ handed' = handed \cup out
        /\ snapshot' = snapshot /\ manifest' = manifest /\ up
    BY <1>1 DEF Lease
  <2> QED
    BY <1>0, <1>a, <2>2, <2>3, <2>4 DEF OnlyListed, HandedIsTracked, Listed
<1>2. ASSUME NEW i \in ItemIds, NEW st \in {"done", "failed"}, Complete(i, st)
      PROVE  OnlyListed' /\ HandedIsTracked'
  <2>1. Report(i, st) /\ snapshot' \in {snapshot, items'}
    BY <1>2 DEF Complete, CompleteUnsaved, CompleteSaved, CompleteSaveFails
  <2>2. /\ items' = [items EXCEPT ![i] = Reported(@, st)] /\ i \in Tracked(items)
        /\ manifest' = manifest /\ handed' = handed /\ up
    BY <2>1 DEF Report, Tracked
  <2>3. Tracked(items') = Tracked(items)
    BY <1>0, <2>2, TrackedOperators
  <2> QED
    BY <1>0, <1>a, <2>1, <2>2, <2>3 DEF OnlyListed, HandedIsTracked, Listed
<1>3. CASE PeriodicSave \/ PeriodicSaveFails
  BY <1>0, <1>3, <1>a
     DEF PeriodicSave, PeriodicSaveFails, OnlyListed, HandedIsTracked, Listed
<1>4. ASSUME NEW listed \in manifest..NItems, manifest' = listed, handed' = handed,
             NEW rows \in {items, snapshot}, items' = Merge(rows, listed),
             up => rows = items, snapshot' \in {snapshot, items'}
      PROVE  OnlyListed' /\ HandedIsTracked'
  <2>1. Tracked(items') = Tracked(rows) \cup 1..listed
    BY <1>0, <1>4, TrackedOperators
  <2>2. Listed \subseteq 1..listed /\ Listed' = 1..listed
    BY <1>0, <1>4, <1>a DEF Listed
  <2>3. Tracked(items') = Listed'
    BY <1>0, <2>1, <2>2, <1>4
  <2>4. Tracked(snapshot') \subseteq Listed'
    BY <1>0, <1>4, <2>2, <2>3
  <2> QED
    BY <1>0, <1>4, <1>a, <2>2, <2>3, <2>4 DEF OnlyListed, HandedIsTracked
<1>5. CASE Rescan
  BY <1>4, <1>5 DEF Rescan
<1>6. CASE Start
  BY <1>4, <1>6 DEF Start
<1>7. CASE ScanOnly \/ StartFails
  <2>1. /\ items' = items /\ snapshot' = snapshot /\ handed' = handed /\ up' = up
        /\ manifest' >= manifest
    BY <1>0, <1>7 DEF ScanOnly, StartFails
  <2>2. Listed \subseteq Listed'
    BY <1>0, <1>a, <2>1 DEF Listed
  <2> QED
    BY <1>0, <1>a, <2>1, <2>2 DEF OnlyListed, HandedIsTracked
<1>8. CASE Crash \/ Sigterm
  <2>1. /\ items' = NoRows /\ snapshot' \in {snapshot, items} /\ up' = FALSE
        /\ manifest' = manifest /\ handed' = handed
    BY <1>8 DEF Crash, Sigterm, Forget
  <2>2. Tracked(NoRows) = {}
    BY DEF Tracked, NoRows, Absent, Unleased
  <2> QED
    BY <1>0, <1>a, <2>1, <2>2 DEF OnlyListed, HandedIsTracked, Listed
<1>9. CASE Tick
  <2>1. /\ items' = Aged(items) /\ snapshot' = Aged(snapshot)
        /\ up' = up /\ manifest' = manifest /\ handed' = handed
    BY <1>9 DEF Tick
  <2>2. Tracked(items') = Tracked(items) /\ Tracked(snapshot') = Tracked(snapshot)
    BY <1>0, <2>1, TrackedOperators
  <2> QED
    BY <1>0, <1>a, <2>1, <2>2 DEF OnlyListed, HandedIsTracked, Listed
<1>10. CASE UNCHANGED vars
  BY <1>10 DEF vars, OnlyListed, HandedIsTracked, Listed, Tracked
<1> QED
  BY <1>1, <1>2, <1>3, <1>5, <1>6, <1>7, <1>8, <1>9, <1>10 DEF Next

LEMMA TrackedAlways == Spec => []TrackedInv
<1>1. Init => TrackedInv
  BY TypeInit
     DEF Init, TrackedInv, OnlyListed, HandedIsTracked, Tracked, NoRows, Absent, Unleased
<1> QED
  BY <1>1, TrackedStep, PTL DEF Spec

\* An item that was ever leased has a row whenever the process serves, also
\* after crashes that took the checkpointed table back to before the lease: no
\* report of a worker is answered 404.
THEOREM HandedIsTrackedAlways == Spec => []HandedIsTracked
  BY TrackedAlways, PTL DEF TrackedInv

----------------------------------------------------------------------------
(* A lease that gives nothing out has recycled nothing: this is what lets
   /lease set the dirty flag by its answer alone. *)

LEMMA LeastElement ==
  ASSUME NEW S \in SUBSET Nat, IsFiniteSet(S), S # {}
  PROVE  \E x \in S : \A y \in S : x <= y
<1> DEFINE Below(x) == {y \in S : y <= x}
           T == {Below(x) : x \in S}
<1>1. T \subseteq SUBSET S /\ T # {}
  OBVIOUS
<1>2. T \subseteq FiniteSubsetsOf(S)
  BY <1>1, FS_FiniteSubsetsOfFinite
<1>3. PICK U \in T : \A V \in T : ~ (<<V, U>> \in StrictSubsetOrdering(S))
  <2> HIDE DEF T
  <2> QED
    BY <1>1, <1>2, FS_StrictSubsetOrderingWellFounded, WFMin
<1>4. PICK x \in S : U = Below(x)
  BY <1>3
<1>5. ASSUME NEW y \in S, ~(x <= y)
      PROVE  FALSE
  <2>1. x \in Nat /\ y \in Nat /\ y < x
    BY <1>5
  <2>2. ASSUME NEW z \in Below(y)
        PROVE  z \in Below(x)
    <3>1. z \in S /\ z \in Nat /\ z <= y
      OBVIOUS
    <3>2. z <= x
      BY <2>1, <3>1
    <3> QED
      BY <3>1, <3>2
  <2>3. x \in Below(x) /\ x \notin Below(y)
    BY <2>1
  <2>4. <<Below(y), U>> \in StrictSubsetOrdering(S)
    BY <1>4, <2>2, <2>3 DEF StrictSubsetOrdering
  <2> QED
    BY <1>3, <2>4
<1> QED
  BY <1>5

LEMMA FirstPendingFinds ==
  ASSUME NEW rows \in Table, NEW n \in Nat \ {0}, Pending(rows) # {}
  PROVE  FirstPending(rows, n) # {}
<1>1. Pending(rows) \in SUBSET Nat /\ IsFiniteSet(Pending(rows))
  <2>1. IsFiniteSet(ItemIds) /\ ItemIds \subseteq Nat
    BY FS_Interval, CoordinatorAssumption DEF ItemIds
  <2> QED
    BY <2>1, FS_Subset DEF Pending
<1>2. PICK i \in Pending(rows) : \A j \in Pending(rows) : i <= j
  BY <1>1, LeastElement
<1>3. {j \in Pending(rows) : j <= i} = {i}
  BY <1>1, <1>2
<1>4. Cardinality({j \in Pending(rows) : j <= i}) <= n
  BY <1>3, FS_Singleton
<1> QED
  BY <1>2, <1>4 DEF FirstPending

LEMMA EmptyLeaseChangesNothing ==
  ASSUME NEW rows \in Table, NEW w \in Workers,
         FirstPending(Reaped(rows), BatchSize) = {}
  PROVE  LeaseOut(Reaped(rows), FirstPending(Reaped(rows), BatchSize), w) = rows
<1>1. Pending(Reaped(rows)) = {}
  BY ReapedTyped, FirstPendingFinds, CoordinatorAssumption
<1>2. \A i \in ItemIds : Reaped(rows)[i] = rows[i]
  BY <1>1 DEF Reaped, Pending, Unleased
<1> QED
  BY <1>2 DEF LeaseOut, Table

----------------------------------------------------------------------------
(* The dirty flag. *)

DownIsEmpty == ~up => items = NoRows /\ ~dirty /\ completed_since_save = 0

SavedIsTracked == up => Tracked(snapshot) \subseteq Tracked(items)

RecoveryInv == TypeOK /\ DownIsEmpty /\ SavedIsTracked /\ CleanMeansRecoverable

Recoverable(rows, saved, m) ==
    \A i \in Tracked(rows) : rows[i] = Merge(saved, m)[i]

LEMMA SavedIsRecoverable ==
  ASSUME NEW rows \in Table, NEW m \in 0..NItems
  PROVE  Recoverable(rows, rows, m)
  BY DEF Recoverable, Tracked, Merge

LEMMA MergedIsRecoverable ==
  ASSUME NEW rows \in Table, NEW saved \in Table, NEW m \in 0..NItems,
         NEW n \in m..NItems, Recoverable(rows, saved, m),
         Tracked(saved) \subseteq Tracked(rows)
  PROVE  Recoverable(Merge(rows, n), saved, n) /\ Recoverable(rows, saved, n)
<1>1. ASSUME NEW i \in ItemIds, rows[i].status # "absent"
      PROVE  rows[i] = Merge(saved, n)[i]
  BY <1>1 DEF Recoverable, Tracked, Merge, Fresh, Unleased, ItemIds
<1>2. ASSUME NEW i \in ItemIds, rows[i].status = "absent", i <= n
      PROVE  Merge(rows, n)[i] = Fresh /\ Merge(saved, n)[i] = Fresh
  BY <1>2 DEF Merge, Tracked
<1> QED
  BY <1>1, <1>2 DEF Recoverable, Tracked, Merge

LEMMA AgedIsRecoverable ==
  ASSUME NEW rows \in Table, NEW saved \in Table, NEW m \in 0..NItems,
         Recoverable(rows, saved, m)
  PROVE  Recoverable(Aged(rows), Aged(saved), m)
<1> SUFFICES ASSUME NEW i \in ItemIds, Aged(rows)[i].status # "absent"
             PROVE  Aged(rows)[i] = Merge(Aged(saved), m)[i]
  BY DEF Recoverable, Tracked
<1>1. i \in Tracked(rows) /\ rows[i] = Merge(saved, m)[i]
  BY TrackedOperators DEF Recoverable, Tracked
<1>2. CASE saved[i].status = "absent" /\ i <= m
  BY <1>1, <1>2, TrackedOperators DEF Merge, Aged, Fresh, Unleased, Tracked
<1>3. CASE ~(saved[i].status = "absent" /\ i <= m)
  BY <1>1, <1>3, TrackedOperators DEF Merge, Aged, Tracked
<1> QED
  BY <1>2, <1>3

LEMMA RecoveryStep == RecoveryInv /\ [Next]_vars => RecoveryInv'
<1> SUFFICES ASSUME TypeOK, DownIsEmpty, SavedIsTracked, CleanMeansRecoverable,
                    TypeOK', [Next]_vars
             PROVE  DownIsEmpty' /\ SavedIsTracked' /\ CleanMeansRecoverable'
  BY TypeStep DEF RecoveryInv
<1> DEFINE Goal == DownIsEmpty' /\ SavedIsTracked' /\ CleanMeansRecoverable'
<1>0. /\ items \in Table /\ snapshot \in Table /\ manifest \in 0..NItems
      /\ items' \in Table /\ snapshot' \in Table /\ manifest' \in 0..NItems
      /\ up => Tracked(snapshot) \subseteq Tracked(items)
      /\ up /\ ~dirty => Recoverable(items, snapshot, manifest)
  BY DEF TypeOK, Table, SavedIsTracked, CleanMeansRecoverable, Recoverable
<1>a. ASSUME up', Tracked(snapshot') \subseteq Tracked(items'),
             dirty' \/ Recoverable(items', snapshot', manifest')
      PROVE  Goal
  BY <1>a DEF DownIsEmpty, SavedIsTracked, CleanMeansRecoverable, Recoverable, Tracked
<1>1. ASSUME NEW w \in Workers, Lease(w)
      PROVE  Goal
  <2> DEFINE rows == Reaped(items)
             out  == FirstPending(rows, BatchSize)
  <2>1. /\ up' /\ up /\ items' = LeaseOut(rows, out, w) /\ dirty' = (dirty \/ out # {})
        /\ snapshot' = snapshot /\ manifest' = manifest
    BY <1>1 DEF Lease
  <2>2. Tracked(items') = Tracked(items)
    BY <1>0, <2>1, TrackedOperators, ReapedTyped, CoordinatorAssumption
  <2>3. CASE out = {} /\ ~dirty
    <3>1. items' = items
      BY <1>0, <2>1, <2>3, EmptyLeaseChangesNothing
    <3> QED
      BY <1>0, <1>a, <2>1, <2>3, <3>1
  <2>4. CASE ~(out = {} /\ ~dirty)
    <3>1. dirty'
      BY <2>1, <2>4 DEF TypeOK
    <3> QED
      BY <1>0, <1>a, <2>1, <2>2, <3>1
  <2> QED
    BY <2>3, <2>4
<1>2. ASSUME NEW i \in ItemIds, NEW st \in {"done", "failed"}, Complete(i, st)
      PROVE  Goal
  <2>1. Report(i, st)
    BY <1>2 DEF Complete, CompleteUnsaved, CompleteSaved, CompleteSaveFails
  <2>2. /\ up /\ up' /\ manifest' = manifest /\ i \in Tracked(items)
        /\ items' = [items EXCEPT ![i] = Reported(@, st)]
    BY <2>1 DEF Report, Tracked
  <2>3. Tracked(items') = Tracked(items)
    BY <1>0, <2>2, TrackedOperators
  <2>4. CASE snapshot' = items'
    BY <1>0, <1>a, <2>2, <2>4, SavedIsRecoverable
  <2>5. CASE snapshot' = snapshot /\ dirty'
    BY <1>0, <1>a, <2>2, <2>3, <2>5
  <2> QED
    BY <1>2, <2>4, <2>5 DEF Complete, CompleteUnsaved, CompleteSaved, CompleteSaveFails
<1>3. CASE PeriodicSave
  <2>1. /\ up' /\ items' = items /\ snapshot' = items /\ manifest' = manifest
    BY <1>3 DEF PeriodicSave
  <2> QED
    BY <1>0, <1>a, <2>1, SavedIsRecoverable
<1>4. CASE Rescan
  <2>1. PICK listed \in manifest..NItems :
          manifest' = listed /\ items' = Merge(items, listed)
    BY <1>4 DEF Rescan
  <2>2. up /\ up' /\ dirty' = dirty /\ snapshot' \in {snapshot, items'}
    BY <1>4 DEF Rescan
  <2>3. Tracked(items) \subseteq Tracked(items')
    BY <1>0, <2>1, TrackedOperators
  <2>4. CASE snapshot' = items'
    BY <1>0, <1>a, <2>2, <2>4, SavedIsRecoverable
  <2>5. CASE snapshot' = snapshot /\ ~dirty
    BY <1>0, <1>a, <2>1, <2>2, <2>3, <2>5, MergedIsRecoverable
  <2>6. CASE snapshot' = snapshot /\ dirty
    BY <1>0, <1>a, <2>1, <2>2, <2>3, <2>6
  <2> QED
    BY <2>2, <2>4, <2>5, <2>6
<1>5. CASE ScanOnly \/ StartFails
  <2>1. /\ up' = up /\ items' = items /\ snapshot' = snapshot /\ dirty' = dirty
        /\ completed_since_save' = completed_since_save
        /\ manifest' \in manifest..NItems
    BY <1>0, <1>5 DEF ScanOnly, StartFails
  <2>2. CASE up
    BY <1>0, <1>a, <2>1, <2>2, MergedIsRecoverable
  <2>3. CASE ~up
    BY <2>1, <2>3 DEF DownIsEmpty, SavedIsTracked, CleanMeansRecoverable
  <2> QED
    BY <2>2, <2>3
<1>6. CASE Crash \/ Sigterm
  BY <1>6 DEF Crash, Sigterm, Forget, DownIsEmpty, SavedIsTracked, CleanMeansRecoverable
<1>7. CASE Start
  <2>1. PICK listed \in manifest..NItems :
          /\ manifest' = listed
          /\ items' = Merge(snapshot, listed)
          /\ snapshot' = IF items' # snapshot THEN items' ELSE snapshot
    BY <1>7 DEF Start
  <2>2. up' /\ snapshot' = items'
    BY <1>7, <2>1 DEF Start
  <2> QED
    BY <1>0, <1>a, <2>2, SavedIsRecoverable
<1>8. CASE Tick
  <2>1. /\ items' = Aged(items) /\ snapshot' = Aged(snapshot)
        /\ up' = up /\ manifest' = manifest /\ dirty' = dirty
        /\ completed_since_save' = completed_since_save
    BY <1>8 DEF Tick
  <2>2. Tracked(items') = Tracked(items) /\ Tracked(snapshot') = Tracked(snapshot)
    BY <1>0, <2>1, TrackedOperators
  <2>3. CASE up
    BY <1>0, <1>a, <2>1, <2>2, <2>3, AgedIsRecoverable
  <2>4. CASE ~up
    <3>1. items' = NoRows
      BY <2>1, <2>4 DEF DownIsEmpty, Aged, NoRows, Absent, Unleased
    <3> QED
      BY <2>1, <2>4, <3>1 DEF DownIsEmpty, SavedIsTracked, CleanMeansRecoverable
  <2> QED
    BY <2>3, <2>4
<1>9. CASE PeriodicSaveFails \/ UNCHANGED vars
  <2>1. /\ up' = up /\ items' = items /\ snapshot' = snapshot /\ dirty' = dirty
        /\ completed_since_save' = completed_since_save /\ manifest' = manifest
    BY <1>9 DEF PeriodicSaveFails, vars
  <2> QED
    BY <2>1 DEF DownIsEmpty, SavedIsTracked, CleanMeansRecoverable, Tracked
<1> QED
  BY <1>1, <1>2, <1>3, <1>4, <1>5, <1>6, <1>7, <1>8, <1>9 DEF Next

LEMMA RecoveryAlways == Spec => []RecoveryInv
<1>1. Init => RecoveryInv
  BY TypeInit
     DEF Init, RecoveryInv, DownIsEmpty, SavedIsTracked, CleanMeansRecoverable
<1> QED
  BY <1>1, RecoveryStep, PTL DEF Spec

\* While the dirty flag is not set, the checkpoint and the manifest together
\* give back every row: the periodic thread, which saves by that flag, never
\* skips a save that is needed.
THEOREM CleanMeansRecoverableAlways == Spec => []CleanMeansRecoverable
  BY RecoveryAlways, PTL DEF RecoveryInv

----------------------------------------------------------------------------
(* What a crash can take back. *)

UnsavedOf(rows, saved) == {i \in ItemIds : Outcome(rows[i]) # Outcome(saved[i])}

LossInv ==
    /\ TypeOK
    /\ DownIsEmpty
    /\ BoundedLoss

\* Leasing, recycling, merging and time change no outcome.
LEMMA OutcomeKept ==
  ASSUME NEW rows \in Table, NEW i \in ItemIds
  PROVE  /\ Outcome(Aged(rows)[i]) = Outcome(rows[i])
         /\ Outcome(Reaped(rows)[i]) = Outcome(rows[i])
         /\ \A n \in Nat, w \in Workers :
               Outcome(LeaseOut(rows, FirstPending(rows, n), w)[i]) = Outcome(rows[i])
<1> DEFINE Kind(status) == CASE status = "done" -> "done"
                             [] status = "dead" -> "dead"
                             [] OTHER -> "open"
<1>0. rows[i] \in Row
  BY DEF Table
<1>1. \A a, b : a.attempts = b.attempts /\ Kind(a.status) = Kind(b.status)
                  => Outcome(a) = Outcome(b)
  BY DEF Outcome
<1>2. /\ Aged(rows)[i].attempts = rows[i].attempts
      /\ Aged(rows)[i].status = rows[i].status
  BY <1>0 DEF Aged, Row
<1>3. /\ Reaped(rows)[i].attempts = rows[i].attempts
      /\ Kind(Reaped(rows)[i].status) = Kind(rows[i].status)
  BY <1>0 DEF Reaped, Row, Unleased
<1>4. ASSUME NEW n \in Nat, NEW w \in Workers
      PROVE  LET new == LeaseOut(rows, FirstPending(rows, n), w)[i]
             IN  new.attempts = rows[i].attempts /\ Kind(new.status) = Kind(rows[i].status)
  BY <1>0 DEF LeaseOut, FirstPending, Pending, Row
<1> HIDE DEF Kind
<1> QED
  BY <1>1, <1>2, <1>3, <1>4

\* A merge gives a row without reports to an item without a row.
LEMMA MergeKeepsOutcome ==
  ASSUME NEW rows \in Table, RetryBudgetOf(rows), NEW m \in 0..NItems, NEW i \in ItemIds
  PROVE  Outcome(Merge(rows, m)[i]) = Outcome(rows[i])
  BY DEF Merge, Outcome, Fresh, Absent, Unleased, RetryBudgetOf

LEMMA UnsavedFinite ==
  ASSUME NEW rows, NEW saved
  PROVE  /\ IsFiniteSet(UnsavedOf(rows, saved))
         /\ Cardinality(UnsavedOf(rows, saved)) \in Nat
<1>1. IsFiniteSet(ItemIds)
  BY FS_Interval, CoordinatorAssumption DEF ItemIds
<1>2. UnsavedOf(rows, saved) \in SUBSET ItemIds
  BY DEF UnsavedOf
<1> QED
  BY <1>1, <1>2, FS_Subset, FS_CardinalityType

LEMMA LossStep == LossInv /\ RetryBudget /\ [Next]_vars => LossInv'
<1> SUFFICES ASSUME TypeOK, DownIsEmpty, BoundedLoss, RetryBudget, TypeOK', [Next]_vars
             PROVE  DownIsEmpty' /\ BoundedLoss'
  BY TypeStep DEF LossInv
<1> DEFINE Goal == DownIsEmpty' /\ BoundedLoss'
           Loss == Cardinality(UnsavedOf(items, snapshot))
           NewLoss == Cardinality(UnsavedOf(items', snapshot'))
<1>0. /\ items \in Table /\ snapshot \in Table /\ manifest \in 0..NItems
      /\ completed_since_save \in Nat /\ SaveEvery \in Nat \ {0}
      /\ RetryBudgetOf(items) /\ RetryBudgetOf(snapshot)
  BY CoordinatorAssumption DEF TypeOK, Table, RetryBudget
<1>b. up => Loss <= completed_since_save /\ (~SaveMayFail => completed_since_save < SaveEvery)
  BY DEF BoundedLoss, Unsaved, UnsavedOf
<1>a. ASSUME up', NewLoss <= completed_since_save',
             ~SaveMayFail => completed_since_save' < SaveEvery
      PROVE  Goal
  BY <1>a DEF DownIsEmpty, BoundedLoss, Unsaved, UnsavedOf
<1>c. ASSUME up, up', completed_since_save' = completed_since_save,
             \A i \in ItemIds : Outcome(items'[i]) = Outcome(items[i]),
             \A i \in ItemIds : Outcome(snapshot'[i]) \in
                                   {Outcome(snapshot[i]), Outcome(items[i])}
      PROVE  Goal
  <2>1. UnsavedOf(items', snapshot') \in SUBSET UnsavedOf(items, snapshot)
    BY <1>c DEF UnsavedOf
  <2>2. NewLoss <= Loss
    BY <2>1, UnsavedFinite, FS_Subset
  <2>3. NewLoss \in Nat /\ Loss \in Nat
    BY UnsavedFinite
  <2> HIDE DEF Loss, NewLoss, Goal
  <2>4. NewLoss <= completed_since_save'
    BY <1>0, <1>b, <1>c, <2>2, <2>3
  <2> QED
    BY <1>a, <1>b, <1>c, <2>4
<1>d. ASSUME NEW rows, items' = rows, snapshot' = rows
      PROVE  NewLoss = 0
  <2>1. UnsavedOf(items', snapshot') = {}
    BY <1>d DEF UnsavedOf
  <2> QED
    BY <2>1, FS_EmptySet
<1>1. ASSUME NEW w \in Workers, Lease(w)
      PROVE  Goal
  <2> DEFINE rows == Reaped(items)
             out  == FirstPending(rows, BatchSize)
  <2>1. /\ up' /\ up /\ items' = LeaseOut(rows, out, w) /\ snapshot' = snapshot
        /\ completed_since_save' = completed_since_save
    BY <1>1 DEF Lease
  <2>2. rows \in Table
    BY <1>0, ReapedTyped
  <2>3. ASSUME NEW i \in ItemIds
        PROVE  Outcome(items'[i]) = Outcome(items[i])
    <3>1. Outcome(items'[i]) = Outcome(rows[i])
      BY <2>1, <2>2, OutcomeKept, CoordinatorAssumption
    <3>2. Outcome(rows[i]) = Outcome(items[i])
      BY <1>0, OutcomeKept
    <3> QED
      BY <3>1, <3>2
  <2> QED
    BY <1>c, <2>1, <2>3
<1>2. ASSUME NEW i \in ItemIds, NEW st \in {"done", "failed"}, Complete(i, st)
      PROVE  Goal
  <2>1. /\ up /\ up' /\ items' = [items EXCEPT ![i] = Reported(@, st)]
    BY <1>2 DEF Complete, CompleteUnsaved, CompleteSaved, CompleteSaveFails, Report
  <2>2. UnsavedOf(items', snapshot) \in SUBSET (UnsavedOf(items, snapshot) \cup {i})
    BY <1>0, <2>1 DEF UnsavedOf, Table
  <2>3. Cardinality(UnsavedOf(items', snapshot)) <= Loss + 1
    <3>0. IsFiniteSet(UnsavedOf(items, snapshot)) /\ Loss \in Nat
      BY UnsavedFinite
    <3>1. /\ IsFiniteSet(UnsavedOf(items, snapshot) \cup {i})
          /\ Cardinality(UnsavedOf(items, snapshot) \cup {i}) <= Loss + 1
      <4> DEFINE S == UnsavedOf(items, snapshot)
      <4> HIDE DEF S
      <4>1. /\ IsFiniteSet(S \cup {i})
            /\ Cardinality(S \cup {i}) \in {Cardinality(S), Cardinality(S) + 1}
        BY <3>0, FS_AddElement DEF S
      <4> QED
        BY <3>0, <4>1 DEF S
    <3>2. Cardinality(UnsavedOf(items', snapshot))
            <= Cardinality(UnsavedOf(items, snapshot) \cup {i})
      BY <2>2, <3>1, FS_Subset
    <3>3. /\ Cardinality(UnsavedOf(items, snapshot) \cup {i}) \in Nat
          /\ Cardinality(UnsavedOf(items', snapshot)) \in Nat /\ Loss \in Nat
      BY <3>1, UnsavedFinite, FS_CardinalityType
    <3> QED
      BY <3>1, <3>2, <3>3
  <2>4. CASE /\ snapshot' = snapshot
             /\ completed_since_save' = completed_since_save + 1
             /\ SaveMayFail \/ completed_since_save + 1 < SaveEvery
    <3>1. NewLoss <= Loss + 1
      BY <2>3, <2>4
    <3>2. NewLoss \in Nat /\ Loss \in Nat
      BY UnsavedFinite
    <3> HIDE DEF Loss, NewLoss, Goal
    <3>3. NewLoss <= completed_since_save'
      BY <1>0, <1>b, <2>1, <2>4, <3>1, <3>2
    <3>4. ~SaveMayFail => completed_since_save' < SaveEvery
      BY <2>4
    <3> QED
      BY <1>a, <2>1, <3>3, <3>4
  <2>5. CASE snapshot' = items' /\ completed_since_save' = 0
    <3>1. NewLoss = 0
      BY <1>d, <2>5
    <3> QED
      BY <1>0, <1>a, <2>1, <2>5, <3>1
  <2> QED
    BY <1>2, <2>4, <2>5 DEF Complete, CompleteUnsaved, CompleteSaved, CompleteSaveFails
<1>3. CASE PeriodicSave \/ PeriodicSaveFails
  BY <1>3, <1>c DEF PeriodicSave, PeriodicSaveFails
<1>4. CASE Rescan
  <2>1. PICK listed \in manifest..NItems : items' = Merge(items, listed)
    BY <1>4 DEF Rescan
  <2>2. listed \in 0..NItems
    BY <1>0, <2>1
  <2>3. /\ up /\ up' /\ completed_since_save' = completed_since_save
        /\ snapshot' \in {snapshot, items'}
    BY <1>4 DEF Rescan
  <2>4. \A i \in ItemIds : Outcome(items'[i]) = Outcome(items[i])
    BY <1>0, <2>1, <2>2, MergeKeepsOutcome
  <2> QED
    BY <1>c, <2>3, <2>4
<1>5. CASE ScanOnly \/ StartFails \/ UNCHANGED vars
  <2>1. /\ up' = up /\ items' = items /\ snapshot' = snapshot /\ dirty' = dirty
        /\ completed_since_save' = completed_since_save
    BY <1>5 DEF ScanOnly, StartFails, vars
  <2> QED
    BY <2>1 DEF DownIsEmpty, BoundedLoss, Unsaved
<1>6. CASE Crash \/ Sigterm
  BY <1>6 DEF Crash, Sigterm, Forget, DownIsEmpty, BoundedLoss
<1>7. CASE Start
  <2>1. /\ up' /\ snapshot' = items' /\ completed_since_save' = 0
    BY <1>7 DEF Start, DownIsEmpty
  <2>2. NewLoss = 0
    BY <1>d, <2>1
  <2> QED
    BY <1>0, <1>a, <2>1, <2>2
<1>8. CASE Tick
  <2>1. /\ items' = Aged(items) /\ snapshot' = Aged(snapshot) /\ up' = up
        /\ completed_since_save' = completed_since_save /\ dirty' = dirty
    BY <1>8 DEF Tick
  <2>2. CASE up
    BY <1>0, <1>c, <2>1, <2>2, OutcomeKept
  <2>3. CASE ~up
    <3>1. items' = NoRows
      BY <2>1, <2>3 DEF DownIsEmpty, Aged, NoRows, Absent, Unleased
    <3> QED
      BY <2>1, <2>3, <3>1 DEF DownIsEmpty, BoundedLoss
  <2> QED
    BY <2>2, <2>3
<1> QED
  BY <1>1, <1>2, <1>3, <1>4, <1>5, <1>6, <1>7, <1>8 DEF Next

\* A crash takes back the reports of at most completed_since_save items, and
\* where saves do not fail, of fewer than SaveEvery.
THEOREM BoundedLossAlways == Spec => []BoundedLoss
<1>1. Init => LossInv
  <2> SUFFICES ASSUME Init
               PROVE  DownIsEmpty /\ BoundedLoss
    BY TypeInit DEF LossInv
  <2> QED
    BY DEF Init, DownIsEmpty, BoundedLoss
<1>2. LossInv => BoundedLoss
  BY DEF LossInv
<1> QED
  BY <1>1, <1>2, LossStep, RetryBudgetHolds, PTL DEF Spec

----------------------------------------------------------------------------
(* Leases. *)

LEMMA LeaseKeptStep ==
  TypeOK /\ DownIsEmpty /\ [Next]_vars =>
    \A i \in ItemIds :
        items[i].status = "leased" /\ items[i].ttl >= 0 /\ items'[i].status = "leased"
            => items'[i].lease_owner = items[i].lease_owner
<1> SUFFICES ASSUME TypeOK, DownIsEmpty, [Next]_vars, NEW i \in ItemIds,
                    items[i].status = "leased", items[i].ttl >= 0,
                    items'[i].status = "leased"
             PROVE  items'[i].lease_owner = items[i].lease_owner
  OBVIOUS
<1>0. items \in Table /\ items[i] \in Row
  BY DEF TypeOK, Table
<1>1. up
  BY DEF DownIsEmpty, NoRows, Absent, Unleased
<1>2. CASE items' = items
  BY <1>2
<1>3. ASSUME NEW w \in Workers, Lease(w)
      PROVE  items'[i].lease_owner = items[i].lease_owner
  <2>1. Reaped(items)[i] = items[i]
    BY <1>0, CoordinatorAssumption DEF Reaped, Row
  <2>2. i \notin FirstPending(Reaped(items), BatchSize)
    BY <2>1 DEF FirstPending, Pending
  <2> QED
    BY <1>3, <2>1, <2>2 DEF Lease, LeaseOut
<1>4. ASSUME NEW k \in ItemIds, NEW st \in {"done", "failed"}, Complete(k, st)
      PROVE  items'[i].lease_owner = items[i].lease_owner
  <2>1. items' = [items EXCEPT ![k] = Reported(@, st)]
    BY <1>4 DEF Complete, CompleteUnsaved, CompleteSaved, CompleteSaveFails, Report
  <2>2. i # k
    BY <1>0, <2>1 DEF Reported, Unleased, Table
  <2> QED
    BY <1>0, <2>1, <2>2 DEF Table
<1>5. CASE Rescan
  BY <1>0, <1>5 DEF Rescan, Merge
<1>6. CASE Crash \/ Sigterm
  BY <1>6 DEF Crash, Sigterm, Forget, NoRows, Absent, Unleased
<1>7. CASE Tick
  BY <1>0, <1>7 DEF Tick, Aged, Row
<1>8. CASE PeriodicSave \/ PeriodicSaveFails \/ ScanOnly \/ StartFails \/ UNCHANGED vars
  BY <1>2, <1>8 DEF PeriodicSave, PeriodicSaveFails, ScanOnly, StartFails, vars
<1>9. CASE Start
  BY <1>1, <1>9 DEF Start
<1> QED
  BY <1>3, <1>4, <1>5, <1>6, <1>7, <1>8, <1>9 DEF Next

\* No step gives an item to another worker while its lease still runs.
THEOREM LiveLeaseKeptAlways == Spec => LiveLeaseKept
<1>1. RecoveryInv /\ [Next]_vars =>
        [\A i \in ItemIds :
            items[i].status = "leased" /\ items[i].ttl >= 0 /\ items'[i].status = "leased"
                => items'[i].lease_owner = items[i].lease_owner]_vars
  BY LeaseKeptStep DEF RecoveryInv
<1> QED
  BY <1>1, RecoveryAlways, PTL DEF Spec, LiveLeaseKept

----------------------------------------------------------------------------
(* The coordinator implements CheckpointedStore. *)

LEMMA SameOutcomes ==
  ASSUME NEW rows \in Table, NEW new \in Table, Tracked(new) = Tracked(rows),
         \A i \in ItemIds : Outcome(new[i]) = Outcome(rows[i])
  PROVE  OutcomesOf(new) = OutcomesOf(rows)
  BY DEF OutcomesOf, Tracked

LEMMA LeaseIsInvisible ==
  ASSUME NEW rows \in Table, NEW w \in Workers
  PROVE  OutcomesOf(LeaseOut(Reaped(rows), FirstPending(Reaped(rows), BatchSize), w))
            = OutcomesOf(rows)
<1> DEFINE new == LeaseOut(Reaped(rows), FirstPending(Reaped(rows), BatchSize), w)
<1>1. Reaped(rows) \in Table /\ new \in Table
  BY ReapedTyped, LeaseOutTyped
<1>2. Tracked(new) = Tracked(rows)
  BY <1>1, TrackedOperators, CoordinatorAssumption
<1>3. \A i \in ItemIds : Outcome(new[i]) = Outcome(rows[i])
  BY <1>1, OutcomeKept, CoordinatorAssumption
<1>4. OutcomesOf(new) = OutcomesOf(rows)
  <2> HIDE DEF new
  <2> QED
    BY <1>1, <1>2, <1>3, SameOutcomes
<1> QED
  BY <1>4

LEMMA AgeingIsInvisible ==
  ASSUME NEW rows \in Table
  PROVE  OutcomesOf(Aged(rows)) = OutcomesOf(rows)
  BY AgedTyped, TrackedOperators, OutcomeKept, SameOutcomes

LEMMA MergeExtends ==
  ASSUME NEW rows \in Table, NEW m \in 0..NItems
  PROVE  Store!Extends(OutcomesOf(Merge(rows, m)), OutcomesOf(rows))
  BY DEF Store!Extends, OutcomesOf, Merge, Fresh, Unleased, Outcome

LEMMA ReportIsRecorded ==
  ASSUME NEW rows \in Table, NEW i \in Tracked(rows), NEW st \in {"done", "failed"},
         st = "failed" => rows[i].attempts < MaxAttempts,
         NEW after, after = [rows EXCEPT ![i] = Reported(@, st)]
  PROVE  /\ OutcomesOf(after) = [OutcomesOf(rows) EXCEPT ![i] = OutcomesOf(after)[i]]
         /\ OutcomesOf(after)[i]
              \in [kind : {"open", "done", "dead"}, attempts : 0..MaxAttempts]
<1> DEFINE row == Reported(rows[i], st)
<1>1. i \in ItemIds /\ rows[i] \in Row /\ row \in Row /\ row.status # "absent"
  <2>1. i \in ItemIds /\ rows[i] \in Row
    BY DEF Tracked, Table
  <2> QED
    BY <2>1, ReportedTyped DEF Reported, Unleased
<1>2. after[i] = row /\ \A j \in ItemIds \ {i} : after[j] = rows[j]
  BY <1>1 DEF Table
<1> HIDE DEF row
<1>3. OutcomesOf(after)[i] = Outcome(row)
  BY <1>1, <1>2 DEF OutcomesOf
<1>4. Outcome(row) \in [kind : {"open", "done", "dead"}, attempts : 0..MaxAttempts]
  BY <1>1 DEF Outcome, Row
<1>5. \A j \in ItemIds \ {i} : OutcomesOf(after)[j] = OutcomesOf(rows)[j]
  BY <1>2 DEF OutcomesOf
<1>6. /\ OutcomesOf(after) = [j \in ItemIds |-> OutcomesOf(after)[j]]
      /\ OutcomesOf(rows) = [j \in ItemIds |-> OutcomesOf(rows)[j]]
  BY DEF OutcomesOf
<1>7. OutcomesOf(after) = [OutcomesOf(rows) EXCEPT ![i] = OutcomesOf(after)[i]]
  BY <1>5, <1>6
<1> QED
  BY <1>3, <1>4, <1>7

LEMMA StoreInit == Init => Store!Init
  BY DEF Init, Store!Init, Store!Empty, OutcomesOf, NoRows, Absent, Unleased

LEMMA StoreStep == TypeOK /\ DownIsEmpty /\ [Next]_vars => [Store!Next]_(Store!vars)
<1> SUFFICES ASSUME TypeOK, DownIsEmpty, [Next]_vars
             PROVE  Store!Next \/ UNCHANGED Store!vars
  OBVIOUS
<1> DEFINE mem == OutcomesOf(items)
           disk == OutcomesOf(snapshot)
           memNext == OutcomesOf(items')
           diskNext == OutcomesOf(snapshot')
           Goal == Store!Next \/ UNCHANGED Store!vars
<1>0. items \in Table /\ snapshot \in Table /\ manifest \in 0..NItems
  BY DEF TypeOK, Table
<1>a. ASSUME up' = up, memNext = mem, diskNext = disk
      PROVE  Goal
  BY <1>a DEF Store!vars, OutcomesOf
<1>b. ASSUME items' = items, snapshot' = snapshot, up' = up
      PROVE  Goal
  BY <1>a, <1>b
<1>c. ASSUME up, up', Store!Extends(memNext, mem), diskNext \in {disk, memNext}
      PROVE  Goal
  BY <1>c DEF Store!Next, Store!Discover, Store!MaySave, OutcomesOf
<1>1. ASSUME NEW w \in Workers, Lease(w)
      PROVE  Goal
  <2>1. /\ items' = LeaseOut(Reaped(items), FirstPending(Reaped(items), BatchSize), w)
        /\ snapshot' = snapshot /\ up' = up
    BY <1>1 DEF Lease
  <2> QED
    BY <1>0, <1>a, <2>1, LeaseIsInvisible
<1>2. ASSUME NEW i \in ItemIds, NEW st \in {"done", "failed"}, Complete(i, st)
      PROVE  Goal
  <2>1. Report(i, st) /\ snapshot' \in {snapshot, items'}
    BY <1>2 DEF Complete, CompleteUnsaved, CompleteSaved, CompleteSaveFails
  <2>2. /\ up /\ up' = up /\ i \in Tracked(items)
        /\ st = "failed" => items[i].attempts < MaxAttempts
        /\ items' = [items EXCEPT ![i] = Reported(@, st)]
    BY <2>1 DEF Report, Tracked
  <2>3. /\ memNext = [mem EXCEPT ![i] = memNext[i]]
        /\ memNext[i] \in [kind : {"open", "done", "dead"}, attempts : 0..MaxAttempts]
    <3> DEFINE after == items'
    <3>1. /\ items \in Table /\ i \in Tracked(items) /\ st \in {"done", "failed"}
          /\ st = "failed" => items[i].attempts < MaxAttempts
          /\ after = [items EXCEPT ![i] = Reported(@, st)]
      BY <1>0, <2>2
    <3> HIDE DEF after
    <3>2. /\ OutcomesOf(after) = [OutcomesOf(items) EXCEPT ![i] = OutcomesOf(after)[i]]
          /\ OutcomesOf(after)[i]
               \in [kind : {"open", "done", "dead"}, attempts : 0..MaxAttempts]
      BY <3>1, ReportIsRecorded
    <3> QED
      BY <3>2 DEF after
  <2>4. i \in Store!Known(mem)
    BY <2>2 DEF Store!Known, OutcomesOf, Outcome, NoOutcome, Tracked
  <2>5. diskNext \in {disk, memNext}
    BY <2>1
  <2>6. Store!Record(i)
    BY <2>2, <2>3, <2>4, <2>5 DEF Store!Record, Store!MaySave, OutcomesOf
  <2> QED
    BY <2>6 DEF Store!Next
<1>3. CASE PeriodicSave
  <2>1. Store!Checkpoint
    BY <1>3 DEF PeriodicSave, Store!Checkpoint, OutcomesOf
  <2> QED
    BY <2>1 DEF Store!Next
<1>4. CASE Rescan
  <2>1. PICK listed \in manifest..NItems : items' = Merge(items, listed)
    BY <1>4 DEF Rescan
  <2>2. listed \in 0..NItems
    BY <1>0, <2>1
  <2>3. up /\ up' /\ snapshot' \in {snapshot, items'}
    BY <1>4 DEF Rescan
  <2> QED
    BY <1>0, <1>c, <2>1, <2>2, <2>3, MergeExtends
<1>5. CASE ScanOnly \/ StartFails \/ PeriodicSaveFails \/ UNCHANGED vars
  BY <1>5, <1>b DEF ScanOnly, StartFails, PeriodicSaveFails, vars
<1>6. CASE Crash \/ Sigterm
  <2>1. up /\ up' = FALSE /\ items' = NoRows /\ snapshot' \in {snapshot, items}
    BY <1>6 DEF Crash, Sigterm, Forget
  <2>2. memNext = Store!Empty /\ diskNext \in {disk, mem}
    BY <2>1 DEF OutcomesOf, NoRows, Absent, Unleased, Store!Empty
  <2>3. Store!Stop
    BY <2>1, <2>2 DEF Store!Stop, OutcomesOf
  <2> QED
    BY <2>3 DEF Store!Next
<1>7. CASE Start
  <2>1. PICK listed \in manifest..NItems : items' = Merge(snapshot, listed)
    BY <1>7 DEF Start
  <2>2. listed \in 0..NItems
    BY <1>0, <2>1
  <2>3. ~up /\ up' = TRUE /\ snapshot' \in {snapshot, items'}
    BY <1>7 DEF Start
  <2>4. Store!Extends(memNext, disk) /\ diskNext \in {disk, memNext}
    BY <1>0, <2>1, <2>2, <2>3, MergeExtends
  <2>5. Store!Recover
    BY <2>3, <2>4 DEF Store!Recover, Store!MaySave, OutcomesOf
  <2> QED
    BY <2>5 DEF Store!Next
<1>8. CASE Tick
  BY <1>0, <1>8, <1>a, AgeingIsInvisible DEF Tick
<1> QED
  BY <1>1, <1>2, <1>3, <1>4, <1>5, <1>6, <1>7, <1>8 DEF Next

\* Outcomes change by reports alone, the checkpoint is always a complete table
\* of the moment it was written, and a restart resumes from it: it neither
\* drops, resets nor invents an outcome.
THEOREM CoordinatorImplementsStore == Spec => ImplementsStore
<1>1. RecoveryInv /\ [Next]_vars => [Store!Next]_(Store!vars)
  BY StoreStep DEF RecoveryInv
<1> QED
  BY <1>1, StoreInit, RecoveryAlways, PTL DEF Spec, ImplementsStore, Store!Spec

============================================================================
