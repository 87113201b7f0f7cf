---------------------------- MODULE CorpusProofs ----------------------------
(* Theorems about the corpus and its manifest, for any files, of any       *)
(* lengths, any number of scanners, and any number of faults.              *)
EXTENDS Corpus, FiniteSetTheorems, TLAPS

----------------------------------------------------------------------------
(* Files of lines. *)

Ids == {ItemId(f, n, idx) : f \in Files, n \in Int, idx \in Nat}

Row == [id : Ids, path : Files, by : Scanners]

Piece == [row : Row, stage : {"part", "text", "line", "rest"}]

\* Every row begun in a file, whether its line parses or not.
AllRows(part) == {part[k].row : k \in DOMAIN part}

LEMMA RowsAreThere == \A part : RowsIn(part) \subseteq AllRows(part)
  BY DEF RowsIn, Readable, AllRows

LEMMA SoundRows == \A part : Sound(part) => RowsIn(part) = AllRows(part)
  BY DEF RowsIn, Readable, AllRows, Sound

LEMMA Appending ==
  ASSUME NEW part \in Seq(Piece), NEW piece \in Piece
  PROVE  /\ Append(part, piece) \in Seq(Piece)
         /\ DOMAIN Append(part, piece) = 1..(Len(part) + 1)
         /\ \A k \in DOMAIN part : Append(part, piece)[k] = part[k]
         /\ Append(part, piece)[Len(part) + 1] = piece
         /\ AllRows(Append(part, piece)) = AllRows(part) \cup {piece.row}
<1> DEFINE q == Append(part, piece)
<1>1. /\ q \in Seq(Piece)
      /\ DOMAIN q = 1..(Len(part) + 1)
      /\ \A k \in DOMAIN part : q[k] = part[k]
      /\ q[Len(part) + 1] = piece
      /\ DOMAIN part = 1..Len(part)
      /\ Len(part) \in Nat
  OBVIOUS
<1>2. AllRows(q) \subseteq AllRows(part) \cup {piece.row}
  <2> SUFFICES ASSUME NEW k \in DOMAIN q
               PROVE  q[k].row \in AllRows(part) \cup {piece.row}
    BY DEF AllRows
  <2> HIDE DEF q
  <2>1. CASE k \in DOMAIN part
    BY <1>1, <2>1 DEF AllRows
  <2>2. CASE k = Len(part) + 1
    BY <1>1, <2>2
  <2> QED
    BY <1>1, <2>1, <2>2
<1>3. AllRows(part) \cup {piece.row} \subseteq AllRows(q)
  <2> HIDE DEF q
  <2>1. piece.row \in AllRows(q)
    BY <1>1 DEF AllRows
  <2>2. \A k \in DOMAIN part : part[k].row \in AllRows(q)
    BY <1>1 DEF AllRows
  <2> QED
    BY <2>1, <2>2 DEF AllRows
<1> QED
  BY <1>1, <1>2, <1>3

LEMMA Completing ==
  ASSUME NEW part \in Seq(Piece)
  PROVE  /\ Completed(part) \in Seq(Piece)
         /\ DOMAIN Completed(part) = DOMAIN part
         /\ \A k \in DOMAIN part : Completed(part)[k].row = part[k].row
         /\ AllRows(Completed(part)) = AllRows(part)
<1> DEFINE q == Completed(part)
           n == Len(part)
<1>0. n \in Nat /\ DOMAIN part = 1..n /\ \A k \in 1..n : part[k] \in Piece
  OBVIOUS
<1>1. q = [k \in 1..n |-> IF k = n THEN [part[k] EXCEPT !.stage = "line"] ELSE part[k]]
  BY <1>0 DEF Completed
<1>2. \A k \in DOMAIN part : q[k] \in Piece /\ q[k].row = part[k].row
  <2> SUFFICES ASSUME NEW k \in 1..n
               PROVE  q[k] \in Piece /\ q[k].row = part[k].row
    BY <1>0
  <2>1. q[k] = IF k = n THEN [part[k] EXCEPT !.stage = "line"] ELSE part[k]
    BY <1>1
  <2> HIDE DEF q
  <2> QED
    BY <1>0, <2>1 DEF Piece
<1>3. DOMAIN q = DOMAIN part /\ q \in Seq(Piece)
  <2> HIDE DEF q
  <2>1. DOMAIN q = 1..n
    BY <1>1
  <2>2. q \in [1..n -> Piece]
    BY <1>0, <1>1, <1>2, <2>1
  <2> QED
    BY <1>0, <2>1, <2>2
<1>4. AllRows(q) = AllRows(part)
  <2> HIDE DEF q
  <2> QED
    BY <1>3, <1>2 DEF AllRows
<1> QED
  BY <1>2, <1>3, <1>4

----------------------------------------------------------------------------
(* The files of the corpus. *)

\* What is acknowledged is complete because a batch is acknowledged only where
\* it is complete, and because what was served is not written to again: a batch
\* not served yet has no file.
FilesInv ==
    /\ disk \in [Files -> Int]
    /\ \A f \in Files : disk[f] \in -1..Len(Content[f])
    /\ cursor \in 0..NBatches
    /\ acked \subseteq 1..cursor
    /\ fetch \in {"off", "ask", "write"}
    /\ fetch = "write" => cursor # 0
    /\ \A b \in Files : cursor < b /\ b <= NBatches => disk[b] = -1
    /\ fetch_faults \in Nat
    /\ AckedIsOnDisk

Finishes == \A f \in Files : Complete(f) => Complete(f)'

\* The steps of the scanners and of the coordinator.
ScanningStep ==
    \/ \E s \in Scanners : Scan(s) \/ ScanRaises(s) \/ SkipFile(s)
    \/ HandScanDies
    \/ Start
    \/ Merge
    \/ MergeRaises
    \/ MergeSaveRaises
    \/ Checkpoint
    \/ Dies

LEMMA Steps ==
  ASSUME [Next]_vars
  PROVE  \/ Fetch /\ UNCHANGED scanning
         \/ (\E f \in Files : CopyByHand(f)) /\ UNCHANGED scanning
         \/ ScanningStep /\ UNCHANGED fetching
         \/ UNCHANGED fetching /\ UNCHANGED scanning
<1>1. CASE Fetch
  BY <1>1 DEF Fetch, FetchStarts, FetchEnds, FetchNext, FetchWriteRow, FetchAck, FetchDies
<1>2. CASE \E f \in Files : CopyByHand(f)
  BY <1>2 DEF CopyByHand
<1>3. CASE ScanningStep
  <2>1. ASSUME NEW s \in Scanners, Scan(s)
        PROVE  UNCHANGED fetching
    BY <2>1 DEF Scan, ScanBegins, LoadRaises, Raised, HashFile, ReadFile, WalkEnds,
                AppendRow, BeginsRow, FlushRow
  <2>2. ASSUME NEW s \in Scanners, ScanRaises(s) \/ SkipFile(s)
        PROVE  UNCHANGED fetching
    BY <2>2 DEF ScanRaises, Raised, SkipFile
  <2>3. ASSUME HandScanDies \/ Start \/ Merge \/ MergeRaises
             \/ MergeSaveRaises \/ Checkpoint \/ Dies
        PROVE  UNCHANGED fetching
    BY <2>3 DEF HandScanDies, Start, Merge, MergeRaises, MergeSaveRaises, MergeEndsEarly,
                Checkpoint, Dies
  <2> QED
    BY <1>3, <2>1, <2>2, <2>3 DEF ScanningStep
<1>4. CASE UNCHANGED vars
  BY <1>4 DEF vars, fetching, scanning
<1> QED
  BY <1>1, <1>2, <1>3, <1>4 DEF Next, ScanningStep

LEMMA FilesInit == Init => FilesInv
  BY CorpusAssumption DEF Init, FilesInv, AckedIsOnDisk

\* A file that is not complete gets another row.
LEMMA RowWritten ==
  ASSUME FilesInv, NEW f \in Files, ~Complete(f), f <= cursor \/ f > NBatches,
         disk' = [disk EXCEPT ![f] = @ + 1],
         UNCHANGED <<cursor, acked, fetch, fetch_faults>>
  PROVE  FilesInv' /\ Finishes
<1> USE CorpusAssumption DEF FilesInv, Complete
<1>1. /\ disk' \in [Files -> Int]
      /\ disk'[f] = disk[f] + 1
      /\ \A g \in Files : g # f => disk'[g] = disk[g]
  OBVIOUS
<1>2. disk'[f] \in -1..Len(Content[f])
  <2>1. disk[f] \in -1..Len(Content[f]) /\ disk[f] # Len(Content[f])
    OBVIOUS
  <2> QED
    BY <1>1, <2>1
<1>3. Finishes
  BY <1>1 DEF Finishes
<1>4. AckedIsOnDisk'
  <2>1. acked \subseteq Files
    BY DEF Files
  <2> QED
    BY <1>3, <2>1 DEF Finishes, AckedIsOnDisk
<1>5. \A b \in Files : cursor' < b /\ b <= NBatches => disk'[b] = -1
  BY <1>1 DEF Files
<1>6. \A g \in Files : disk'[g] \in -1..Len(Content[g])
  BY <1>1, <1>2
<1> QED
  BY <1>1, <1>3, <1>4, <1>5, <1>6

LEMMA FilesStep ==
  ASSUME FilesInv, [Next]_vars
  PROVE  FilesInv' /\ Finishes
<1> USE CorpusAssumption DEF FilesInv, AckedIsOnDisk, Complete, Finishes
<1>0. Files = 1..Len(Content) /\ NBatches \in 0..Len(Content)
  BY DEF Files
<1>1. CASE UNCHANGED fetching
  BY <1>1 DEF fetching
<1>2. ASSUME NEW f \in Files, CopyByHand(f)
      PROVE  FilesInv' /\ Finishes
  BY <1>2, RowWritten DEF CopyByHand
<1>3. CASE Fetch
  <2>1. CASE FetchStarts \/ FetchEnds
    BY <2>1 DEF FetchStarts, FetchEnds
  <2>2. CASE FetchNext
    BY <1>0, <2>2 DEF FetchNext
  <2>3. CASE FetchWriteRow
    <3>1. cursor \in Files /\ cursor <= cursor
      BY <1>0, <2>3 DEF FetchWriteRow
    <3> QED
      BY <2>3, <3>1, RowWritten DEF FetchWriteRow
  <2>4. CASE FetchAck
    BY <1>0, <2>4 DEF FetchAck
  <2>5. CASE FetchDies
    <3>1. /\ UNCHANGED disk
          /\ fetch' = "off"
          /\ fetch_faults' = fetch_faults + 1
      BY <2>5 DEF FetchDies, FetchFault
    <3>2. CASE UNCHANGED <<cursor, acked>>
      BY <3>1, <3>2
    <3>3. CASE cursor < NBatches /\ cursor' = cursor + 1 /\ UNCHANGED acked
      BY <1>0, <3>1, <3>3
    <3>4. CASE /\ fetch = "write" /\ Complete(cursor)
               /\ acked' = acked \cup {cursor} /\ UNCHANGED cursor
      BY <1>0, <3>1, <3>4
    <3> QED
      BY <2>5, <3>2, <3>3, <3>4 DEF FetchDies
  <2> QED
    BY <1>3, <2>1, <2>2, <2>3, <2>4, <2>5 DEF Fetch
<1> QED
  BY <1>1, <1>2, <1>3, Steps

\* Wherever fetch_corpus or a request of it dies, the API was told of no batch
\* to have arrived that is not complete on disk.
THEOREM AckedIsOnDiskAlways == Spec => []AckedIsOnDisk
<1>1. FilesInv /\ [Next]_vars => FilesInv'
  BY FilesStep
<1>2. FilesInv => AckedIsOnDisk
  BY DEF FilesInv
<1> QED
  BY FilesInit, <1>1, <1>2, PTL DEF Spec

----------------------------------------------------------------------------
(* What an interrupted fetch costs. *)

\* The batches that are served, not complete, and not being written.
Lost == {b \in 1..cursor : ~Complete(b)} \ (IF fetch = "write" THEN {cursor} ELSE {})

LostInv == FilesInv /\ Cardinality(Lost) <= fetch_faults

LEMMA LostIsFinite ==
  ASSUME FilesInv
  PROVE  IsFiniteSet(Lost) /\ Cardinality(Lost) \in Nat
<1>1. Lost \subseteq 1..cursor /\ cursor \in Int
  BY CorpusAssumption DEF Lost, FilesInv
<1>2. IsFiniteSet(1..cursor)
  BY <1>1, FS_Interval
<1> QED
  BY <1>1, <1>2, FS_Subset, FS_CardinalityType

\* Only a fetch that dies loses a batch, and then it is one batch.
LEMMA LosesOne ==
  ASSUME FilesInv, [Next]_vars
  PROVE  \/ Lost' \subseteq Lost /\ fetch_faults' = fetch_faults
         \/ /\ \E b : Lost' \subseteq Lost \cup {b}
            /\ fetch_faults' = fetch_faults + 1
<1>0. Files = 1..Len(Content) /\ NBatches \in 0..Len(Content)
  BY CorpusAssumption DEF Files
<1> USE DEF FilesInv, Lost
<1>1. \A b \in 1..cursor : Complete(b) => Complete(b)'
  BY <1>0, FilesStep DEF Finishes
<1>2. CASE cursor' = cursor /\ fetch' = fetch /\ fetch_faults' = fetch_faults
  BY <1>1, <1>2
<1>3. CASE Fetch
  <2>1. CASE FetchStarts \/ FetchEnds \/ FetchWriteRow
    BY <1>1, <2>1 DEF FetchStarts, FetchEnds, FetchWriteRow
  <2>2. CASE FetchNext
    <3>1. \A b \in 1..cursor' : b \in 1..cursor \/ b = cursor'
      BY <1>0, <2>2 DEF FetchNext
    <3> QED
      BY <1>1, <2>2, <3>1 DEF FetchNext
  <2>3. CASE FetchAck
    BY <1>1, <2>3 DEF FetchAck
  <2>4. CASE FetchDies
    <3>1. fetch' = "off" /\ fetch_faults' = fetch_faults + 1
      BY <2>4 DEF FetchDies, FetchFault
    <3>2. CASE fetch = "write" /\ cursor' = cursor
      <4>1. Lost' \subseteq Lost \cup {cursor}
        BY <1>1, <3>1, <3>2
      <4> QED
        BY <3>1, <4>1
    <3>3. CASE fetch = "ask"
      <4>1. \A b \in 1..cursor' : b \in 1..cursor \/ b = cursor'
        BY <1>0, <2>4, <3>3 DEF FetchDies
      <4>2. Lost' \subseteq Lost \cup {cursor'}
        BY <1>1, <3>1, <3>3, <4>1
      <4> QED
        BY <3>1, <4>2
    <3> QED
      BY <2>4, <3>2, <3>3 DEF FetchDies
  <2> QED
    BY <1>3, <2>1, <2>2, <2>3, <2>4 DEF Fetch
<1> QED
  BY <1>2, <1>3, Steps DEF fetching, CopyByHand

LEMMA LostInit == Init => LostInv
<1> SUFFICES ASSUME Init
             PROVE  Cardinality(Lost) <= fetch_faults
  BY FilesInit DEF LostInv
<1>1. Lost = {}
  BY DEF Init, Lost
<1> QED
  BY <1>1, FS_EmptySet DEF Init

LEMMA LostStep == LostInv /\ [Next]_vars => LostInv'
<1> SUFFICES ASSUME LostInv, [Next]_vars
             PROVE  LostInv'
  OBVIOUS
<1>1. FilesInv /\ FilesInv' /\ Cardinality(Lost) <= fetch_faults
  BY FilesStep DEF LostInv
<1>2. /\ IsFiniteSet(Lost) /\ Cardinality(Lost) \in Nat
      /\ fetch_faults \in Nat
      /\ Cardinality(Lost') \in Nat
  <2>1. \A S : IsFiniteSet(S) => Cardinality(S) \in Nat
    BY FS_CardinalityType
  <2>2. IsFiniteSet(Lost) /\ Cardinality(Lost) \in Nat
    BY <1>1, LostIsFinite
  <2>3. IsFiniteSet(Lost')
    <3>1. Lost' \subseteq 1..cursor' /\ cursor' \in Int
      BY <1>1, CorpusAssumption DEF Lost, FilesInv
    <3>2. IsFiniteSet(1..cursor')
      BY <3>1, FS_Interval
    <3> QED
      BY <3>1, <3>2, FS_Subset
  <2> QED
    BY <1>1, <2>1, <2>2, <2>3 DEF FilesInv
<1>3. CASE Lost' \subseteq Lost /\ fetch_faults' = fetch_faults
  <2>1. Cardinality(Lost') <= Cardinality(Lost)
    BY <1>2, <1>3, FS_Subset
  <2> QED
    BY <1>1, <1>2, <1>3, <2>1 DEF LostInv
<1>4. ASSUME NEW b, Lost' \subseteq Lost \cup {b}, fetch_faults' = fetch_faults + 1
      PROVE  LostInv'
  <2>1. IsFiniteSet(Lost \cup {b})
        /\ Cardinality(Lost \cup {b}) \in {Cardinality(Lost), Cardinality(Lost) + 1}
    BY <1>2, FS_AddElement
  <2>2. Cardinality(Lost') <= Cardinality(Lost \cup {b})
    BY <1>4, <2>1, FS_Subset
  <2> QED
    BY <1>1, <1>2, <1>4, <2>1, <2>2 DEF LostInv
<1> QED
  BY <1>1, <1>3, <1>4, LosesOne

\* However often fetching is interrupted, each time costs the one batch at hand:
\* all other batches the API has served are complete.
THEOREM LostBoundedAlways == Spec => []LostBounded
<1>1. LostInv => LostBounded
  BY DEF LostInv, LostBounded, Lost
<1> QED
  BY LostInit, LostStep, <1>1, PTL DEF Spec

----------------------------------------------------------------------------
(* Type correctness. *)

ScanState ==
    [stage : {"idle", "walk", "read", "append", "flush", "merge"}, seen : SUBSET Ids,
     todo : SUBSET Files, file : Int, hashed : Int, rows : SUBSET Row, begun : SUBSET Row]

\* A scan is in a state it can be in.
Proper(s, sc) ==
    /\ sc \in ScanState
    /\ sc.stage = "read" => sc.file \in 1..NText
    /\ sc.stage = "append" => sc.rows # {}
    /\ sc.stage = "flush" => sc.begun # {}
    /\ sc.stage = "merge" => s = "coordinator"

ScanInv ==
    /\ manifest \in Seq(Piece)
    /\ scan \in [Scanners -> ScanState]
    /\ \A s \in Scanners : Proper(s, scan[s])
    /\ process \in {"down", "starting", "up"}
    /\ process = "down" => table = {} /\ scan["coordinator"] = Quiet
    /\ scan_faults \in Nat
    /\ fetch_faults + scan_faults \in 0..MaxFaults

TypeInv == FilesInv /\ ScanInv

LEMMA QuietIsProper ==
  /\ Quiet.stage = "idle"
  /\ \A s : Proper(s, Quiet)
  /\ \A s \in {"coordinator"} : Proper(s, [Quiet EXCEPT !.stage = "merge"])
  /\ \A s : Proper(s, [Quiet EXCEPT !.stage = Finished(s)])
  BY DEF Quiet, Proper, ScanState, Finished

LEMMA NewRowsAreRows ==
  ASSUME NEW s \in Scanners, NEW f \in Files, NEW n \in Int, NEW chunks \in Int, NEW seen
  PROVE  NewRows(s, f, n, chunks, seen) \subseteq Row
<1>1. ASSUME NEW idx \in 1..chunks
      PROVE  [id |-> ItemId(f, n, idx), path |-> f, by |-> s] \in Row
  <2>1. idx \in Nat
    OBVIOUS
  <2>2. ItemId(f, n, idx) \in Ids
    BY <2>1 DEF Ids
  <2> QED
    BY <2>2 DEF Row
<1> QED
  BY <1>1 DEF NewRows

LEMMA ListedAreIds ==
  ASSUME manifest \in Seq(Piece)
  PROVE  Listed \subseteq Ids
<1>1. AllRows(manifest) \subseteq Row
  <2>1. \A k \in DOMAIN manifest : manifest[k] \in Piece
    OBVIOUS
  <2> QED
    BY <2>1 DEF AllRows, Piece
<1> QED
  BY <1>1, RowsAreThere DEF Listed, Row

\* A step that changes the scan of one scanner only, and not to one of a process
\* that is down.
LEMMA OneScans ==
  ASSUME ScanInv, NEW s \in Scanners, NEW sc,
         scan' = [scan EXCEPT ![s] = sc], Proper(s, sc),
         s = "coordinator" => process # "down",
         UNCHANGED <<process, table>>
  PROVE  /\ scan' \in [Scanners -> ScanState]
         /\ \A t \in Scanners : Proper(t, scan'[t])
         /\ process' \in {"down", "starting", "up"}
         /\ process' = "down" => table' = {} /\ scan'["coordinator"] = Quiet
<1>1. sc \in ScanState
  BY DEF Proper
<1>2. \A t \in Scanners : scan'[t] = IF t = s THEN sc ELSE scan[t]
  BY DEF ScanInv
<1>3. scan' \in [Scanners -> ScanState]
  BY <1>1 DEF ScanInv
<1> QED
  BY <1>2, <1>3, CorpusAssumption DEF ScanInv

LEMMA ScanTypes ==
  ASSUME TypeInv, [Next]_vars, NEW s \in Scanners, Scan(s)
  PROVE  ScanInv'
<1> DEFINE sc == scan[s]
<1>t. /\ ScanInv
      /\ manifest \in Seq(Piece)
      /\ \A f \in Files : disk[f] \in Int
      /\ process = "down" => scan["coordinator"] = Quiet
      /\ scan \in [Scanners -> ScanState]
  BY DEF TypeInv, ScanInv, FilesInv
<1>0. Proper(s, sc) /\ sc \in ScanState
  BY <1>t DEF ScanInv
<1>00. /\ sc.seen \in SUBSET Ids /\ sc.todo \in SUBSET Files /\ sc.file \in Int
       /\ sc.hashed \in Int /\ sc.rows \in SUBSET Row /\ sc.begun \in SUBSET Row
  BY <1>0 DEF ScanState
<1>1. UNCHANGED <<scan_faults, fetch_faults>>
  BY DEF Scan, ScanBegins, LoadRaises, Raised, HashFile, ReadFile, WalkEnds, AppendRow,
         BeginsRow, FlushRow, fetching
<1>2. ASSUME NEW new, scan' = [scan EXCEPT ![s] = new], Proper(s, new),
             s = "coordinator" => process # "down", UNCHANGED <<process, table>>,
             manifest' \in Seq(Piece)
      PROVE  ScanInv'
  <2>1. fetch_faults' + scan_faults' \in 0..MaxFaults /\ scan_faults' \in Nat
    BY <1>t, <1>1 DEF ScanInv
  <2> QED
    BY <1>t, <1>2, <2>1, OneScans DEF ScanInv
<1>3. sc.stage # "idle" => (s = "coordinator" => process # "down")
  BY <1>t, QuietIsProper
<1>4. CASE ScanBegins(s)
  <2> DEFINE new == [Quiet EXCEPT !.stage = "walk", !.seen = Listed,
                                  !.todo = {f \in Files : disk[f] >= 0}]
  <2>1. Proper(s, new)
    <3>1. Listed \in SUBSET Ids /\ {f \in Files : disk[f] >= 0} \in SUBSET Files
      BY <1>t, ListedAreIds
    <3>2. ASSUME NEW seen \in SUBSET Ids, NEW todo \in SUBSET Files
          PROVE  Proper(s, [Quiet EXCEPT !.stage = "walk", !.seen = seen, !.todo = todo])
      <4> DEFINE q == [Quiet EXCEPT !.stage = "walk", !.seen = seen, !.todo = todo]
      <4>1. Quiet \in ScanState
        BY QuietIsProper DEF Proper
      <4>2. q \in ScanState /\ q.stage = "walk"
        BY <4>1 DEF ScanState
      <4> HIDE DEF q
      <4>3. Proper(s, q)
        BY <4>2 DEF Proper
      <4> QED
        BY <4>3 DEF q
    <3> QED
      BY <3>1, <3>2
  <2>2. scan' = [scan EXCEPT ![s] = new]
    BY <1>4 DEF ScanBegins
  <2> HIDE DEF new
  <2> QED
    BY <1>t, <1>2, <1>4, <2>1, <2>2 DEF ScanBegins, MayScan
<1>5. CASE LoadRaises(s)
  <2>1. CASE s = "coordinator" /\ process = "starting"
    BY <1>t, <1>2, <1>5, <2>1, QuietIsProper DEF LoadRaises, Raised
  <2>2. CASE ~(s = "coordinator" /\ process = "starting")
    BY <1>t, <1>2, <1>5, <2>2, QuietIsProper DEF LoadRaises, Raised, MayScan
  <2> QED
    BY <2>1, <2>2
<1>6. CASE HashFile(s)
  <2>1. PICK f \in sc.todo : scan' = [scan EXCEPT ![s] = Hashed(s, f)]
    BY <1>6 DEF HashFile
  <2>2. f \in Files /\ disk[f] \in Int /\ f \in Int /\ f >= 1
    BY <1>00, <1>t, CorpusAssumption DEF Files
  <2>3. Proper(s, Hashed(s, f))
    <3>1. CASE f <= NText
      <4> DEFINE q == [sc EXCEPT !.todo = @ \ {f}, !.stage = "read", !.file = f,
                                 !.hashed = disk[f]]
      <4>1. sc.todo \ {f} \in SUBSET Files /\ f \in 1..NText
        BY <1>00, <2>2, <3>1, CorpusAssumption
      <4>2. q \in ScanState /\ q.stage = "read" /\ q.file = f
        BY <1>0, <2>2, <4>1 DEF ScanState
      <4>3. Hashed(s, f) = q
        BY <3>1 DEF Hashed
      <4> HIDE DEF q
      <4> QED
        BY <4>1, <4>2, <4>3 DEF Proper
    <3>2. CASE ~(f <= NText)
      <4> DEFINE rows == NewRows(s, f, disk[f], 1, sc.seen)
                 q == [sc EXCEPT !.todo = @ \ {f}, !.rows = @ \cup rows]
      <4>1. rows \in SUBSET Row
        BY <2>2, NewRowsAreRows
      <4>2. Hashed(s, f) = q
        BY <3>2 DEF Hashed
      <4> HIDE DEF rows
      <4>3. sc.rows \cup rows \in SUBSET Row /\ sc.todo \ {f} \in SUBSET Files
        BY <1>00, <4>1
      <4>4. q \in ScanState /\ q.stage = sc.stage
        BY <1>0, <4>3 DEF ScanState
      <4> HIDE DEF q
      <4> QED
        BY <1>6, <4>2, <4>4 DEF Proper, HashFile
    <3> QED
      BY <3>1, <3>2
  <2> QED
    BY <1>t, <1>2, <1>3, <1>6, <2>1, <2>3 DEF HashFile
<1>7. CASE ReadFile(s)
  <2> DEFINE rows == NewRows(s, sc.file, sc.hashed, disk[sc.file], sc.seen)
             new == WalksOn(sc, rows)
  <2>1. rows \in SUBSET Row
    <3>1. sc.file \in Files /\ sc.hashed \in Int /\ disk[sc.file] \in Int
      BY <1>0, <1>00, <1>t, <1>7, CorpusAssumption DEF ReadFile, Proper, Files
    <3> QED
      BY <3>1, NewRowsAreRows
  <2>2. scan' = [scan EXCEPT ![s] = new]
    BY <1>7 DEF ReadFile
  <2> HIDE DEF rows
  <2>3. new \in ScanState /\ new.stage = "walk"
    <3>1. ASSUME NEW n \in Int, NEW all \in SUBSET Row
          PROVE  [sc EXCEPT !.stage = "walk", !.file = n, !.hashed = n, !.rows = all]
                   \in ScanState
      BY <1>0 DEF ScanState
    <3>2. sc.rows \cup rows \in SUBSET Row
      BY <1>00, <2>1
    <3> QED
      <4> DEFINE q == [sc EXCEPT !.stage = "walk", !.file = 0, !.hashed = 0,
                                 !.rows = @ \cup rows]
      <4>1. q \in ScanState
        <5>1. PICK n \in Int : n = 0
          OBVIOUS
        <5>2. [sc EXCEPT !.stage = "walk", !.file = n, !.hashed = n,
                         !.rows = sc.rows \cup rows] \in ScanState
          BY <3>1, <3>2
        <5> QED
          BY <5>1, <5>2
      <4>2. q.stage = "walk"
        BY <1>0 DEF ScanState
      <4>3. new = q
        BY DEF WalksOn
      <4> HIDE DEF q, new
      <4> QED
        BY <4>1, <4>2, <4>3
  <2> HIDE DEF new
  <2>4. Proper(s, new)
    BY <2>3 DEF Proper
  <2> QED
    BY <1>t, <1>2, <1>3, <1>7, <2>2, <2>4 DEF ReadFile
<1>8. CASE WalkEnds(s)
  <2>1. CASE sc.rows # {}
    <3>1. Proper(s, [sc EXCEPT !.stage = "append"])
      BY <1>0, <2>1 DEF Proper, ScanState
    <3> QED
      BY <1>t, <1>2, <1>3, <1>8, <2>1, <3>1 DEF WalkEnds, Goes
  <2>2. CASE sc.rows = {}
    BY <1>t, <1>2, <1>3, <1>8, <2>2, QuietIsProper DEF WalkEnds
  <2> QED
    BY <2>1, <2>2
<1>9. CASE AppendRow(s)
  <2>1. PICK row \in sc.rows, stage \in {"part", "text"} :
          BeginsRow(s, row) /\ manifest' = Append(manifest, [row |-> row, stage |-> stage])
    BY <1>9 DEF AppendRow
  <2>2. [row |-> row, stage |-> stage] \in Piece
    BY <1>0 DEF ScanState, Piece
  <2>3. manifest' \in Seq(Piece)
    BY <1>t, <2>1, <2>2, Appending
  <2> DEFINE new == [sc EXCEPT !.stage = "flush", !.begun = {row}, !.rows = @ \ {row}]
  <2>4. new \in ScanState /\ new.stage = "flush" /\ new.begun = {row}
    <3>1. sc.rows \ {row} \in SUBSET Row /\ {row} \in SUBSET Row
      BY <1>00
    <3> QED
      BY <1>0, <3>1 DEF ScanState
  <2>5. scan' = [scan EXCEPT ![s] = new]
    BY <2>1 DEF BeginsRow
  <2> HIDE DEF new
  <2>6. Proper(s, new)
    BY <2>4 DEF Proper
  <2> QED
    BY <1>2, <1>3, <2>1, <2>3, <2>5, <2>6 DEF BeginsRow
<1>10. CASE FlushRow(s)
  <2>1. manifest' \in Seq(Piece)
    <3>1. PICK row \in sc.begun :
            manifest' = IF manifest[Len(manifest)].row = row THEN Completed(manifest)
                        ELSE Append(manifest, [row |-> row, stage |-> "rest"])
      BY <1>10 DEF FlushRow
    <3>2. [row |-> row, stage |-> "rest"] \in Piece
      BY <1>0 DEF ScanState, Piece
    <3> QED
      BY <1>t, <3>1, <3>2, Appending, Completing
  <2>2. CASE sc.rows # {}
    <3>1. Proper(s, [sc EXCEPT !.stage = "append", !.begun = {}])
      BY <1>0, <2>2 DEF Proper, ScanState
    <3> QED
      BY <1>2, <1>3, <1>10, <2>1, <2>2, <3>1 DEF FlushRow
  <2>3. CASE sc.rows = {}
    BY <1>2, <1>3, <1>10, <2>1, <2>3, QuietIsProper DEF FlushRow
  <2> QED
    BY <2>2, <2>3
<1> QED
  BY <1>4, <1>5, <1>6, <1>7, <1>8, <1>9, <1>10 DEF Scan

LEMMA FaultsBounded ==
  ASSUME TypeInv, ScanFault, UNCHANGED fetch_faults
  PROVE  fetch_faults' + scan_faults' \in 0..MaxFaults /\ scan_faults' \in Nat
  BY CorpusAssumption DEF TypeInv, FilesInv, ScanInv, ScanFault

LEMMA ScanFaultTypes ==
  ASSUME TypeInv, UNCHANGED fetching, NEW s \in Scanners, ScanRaises(s) \/ SkipFile(s)
  PROVE  ScanInv'
<1> DEFINE sc == scan[s]
<1>1. /\ ScanInv /\ manifest \in Seq(Piece)
      /\ Proper(s, sc) /\ sc \in ScanState
      /\ process = "down" => scan["coordinator"] = Quiet
  BY DEF TypeInv, ScanInv
<1>2. /\ fetch_faults' + scan_faults' \in 0..MaxFaults /\ scan_faults' \in Nat
      /\ UNCHANGED <<manifest, process, table>>
  BY FaultsBounded DEF ScanRaises, Raised, SkipFile, fetching
<1>3. s = "coordinator" => process # "down"
  BY <1>1, QuietIsProper DEF ScanRaises, SkipFile
<1>4. ASSUME NEW new, scan' = [scan EXCEPT ![s] = new], Proper(s, new)
      PROVE  ScanInv'
  BY <1>1, <1>2, <1>3, <1>4, OneScans DEF ScanInv
<1>5. CASE ScanRaises(s)
  <2>1. CASE s = "coordinator" /\ process = "starting"
    BY <1>4, <1>5, <2>1, QuietIsProper DEF ScanRaises, Raised
  <2>2. CASE ~(s = "coordinator" /\ process = "starting")
    BY <1>4, <1>5, <2>2, QuietIsProper DEF ScanRaises, Raised
  <2> QED
    BY <2>1, <2>2
<1>6. CASE SkipFile(s)
  <2> DEFINE new == WalksOn(sc, {})
  <2>1. new.stage = "walk"
    BY <1>1 DEF WalksOn, ScanState
  <2>2. new \in ScanState
    <3>1. ASSUME NEW n \in Int, NEW rows \in SUBSET Row
          PROVE  [sc EXCEPT !.stage = "walk", !.file = n, !.hashed = n, !.rows = rows]
                   \in ScanState
      BY <1>1 DEF ScanState
    <3>2. PICK n \in Int : n = 0
      OBVIOUS
    <3>3. sc.rows \cup {} \in SUBSET Row
      BY <1>1 DEF ScanState
    <3>4. [sc EXCEPT !.stage = "walk", !.file = n, !.hashed = n, !.rows = sc.rows \cup {}]
            \in ScanState
      BY <3>1, <3>3
    <3> QED
      BY <3>2, <3>4 DEF WalksOn
  <2>3. scan' = [scan EXCEPT ![s] = new]
    BY <1>6 DEF SkipFile
  <2> HIDE DEF new
  <2>4. Proper(s, new)
    BY <2>1, <2>2 DEF Proper
  <2> QED
    BY <1>4, <2>3, <2>4
<1> QED
  BY <1>5, <1>6

\* The steps of the coordinator, and a scan by hand that is killed.
OtherStep == HandScanDies \/ Start \/ Merge \/ MergeRaises
           \/ MergeSaveRaises \/ Checkpoint \/ Dies

LEMMA OtherTypes ==
  ASSUME TypeInv, UNCHANGED fetching, OtherStep
  PROVE  ScanInv'
<1>1. /\ ScanInv /\ manifest \in Seq(Piece) /\ UNCHANGED <<manifest, fetch_faults>>
      /\ scan \in [Scanners -> ScanState]
      /\ \A s \in Scanners : Proper(s, scan[s])
  BY DEF TypeInv, ScanInv, OtherStep, fetching, HandScanDies, Start, Merge, MergeRaises,
         MergeSaveRaises, MergeEndsEarly,
         Checkpoint, Dies
<1>2. fetch_faults' + scan_faults' \in 0..MaxFaults /\ scan_faults' \in Nat
  <2>1. CASE HandScanDies \/ Dies \/ MergeSaveRaises
    BY <1>1, <2>1, FaultsBounded DEF HandScanDies, Dies, MergeSaveRaises
  <2>2. CASE Start \/ Merge \/ MergeRaises \/ Checkpoint
    BY <1>1, <2>2 DEF ScanInv, Start, Merge, MergeRaises, MergeEndsEarly, Checkpoint
  <2> QED
    BY <2>1, <2>2 DEF OtherStep
<1>3. ASSUME NEW s \in Scanners, scan' = [scan EXCEPT ![s] = Quiet]
      PROVE  /\ scan' \in [Scanners -> ScanState]
             /\ \A t \in Scanners : Proper(t, scan'[t])
             /\ scan'[s] = Quiet
  <2>1. Quiet \in ScanState /\ Proper(s, Quiet)
    BY QuietIsProper DEF Proper
  <2>2. \A t \in Scanners : scan'[t] = IF t = s THEN Quiet ELSE scan[t]
    BY <1>1, <1>3
  <2> QED
    BY <1>1, <1>3, <2>1, <2>2
<1>4. CASE HandScanDies
  <2>1. scan'["coordinator"] = scan["coordinator"]
    BY <1>1, <1>4, CorpusAssumption DEF HandScanDies
  <2> QED
    BY <1>1, <1>2, <1>3, <1>4, <2>1 DEF ScanInv, HandScanDies
<1>5. CASE Start \/ Checkpoint
  BY <1>1, <1>2, <1>5 DEF ScanInv, Start, Checkpoint
<1>6. CASE Merge \/ MergeRaises \/ MergeSaveRaises \/ Dies
  <2>1. scan' = [scan EXCEPT !["coordinator"] = Quiet]
    BY <1>6 DEF Merge, MergeRaises, MergeSaveRaises, MergeEndsEarly, Dies
  <2>2. process' \in {"down", "starting", "up"} /\ (process' = "down" => table' = {})
    BY <1>1, <1>6, QuietIsProper DEF ScanInv, Merge, MergeRaises, MergeSaveRaises,
                                     MergeEndsEarly, Dies
  <2> QED
    BY <1>1, <1>2, <1>3, <2>1, <2>2, CorpusAssumption DEF ScanInv
<1> QED
  BY <1>4, <1>5, <1>6 DEF OtherStep

LEMMA TypeInit == Init => TypeInv
<1> SUFFICES ASSUME Init
             PROVE  ScanInv
  BY FilesInit DEF TypeInv
<1>1. Quiet \in ScanState /\ \A s : Proper(s, Quiet)
  BY QuietIsProper DEF Proper
<1> QED
  BY <1>1, CorpusAssumption DEF Init, ScanInv

LEMMA TypeStep == TypeInv /\ [Next]_vars => TypeInv'
<1> SUFFICES ASSUME TypeInv, [Next]_vars
             PROVE  ScanInv'
  BY FilesStep DEF TypeInv
<1>1. CASE UNCHANGED scanning
  <2>1. fetch_faults' + scan_faults' \in 0..MaxFaults
    <3>1. \/ UNCHANGED fetch_faults
          \/ FetchFault
      BY Steps, <1>1 DEF Fetch, FetchStarts, FetchEnds, FetchNext, FetchWriteRow,
                        FetchAck, FetchDies, CopyByHand, fetching, ScanningStep
    <3> QED
      BY <1>1, <3>1, CorpusAssumption DEF TypeInv, FilesInv, ScanInv, FetchFault, scanning
  <2> QED
    BY <1>1, <2>1 DEF TypeInv, ScanInv, scanning
<1>2. CASE ScanningStep /\ UNCHANGED fetching
  BY <1>2, ScanTypes, ScanFaultTypes, OtherTypes DEF ScanningStep, OtherStep
<1> QED
  BY <1>1, <1>2, Steps

\* The variables keep their types: among others, no scan has a text at hand that
\* is none, appends when there is nothing to append, or survives its process.
THEOREM TypeCorrect == Spec => []TypeOK
<1>1. TypeInv => TypeOK
  BY DEF TypeInv, FilesInv, ScanInv, Proper, ScanState, TypeOK
<1> QED
  BY TypeInit, TypeStep, <1>1, PTL DEF Spec

----------------------------------------------------------------------------
(* The manifest. *)

LEMMA ManifestStep ==
  ASSUME TypeInv, [Next]_vars
  PROVE  /\ manifest \in Seq(Piece)
         /\ AllRows(manifest) \subseteq AllRows(manifest')
         /\ \/ manifest' = manifest
            \/ \E s \in Scanners : AppendRow(s) \/ FlushRow(s)
<1>1. manifest \in Seq(Piece) /\ scan \in [Scanners -> ScanState]
  BY DEF TypeInv, ScanInv
<1>2. ASSUME NEW s \in Scanners, AppendRow(s)
      PROVE  AllRows(manifest) \subseteq AllRows(manifest')
  <2>1. PICK row \in scan[s].rows, stage \in {"part", "text"} :
          manifest' = Append(manifest, [row |-> row, stage |-> stage])
    BY <1>2 DEF AppendRow
  <2>2. [row |-> row, stage |-> stage] \in Piece
    BY <1>1 DEF ScanState, Piece
  <2> QED
    BY <1>1, <2>1, <2>2, Appending
<1>3. ASSUME NEW s \in Scanners, FlushRow(s)
      PROVE  AllRows(manifest) \subseteq AllRows(manifest')
  <2>1. PICK row \in scan[s].begun :
          manifest' = IF manifest[Len(manifest)].row = row THEN Completed(manifest)
                      ELSE Append(manifest, [row |-> row, stage |-> "rest"])
    BY <1>3 DEF FlushRow
  <2>2. [row |-> row, stage |-> "rest"] \in Piece
    BY <1>1 DEF ScanState, Piece
  <2> QED
    BY <1>1, <2>1, <2>2, Appending, Completing
<1>4. \/ manifest' = manifest
      \/ \E s \in Scanners : AppendRow(s) \/ FlushRow(s)
  <2>1. CASE UNCHANGED scanning
    BY <2>1 DEF scanning
  <2>2. ASSUME NEW s \in Scanners, Scan(s)
        PROVE  manifest' = manifest \/ AppendRow(s) \/ FlushRow(s)
    BY <2>2 DEF Scan, ScanBegins, LoadRaises, Raised, HashFile, ReadFile, WalkEnds
  <2>3. ASSUME NEW s \in Scanners, ScanRaises(s) \/ SkipFile(s)
        PROVE  manifest' = manifest
    BY <2>3 DEF ScanRaises, Raised, SkipFile
  <2>4. CASE OtherStep
    BY <2>4 DEF OtherStep, HandScanDies, Start, Merge, MergeRaises, MergeSaveRaises,
                MergeEndsEarly, Checkpoint, Dies
  <2> QED
    BY <2>1, <2>2, <2>3, <2>4, Steps DEF ScanningStep, OtherStep
<1> QED
  BY <1>1, <1>2, <1>3, <1>4

LEMMA RowsKept ==
  ASSUME TypeInv, [Next]_vars
  PROVE  Sound(manifest') => Listed \subseteq {row.id : row \in RowsIn(manifest')}
  BY ManifestStep, SoundRows, RowsAreThere DEF Listed

\* Whatever several scanners do to it at a time, and wherever they are killed, as
\* long as every line of the manifest parses nothing it listed is gone.
THEOREM ManifestGrowsAlways == Spec => ManifestGrows
<1>1. TypeInv /\ [Next]_vars
        => [Sound(manifest') => Listed \subseteq {row.id : row \in RowsIn(manifest')}]_vars
  BY RowsKept
<1> QED
  BY TypeInit, TypeStep, <1>1, PTL DEF Spec, ManifestGrows

----------------------------------------------------------------------------
(* Nothing is missed. *)

IdsOf(rows) == {row.id : row \in rows}

\* The ids of the chunks of file f when it is complete.
Owed(f) ==
    {ItemId(f, Len(Content[f]), idx) : idx \in 1..(IF f <= NText THEN Len(Content[f]) ELSE 1)}

\* What the coordinator's scan has made of a file: its chunks are in the manifest
\* or are going to be, or it is still to be hashed, or was hashed and is to be read.
Accounted(f) ==
    LET sc == scan["coordinator"] IN
    \/ f \in sc.todo
    \/ sc.stage = "read" /\ f = sc.file /\ sc.hashed = Len(Content[f])
    \/ Owed(f) \subseteq IdsOf(AllRows(manifest)) \cup IdsOf(sc.rows)

\* A merge finds all chunks of the files that are due, because they are accounted
\* for from the beginning of the scan; the ids a scan knows were in the manifest
\* when it began, and still are.
DueInv ==
    LET sc == scan["coordinator"] IN
    /\ \A f \in due : f \in Files /\ Complete(f)
    /\ sc.stage # "idle" => \A f \in due : Accounted(f)
    /\ sc.stage \in {"append", "flush", "merge"} => sc.todo = {}
    /\ sc.stage = "merge" => sc.rows = {}
    /\ sc.seen \subseteq IdsOf(AllRows(manifest))

PromiseInv ==
    /\ process = "down" => promised = {}
    /\ \A f \in promised : Owed(f) \subseteq table

MissInv == TypeInv /\ DueInv /\ PromiseInv

LEMMA NewRowsHaveIds ==
  ASSUME NEW s, NEW f, NEW n, NEW chunks, NEW seen
  PROVE  \A idx \in 1..chunks :
            ItemId(f, n, idx) \in seen \cup IdsOf(NewRows(s, f, n, chunks, seen))
<1> SUFFICES ASSUME NEW idx \in 1..chunks, ItemId(f, n, idx) \notin seen
             PROVE  ItemId(f, n, idx) \in IdsOf(NewRows(s, f, n, chunks, seen))
  OBVIOUS
<1> DEFINE row == [id |-> ItemId(f, n, idx), path |-> f, by |-> s]
<1>1. row \in NewRows(s, f, n, chunks, seen) /\ row.id = ItemId(f, n, idx)
  BY DEF NewRows
<1> QED
  BY <1>1 DEF IdsOf

LEMMA HashedFields ==
  ASSUME NEW s, scan[s] \in ScanState, NEW f
  PROVE  /\ Hashed(s, f).todo = scan[s].todo \ {f}
         /\ Hashed(s, f).seen = scan[s].seen
         /\ Hashed(s, f).begun = scan[s].begun
         /\ f <= NText => /\ Hashed(s, f).stage = "read"
                          /\ Hashed(s, f).file = f
                          /\ Hashed(s, f).hashed = disk[f]
                          /\ Hashed(s, f).rows = scan[s].rows
         /\ ~(f <= NText) =>
              /\ Hashed(s, f).stage = scan[s].stage
              /\ Hashed(s, f).rows
                   = scan[s].rows \cup NewRows(s, f, disk[f], 1, scan[s].seen)
<1>1. CASE f <= NText
  BY <1>1 DEF Hashed, ScanState
<1>2. CASE ~(f <= NText)
  BY <1>2 DEF Hashed, ScanState
<1> QED
  BY <1>1, <1>2

LEMMA WalksOnFields ==
  ASSUME NEW sc \in ScanState, NEW rows
  PROVE  /\ WalksOn(sc, rows).stage = "walk"
         /\ WalksOn(sc, rows).todo = sc.todo
         /\ WalksOn(sc, rows).seen = sc.seen
         /\ WalksOn(sc, rows).begun = sc.begun
         /\ WalksOn(sc, rows).rows = sc.rows \cup rows
  BY DEF WalksOn, ScanState

LEMMA QuietFields ==
  ASSUME NEW stage
  PROVE  /\ [Quiet EXCEPT !.stage = stage].stage = stage
         /\ [Quiet EXCEPT !.stage = stage].todo = {}
         /\ [Quiet EXCEPT !.stage = stage].rows = {}
         /\ [Quiet EXCEPT !.stage = stage].seen = {}
         /\ [Quiet EXCEPT !.stage = stage].begun = {}
         /\ Quiet.stage = "idle" /\ Quiet.seen = {} /\ Quiet.rows = {} /\ Quiet.begun = {}
  BY DEF Quiet

LEMMA IdsOfUnion ==
  ASSUME NEW A, NEW B
  PROVE  /\ IdsOf(A \cup B) = IdsOf(A) \cup IdsOf(B)
         /\ A \subseteq B => IdsOf(A) \subseteq IdsOf(B)
  BY DEF IdsOf

LEMMA DueStands ==
  ASSUME MissInv, [Next]_vars, due' \subseteq due
  PROVE  /\ \A f \in due' : f \in Files /\ Complete(f)'
         /\ IdsOf(AllRows(manifest)) \subseteq IdsOf(AllRows(manifest'))
<1>1. AllRows(manifest) \subseteq AllRows(manifest')
  BY ManifestStep DEF MissInv
<1> QED
  BY <1>1, IdsOfUnion, FilesStep DEF MissInv, TypeInv, DueInv, Finishes

\* The scan of the coordinator stays where it is.
LEMMA DueIdle ==
  ASSUME MissInv, [Next]_vars, due' = due, scan'["coordinator"] = scan["coordinator"]
  PROVE  DueInv'
  BY DueStands DEF MissInv, DueInv, Accounted

\* The scan ends, and nothing is due any more.
LEMMA DueEnds ==
  ASSUME MissInv, [Next]_vars, due' = {}, NEW stage \in {"idle", "merge"},
         scan'["coordinator"] = [Quiet EXCEPT !.stage = stage]
  PROVE  DueInv'
  BY QuietFields DEF DueInv

LEMMA DueHash ==
  ASSUME MissInv, [Next]_vars, UNCHANGED fetching, HashFile("coordinator")
  PROVE  DueInv'
<1> DEFINE s == "coordinator"
           sc == scan[s]
           new == scan'[s]
<1>1. /\ sc \in ScanState /\ sc.stage = "walk"
      /\ due' = due /\ manifest' = manifest /\ s \in Scanners
      /\ scan \in [Scanners -> ScanState]
  BY CorpusAssumption DEF MissInv, TypeInv, ScanInv, HashFile
<1>2. PICK f \in sc.todo : new = Hashed(s, f)
  BY <1>1 DEF HashFile
<1>3. /\ new.todo = sc.todo \ {f} /\ new.seen = sc.seen
      /\ f <= NText => new.stage = "read" /\ new.file = f /\ new.hashed = disk[f]
                       /\ new.rows = sc.rows
      /\ ~(f <= NText) => new.stage = "walk"
                          /\ new.rows = sc.rows \cup NewRows(s, f, disk[f], 1, sc.seen)
  BY <1>1, <1>2, HashedFields
<1>4. IdsOf(sc.rows) \subseteq IdsOf(new.rows)
  BY <1>3, IdsOfUnion
<1>5. ASSUME NEW g \in due
      PROVE  Accounted(g)'
  <2>1. CASE g = f /\ f <= NText
    BY <1>3, <2>1 DEF MissInv, DueInv, Complete, Accounted
  <2>2. CASE g = f /\ ~(f <= NText)
    <3>1. disk[f] = Len(Content[f])
      BY <2>2 DEF MissInv, DueInv, Complete
    <3>2. Owed(f) = {ItemId(f, disk[f], idx) : idx \in 1..1}
      BY <2>2, <3>1 DEF Owed
    <3>3. \A idx \in 1..1 :
             ItemId(f, disk[f], idx) \in sc.seen \cup IdsOf(NewRows(s, f, disk[f], 1, sc.seen))
      BY NewRowsHaveIds
    <3>4. Owed(f) \subseteq sc.seen \cup IdsOf(new.rows)
      BY <1>3, <2>2, <3>2, <3>3, IdsOfUnion
    <3> QED
      BY <1>1, <2>2, <3>4 DEF MissInv, DueInv, Accounted
  <2>3. CASE g # f
    <3>1. g \in sc.todo \/ Owed(g) \subseteq IdsOf(AllRows(manifest)) \cup IdsOf(sc.rows)
      BY <1>1 DEF MissInv, DueInv, Accounted
    <3> QED
      BY <1>1, <1>3, <1>4, <2>3, <3>1 DEF Accounted
  <2> QED
    BY <2>1, <2>2, <2>3
<1> QED
  BY <1>1, <1>3, <1>5, DueStands DEF MissInv, DueInv

LEMMA DueRead ==
  ASSUME MissInv, [Next]_vars, UNCHANGED fetching, ReadFile("coordinator")
  PROVE  DueInv'
<1> DEFINE s == "coordinator"
           sc == scan[s]
           new == scan'[s]
           f == sc.file
           rows == NewRows(s, f, sc.hashed, disk[f], sc.seen)
<1>1. /\ sc \in ScanState /\ sc.stage = "read" /\ f <= NText
      /\ due' = due /\ manifest' = manifest /\ s \in Scanners
      /\ scan \in [Scanners -> ScanState]
  BY CorpusAssumption DEF MissInv, TypeInv, ScanInv, Proper, ReadFile
<1>2. new = WalksOn(sc, rows)
  BY <1>1 DEF ReadFile
<1> HIDE DEF rows
<1>3. /\ new.todo = sc.todo /\ new.seen = sc.seen /\ new.stage = "walk"
      /\ new.rows = sc.rows \cup rows
  BY <1>1, <1>2, WalksOnFields
<1>4. IdsOf(new.rows) = IdsOf(sc.rows) \cup IdsOf(rows)
  BY <1>3, IdsOfUnion
<1>5. ASSUME NEW g \in due
      PROVE  Accounted(g)'
  <2>1. CASE g = f /\ sc.hashed = Len(Content[f])
    <3>1. disk[f] = Len(Content[f])
      BY <2>1 DEF MissInv, DueInv, Complete
    <3>2. Owed(f) = {ItemId(f, sc.hashed, idx) : idx \in 1..disk[f]}
      BY <1>1, <2>1, <3>1 DEF Owed
    <3>3. Owed(f) \subseteq sc.seen \cup IdsOf(rows)
      BY <3>2, NewRowsHaveIds DEF rows
    <3> QED
      BY <1>1, <1>4, <2>1, <3>3 DEF MissInv, DueInv, Accounted
  <2>2. CASE ~(g = f /\ sc.hashed = Len(Content[f]))
    <3>1. g \in sc.todo \/ Owed(g) \subseteq IdsOf(AllRows(manifest)) \cup IdsOf(sc.rows)
      BY <1>1, <2>2 DEF MissInv, DueInv, Accounted
    <3> QED
      BY <1>1, <1>3, <1>4, <3>1 DEF Accounted
  <2> QED
    BY <2>1, <2>2
<1> QED
  BY <1>1, <1>3, <1>5, DueStands DEF MissInv, DueInv

LEMMA DueBegins ==
  ASSUME MissInv, [Next]_vars, UNCHANGED fetching, ScanBegins("coordinator")
  PROVE  DueInv'
<1> DEFINE new == scan'["coordinator"]
<1>1. /\ "coordinator" \in Scanners /\ scan \in [Scanners -> ScanState]
      /\ due' = {f \in Files : Complete(f)} /\ manifest' = manifest
      /\ \A f \in Files : Len(Content[f]) \in Nat
  BY CorpusAssumption DEF MissInv, TypeInv, ScanInv, ScanBegins
<1>2. /\ new.stage = "walk" /\ new.todo = {f \in Files : disk[f] >= 0}
      /\ new.seen = Listed
  BY <1>1 DEF ScanBegins, Quiet
<1>3. \A f \in due' : f \in Files /\ Complete(f) /\ Complete(f)' /\ f \in new.todo
  BY <1>1, <1>2 DEF Complete, fetching
<1>4. Listed \subseteq IdsOf(AllRows(manifest))
  BY RowsAreThere DEF Listed, IdsOf
<1> QED
  BY <1>1, <1>2, <1>3, <1>4 DEF DueInv, Accounted

LEMMA DueWalkEnds ==
  ASSUME MissInv, [Next]_vars, UNCHANGED fetching, WalkEnds("coordinator")
  PROVE  DueInv'
<1> DEFINE sc == scan["coordinator"]
           new == scan'["coordinator"]
<1>1. /\ sc \in ScanState /\ sc.stage = "walk" /\ sc.todo = {}
      /\ due' = due /\ manifest' = manifest /\ "coordinator" \in Scanners
      /\ scan \in [Scanners -> ScanState]
  BY CorpusAssumption DEF MissInv, TypeInv, ScanInv, WalkEnds
<1>2. \A f \in due : Owed(f) \subseteq IdsOf(AllRows(manifest)) \cup IdsOf(sc.rows)
  BY <1>1 DEF MissInv, DueInv, Accounted
<1>3. CASE sc.rows # {}
  <2>1. scan' = [scan EXCEPT !["coordinator"].stage = "append"]
    BY <1>3 DEF WalkEnds, Goes
  <2>2. /\ new.stage = "append" /\ new.todo = {} /\ new.rows = sc.rows
        /\ new.seen = sc.seen
    BY <1>1, <2>1 DEF ScanState
  <2> QED
    BY <1>1, <1>2, <2>2, DueStands DEF MissInv, DueInv, Accounted
<1>4. CASE sc.rows = {}
  <2>1. new = [Quiet EXCEPT !.stage = "merge"]
    BY <1>1, <1>4 DEF WalkEnds, Finished
  <2>2. new.stage = "merge" /\ new.todo = {} /\ new.rows = {} /\ new.seen = {}
    BY <2>1, QuietFields
  <2> QED
    BY <1>1, <1>2, <1>4, <2>2, DueStands DEF MissInv, DueInv, Accounted
<1> QED
  BY <1>3, <1>4

LEMMA DueAppend ==
  ASSUME MissInv, [Next]_vars, UNCHANGED fetching, AppendRow("coordinator")
  PROVE  DueInv'
<1> DEFINE sc == scan["coordinator"]
           new == scan'["coordinator"]
<1>1. /\ sc \in ScanState /\ sc.stage = "append" /\ sc.todo = {}
      /\ due' = due /\ "coordinator" \in Scanners
      /\ scan \in [Scanners -> ScanState] /\ manifest \in Seq(Piece)
  BY CorpusAssumption DEF MissInv, TypeInv, ScanInv, DueInv, AppendRow, BeginsRow
<1>2. \A f \in due : Owed(f) \subseteq IdsOf(AllRows(manifest)) \cup IdsOf(sc.rows)
  BY <1>1 DEF MissInv, DueInv, Accounted
<1>3. PICK row \in sc.rows, stage \in {"part", "text"} :
        BeginsRow("coordinator", row)
        /\ manifest' = Append(manifest, [row |-> row, stage |-> stage])
  BY DEF AppendRow
<1>4. /\ new.stage = "flush" /\ new.todo = {} /\ new.rows = sc.rows \ {row}
      /\ new.seen = sc.seen
  BY <1>1, <1>3 DEF BeginsRow, ScanState
<1>5. AllRows(manifest') = AllRows(manifest) \cup {row}
  <2>1. [row |-> row, stage |-> stage] \in Piece
    BY <1>1 DEF ScanState, Piece
  <2> QED
    BY <1>1, <1>3, <2>1, Appending
<1>6. IdsOf(AllRows(manifest)) \cup IdsOf(sc.rows)
        \subseteq IdsOf(AllRows(manifest')) \cup IdsOf(new.rows)
  <2>1. AllRows(manifest) \cup sc.rows \subseteq AllRows(manifest') \cup new.rows
    BY <1>4, <1>5
  <2> QED
    BY <2>1 DEF IdsOf
<1> QED
  BY <1>1, <1>2, <1>4, <1>6, DueStands DEF MissInv, DueInv, Accounted

LEMMA DueFlush ==
  ASSUME MissInv, [Next]_vars, UNCHANGED fetching, FlushRow("coordinator")
  PROVE  DueInv'
<1> DEFINE sc == scan["coordinator"]
           new == scan'["coordinator"]
<1>1. /\ sc \in ScanState /\ sc.stage = "flush" /\ sc.todo = {}
      /\ due' = due /\ "coordinator" \in Scanners
      /\ scan \in [Scanners -> ScanState]
  BY CorpusAssumption DEF MissInv, TypeInv, ScanInv, DueInv, FlushRow
<1>2. \A f \in due : Owed(f) \subseteq IdsOf(AllRows(manifest')) \cup IdsOf(sc.rows)
  BY <1>1, DueStands DEF MissInv, DueInv, Accounted
<1>3. CASE sc.rows # {}
  <2>1. new.stage = "append" /\ new.todo = {} /\ new.rows = sc.rows /\ new.seen = sc.seen
    BY <1>1, <1>3 DEF FlushRow, ScanState
  <2> QED
    BY <1>1, <1>2, <2>1, DueStands DEF MissInv, DueInv, Accounted
<1>4. CASE sc.rows = {}
  <2>1. new = [Quiet EXCEPT !.stage = "merge"]
    BY <1>1, <1>4 DEF FlushRow, Finished
  <2>2. new.stage = "merge" /\ new.todo = {} /\ new.rows = {} /\ new.seen = {}
    BY <2>1, QuietFields
  <2> QED
    BY <1>1, <1>2, <1>4, <2>2, DueStands DEF MissInv, DueInv, Accounted
<1> QED
  BY <1>3, <1>4

LEMMA DueSkip ==
  ASSUME MissInv, [Next]_vars, UNCHANGED fetching, SkipFile("coordinator")
  PROVE  DueInv'
<1> DEFINE sc == scan["coordinator"]
           new == scan'["coordinator"]
<1>1. /\ sc \in ScanState /\ sc.stage = "read"
      /\ due' = due \ {sc.file} /\ manifest' = manifest /\ "coordinator" \in Scanners
      /\ scan \in [Scanners -> ScanState]
  BY CorpusAssumption DEF MissInv, TypeInv, ScanInv, SkipFile
<1>2. new = WalksOn(sc, {})
  BY <1>1 DEF SkipFile
<1>3. /\ new.todo = sc.todo /\ new.seen = sc.seen /\ new.stage = "walk"
      /\ new.rows = sc.rows
  <2>1. \A rows : WalksOn(sc, rows).rows = sc.rows \cup rows
                  /\ WalksOn(sc, rows).todo = sc.todo
                  /\ WalksOn(sc, rows).seen = sc.seen
                  /\ WalksOn(sc, rows).stage = "walk"
    BY <1>1, WalksOnFields
  <2> QED
    BY <1>2, <2>1
<1> QED
  BY <1>1, <1>3, DueStands DEF MissInv, DueInv, Accounted

LEMMA DueStep ==
  ASSUME MissInv, [Next]_vars
  PROVE  DueInv'
<1>1. scan \in [Scanners -> ScanState] /\ "coordinator" \in Scanners
  BY CorpusAssumption DEF MissInv, TypeInv, ScanInv
<1> DEFINE c == "coordinator"
<1>2. CASE UNCHANGED scanning
  BY <1>2, DueIdle DEF scanning
<1>3. ASSUME NEW s \in Scanners, Scan(s) \/ ScanRaises(s) \/ SkipFile(s), s # c
      PROVE  DueInv'
  <2>1. due' = due /\ scan'[c] = scan[c]
    BY <1>1, <1>3 DEF Scan, ScanRaises, SkipFile, ScanBegins, LoadRaises, Raised, HashFile,
       ReadFile, WalkEnds, AppendRow, BeginsRow, FlushRow, Goes
  <2> QED
    BY <2>1, DueIdle
<1>4. ASSUME UNCHANGED fetching, Scan(c)
      PROVE  DueInv'
  <2>1. CASE LoadRaises(c)
    <3>1. due' = {}
      BY <2>1 DEF LoadRaises, Raised
    <3>2. \E stage \in {"idle", "merge"} : scan'[c] = [Quiet EXCEPT !.stage = stage]
      <4>1. Quiet = [Quiet EXCEPT !.stage = "idle"]
        BY DEF Quiet
      <4> QED
        BY <1>1, <2>1, <4>1 DEF LoadRaises, Raised
    <3> QED
      BY <3>1, <3>2, DueEnds
  <2> QED
    BY <1>4, <2>1, DueBegins, DueHash, DueRead, DueWalkEnds, DueAppend, DueFlush DEF Scan
<1>5. ASSUME UNCHANGED fetching, ScanRaises(c)
      PROVE  DueInv'
  <2>1. due' = {}
    BY <1>5 DEF ScanRaises, Raised
  <2>2. \E stage \in {"idle", "merge"} : scan'[c] = [Quiet EXCEPT !.stage = stage]
    <3>1. Quiet = [Quiet EXCEPT !.stage = "idle"]
      BY DEF Quiet
    <3> QED
      BY <1>1, <1>5, <3>1 DEF ScanRaises, Raised
  <2> QED
    BY <2>1, <2>2, DueEnds
<1>6. ASSUME Merge \/ MergeRaises \/ MergeSaveRaises \/ Dies
      PROVE  DueInv'
  <2>1. due' = {} /\ scan'[c] = Quiet
    BY <1>1, <1>6 DEF Merge, MergeRaises, MergeSaveRaises, MergeEndsEarly, Dies
  <2>2. Quiet = [Quiet EXCEPT !.stage = "idle"]
    BY DEF Quiet
  <2> QED
    BY <2>1, <2>2, DueEnds
<1>7. ASSUME HandScanDies \/ Start \/ Checkpoint
      PROVE  DueInv'
  <2>1. due' = due /\ scan'[c] = scan[c]
    BY <1>1, <1>7 DEF HandScanDies, Start, Checkpoint
  <2> QED
    BY <2>1, DueIdle
<1>8. CASE ScanningStep /\ UNCHANGED fetching
  BY <1>8, <1>3, <1>4, <1>5, <1>6, <1>7, DueSkip DEF ScanningStep
<1> QED
  BY <1>2, <1>8, Steps

LEMMA PromiseStep ==
  ASSUME MissInv, [Next]_vars
  PROVE  PromiseInv'
<1>1. CASE UNCHANGED scanning
  BY <1>1 DEF MissInv, PromiseInv, scanning
<1>2. ASSUME NEW s \in Scanners, Scan(s) \/ ScanRaises(s) \/ SkipFile(s)
      PROVE  PromiseInv'
  <2>1. UNCHANGED <<process, promised, table>>
    BY <1>2 DEF Scan, ScanRaises, SkipFile, ScanBegins, LoadRaises, Raised, HashFile,
       ReadFile, WalkEnds, AppendRow, BeginsRow, FlushRow
  <2> QED
    BY <2>1 DEF MissInv, PromiseInv
<1>3. CASE Merge
  <2>1. process' = "up" /\ promised' = due /\ table' = table \cup Listed
    BY <1>3 DEF Merge
  <2>2. Listed = IdsOf(AllRows(manifest))
    BY <1>3, SoundRows DEF Merge, Listed, IdsOf
  <2>3. ASSUME NEW f \in due
        PROVE  Owed(f) \subseteq table'
    <3>1. /\ scan["coordinator"].stage = "merge" /\ scan["coordinator"].todo = {}
          /\ scan["coordinator"].rows = {} /\ Accounted(f)
      BY <1>3 DEF Merge, MissInv, DueInv
    <3>2. IdsOf({}) = {}
      BY DEF IdsOf
    <3> QED
      BY <2>1, <2>2, <3>1, <3>2 DEF Accounted
  <2> QED
    BY <2>1, <2>3 DEF PromiseInv
<1>4. CASE MergeRaises \/ MergeSaveRaises
  BY <1>4, QuietFields DEF MissInv, TypeInv, ScanInv, PromiseInv, MergeRaises,
                           MergeSaveRaises, MergeEndsEarly
<1>5. CASE HandScanDies \/ Start \/ Checkpoint \/ Dies
  BY <1>5 DEF MissInv, PromiseInv, HandScanDies, Start, Checkpoint, Dies
<1> QED
  BY <1>1, <1>2, <1>3, <1>4, <1>5, Steps DEF ScanningStep

LEMMA MissInit == Init => MissInv
<1> SUFFICES ASSUME Init
             PROVE  DueInv /\ PromiseInv
  BY TypeInit DEF MissInv
<1>1. scan["coordinator"] = Quiet /\ due = {} /\ promised = {}
  BY CorpusAssumption DEF Init
<1> QED
  BY <1>1, QuietFields DEF DueInv, PromiseInv

LEMMA MissStep == MissInv /\ [Next]_vars => MissInv'
  BY TypeStep, DueStep, PromiseStep DEF MissInv

\* A scan and a merge of the coordinator that raise nothing miss no chunk of a
\* file that was complete when they began, whatever is fetched, copied and
\* scanned by others meanwhile, and whoever of them is killed.
THEOREM NothingMissedAlways == Spec => []NothingMissed
<1>1. MissInv => NothingMissed
  BY DEF MissInv, PromiseInv, NothingMissed, Owed
<1> QED
  BY MissInit, MissStep, <1>1, PTL DEF Spec

----------------------------------------------------------------------------
(* Nothing is listed twice. *)

Active(s) == scan[s].stage \in {"walk", "read", "append", "flush"}

Same(p, q) == p.id = q.id /\ p.path = q.path

\* No row the manifest holds, whether its line parses or not, is about to be
\* appended.  A scan knows all of them, as it begins only if every line parses; one
\* at a time, they stay the ones it knows until it appends its own.
OnceInv ==
    ~overlapped =>
        /\ \A s, t \in Scanners : Active(s) /\ Active(t) => s = t
        /\ \A j, k \in DOMAIN manifest : Same(manifest[j].row, manifest[k].row) => j = k
        /\ \A s \in Scanners :
            /\ scan[s].stage \in {"walk", "read"} => scan[s].seen = IdsOf(AllRows(manifest))
            /\ Active(s) => \A row \in scan[s].rows :
                  row.by = s /\ \A k \in DOMAIN manifest : ~Same(row, manifest[k].row)
            /\ scan[s].stage = "flush" =>
                  manifest # <<>> /\ \A row \in scan[s].begun : row = manifest[Len(manifest)].row

ListInv == TypeInv /\ OnceInv

\* Scans stay where they are, or end.
LEMMA OnceRests ==
  ASSUME ListInv, overlapped' = overlapped, manifest' = manifest,
         \A s \in Scanners : scan'[s] = scan[s] \/ ~Active(s)'
  PROVE  OnceInv'
  BY DEF ListInv, OnceInv, Active

\* A scan goes on without touching the manifest.
LEMMA OnceGoesOn ==
  ASSUME ListInv, ~overlapped, overlapped' = overlapped, manifest' = manifest,
         NEW s \in Scanners, Active(s),
         \A t \in Scanners : t # s => scan'[t] = scan[t],
         scan'[s].stage \in {"walk", "read", "append"},
         scan'[s].stage \in {"walk", "read"} => scan'[s].seen = IdsOf(AllRows(manifest)),
         \A row \in scan'[s].rows :
            row.by = s /\ \A k \in DOMAIN manifest : ~Same(row, manifest[k].row)
  PROVE  OnceInv'
<1>1. \A t \in Scanners : t # s => ~Active(t) /\ ~Active(t)'
  BY DEF ListInv, OnceInv, Active
<1> QED
  BY <1>1 DEF ListInv, OnceInv, Active

LEMMA NewRowsAreNew ==
  ASSUME NEW s, NEW f, NEW n, NEW chunks, NEW row,
         row \in NewRows(s, f, n, chunks, IdsOf(AllRows(manifest)))
  PROVE  row.by = s /\ \A k \in DOMAIN manifest : ~Same(row, manifest[k].row)
<1>1. row.by = s /\ row.id \notin IdsOf(AllRows(manifest))
  BY DEF NewRows
<1>2. \A k \in DOMAIN manifest : manifest[k].row.id \in IdsOf(AllRows(manifest))
  BY DEF IdsOf, AllRows
<1> QED
  BY <1>1, <1>2 DEF Same

LEMMA OnceWalks ==
  ASSUME ListInv, ~overlapped, NEW s \in Scanners,
         HashFile(s) \/ ReadFile(s) \/ SkipFile(s)
  PROVE  OnceInv'
<1> DEFINE sc == scan[s]
           new == scan'[s]
<1>1. /\ sc \in ScanState /\ sc.stage \in {"walk", "read"} /\ Active(s)
      /\ overlapped' = overlapped /\ manifest' = manifest
      /\ scan \in [Scanners -> ScanState]
  BY DEF ListInv, TypeInv, ScanInv, HashFile, ReadFile, SkipFile, Active
<1>2. /\ sc.seen = IdsOf(AllRows(manifest))
      /\ \A row \in sc.rows :
            row.by = s /\ \A k \in DOMAIN manifest : ~Same(row, manifest[k].row)
  BY <1>1 DEF ListInv, OnceInv
<1>3. \A t \in Scanners : t # s => scan'[t] = scan[t]
  BY <1>1 DEF HashFile, ReadFile, SkipFile
<1>4. /\ new.stage \in {"walk", "read"}
      /\ new.seen = sc.seen
      /\ \/ new.rows = sc.rows
         \/ \E f, n, chunks : new.rows = sc.rows \cup NewRows(s, f, n, chunks, sc.seen)
  <2>1. CASE HashFile(s)
    <3>1. PICK f \in sc.todo : new = Hashed(s, f)
      BY <1>1, <2>1 DEF HashFile
    <3>2. sc.stage = "walk"
      BY <2>1 DEF HashFile
    <3> QED
      BY <1>1, <3>1, <3>2, HashedFields
  <2>2. CASE ReadFile(s)
    <3>1. new = WalksOn(sc, NewRows(s, sc.file, sc.hashed, disk[sc.file], sc.seen))
      BY <1>1, <2>2 DEF ReadFile
    <3> QED
      BY <1>1, <3>1, WalksOnFields
  <2>3. CASE SkipFile(s)
    <3>1. new = WalksOn(sc, {})
      BY <1>1, <2>3 DEF SkipFile
    <3>2. \A rows : /\ WalksOn(sc, rows).rows = sc.rows \cup rows
                    /\ WalksOn(sc, rows).seen = sc.seen
                    /\ WalksOn(sc, rows).stage = "walk"
      BY <1>1, WalksOnFields
    <3> QED
      BY <3>1, <3>2
  <2> QED
    BY <2>1, <2>2, <2>3
<1>5. \A row \in new.rows :
         row.by = s /\ \A k \in DOMAIN manifest : ~Same(row, manifest[k].row)
  BY <1>2, <1>4, NewRowsAreNew
<1> QED
  BY <1>1, <1>2, <1>3, <1>4, <1>5, OnceGoesOn

LEMMA OnceBegins ==
  ASSUME ListInv, ~overlapped', NEW s \in Scanners, ScanBegins(s)
  PROVE  OnceInv'
<1>1. /\ manifest' = manifest /\ scan \in [Scanners -> ScanState] /\ Sound(manifest)
      /\ ~overlapped /\ \A t \in Scanners : scan[t].stage = "idle"
  BY DEF ListInv, TypeInv, ScanInv, ScanBegins
<1>2. \A t \in Scanners : t # s => scan'[t] = scan[t]
  BY <1>1 DEF ScanBegins
<1>3. scan'[s].stage = "walk" /\ scan'[s].seen = Listed /\ scan'[s].rows = {}
  BY <1>1 DEF ScanBegins, Quiet
<1>4. Listed = IdsOf(AllRows(manifest))
  BY <1>1, SoundRows DEF Listed, IdsOf
<1> QED
  BY <1>1, <1>2, <1>3, <1>4 DEF ListInv, OnceInv, Active

LEMMA OnceWalkEnds ==
  ASSUME ListInv, ~overlapped, NEW s \in Scanners, WalkEnds(s)
  PROVE  OnceInv'
<1>1. /\ scan[s].stage = "walk" /\ Active(s) /\ scan[s] \in ScanState
      /\ overlapped' = overlapped /\ manifest' = manifest
      /\ scan \in [Scanners -> ScanState]
  BY DEF ListInv, TypeInv, ScanInv, WalkEnds, Active
<1>2. CASE scan[s].rows # {}
  <2>1. scan' = [scan EXCEPT ![s].stage = "append"]
    BY <1>2 DEF WalkEnds, Goes
  <2>2. /\ scan'[s].stage = "append" /\ scan'[s].rows = scan[s].rows
        /\ \A t \in Scanners : t # s => scan'[t] = scan[t]
    BY <1>1, <2>1 DEF ScanState
  <2>3. \A row \in scan[s].rows :
           row.by = s /\ \A k \in DOMAIN manifest : ~Same(row, manifest[k].row)
    BY <1>1 DEF ListInv, OnceInv
  <2> QED
    BY <1>1, <2>2, <2>3, OnceGoesOn
<1>3. CASE scan[s].rows = {}
  <2>1. scan'[s] = [Quiet EXCEPT !.stage = Finished(s)]
        /\ \A t \in Scanners : t # s => scan'[t] = scan[t]
    BY <1>1, <1>3 DEF WalkEnds
  <2>2. ~Active(s)'
    BY <2>1, QuietFields DEF Finished, Active
  <2> QED
    BY <1>1, <2>1, <2>2, OnceRests
<1> QED
  BY <1>2, <1>3

LEMMA OnceAppends ==
  ASSUME ListInv, ~overlapped, NEW s \in Scanners, AppendRow(s)
  PROVE  OnceInv'
<1> DEFINE sc == scan[s]
           new == scan'[s]
<1>1. /\ sc.stage = "append" /\ Active(s) /\ sc \in ScanState
      /\ scan \in [Scanners -> ScanState] /\ manifest \in Seq(Piece)
  BY DEF ListInv, TypeInv, ScanInv, AppendRow, BeginsRow, Active
<1>2. PICK row \in sc.rows, stage \in {"part", "text"} :
        BeginsRow(s, row) /\ manifest' = Append(manifest, [row |-> row, stage |-> stage])
  BY DEF AppendRow
<1>3. /\ new.stage = "flush" /\ new.begun = {row} /\ new.rows = sc.rows \ {row}
      /\ \A t \in Scanners : t # s => scan'[t] = scan[t]
      /\ overlapped' = overlapped
  BY <1>1, <1>2 DEF BeginsRow, ScanState
<1> DEFINE n == Len(manifest)
<1>4. /\ n \in Nat /\ DOMAIN manifest = 1..n /\ DOMAIN manifest' = 1..(n + 1)
      /\ \A k \in 1..n : manifest'[k] = manifest[k]
      /\ manifest'[n + 1].row = row /\ manifest' \in Seq(Piece)
  <2>1. [row |-> row, stage |-> stage] \in Piece
    BY <1>1 DEF ScanState, Piece
  <2> QED
    BY <1>1, <1>2, <2>1, Appending
<1>5. \A other \in sc.rows :
         other.by = s /\ \A k \in 1..n : ~Same(other, manifest[k].row)
  BY <1>1, <1>4 DEF ListInv, OnceInv
<1>6. \A other \in sc.rows : Same(other, row) => other = row
  BY <1>1, <1>5 DEF Same, Row, ScanState
<1>7. \A other \in new.rows :
         other.by = s /\ \A k \in DOMAIN manifest' : ~Same(other, manifest'[k].row)
  <2> SUFFICES ASSUME NEW other \in sc.rows, other # row, NEW k \in 1..(n + 1)
               PROVE  ~Same(other, manifest'[k].row)
    BY <1>3, <1>4, <1>5
  <2>1. CASE k \in 1..n
    BY <1>4, <1>5, <2>1
  <2>2. CASE k = n + 1
    BY <1>4, <1>6, <2>2
  <2> QED
    BY <1>4, <2>1, <2>2
<1>8. \A j, k \in DOMAIN manifest' : Same(manifest'[j].row, manifest'[k].row) => j = k
  <2> SUFFICES ASSUME NEW j \in 1..(n + 1), NEW k \in 1..(n + 1),
                      Same(manifest'[j].row, manifest'[k].row)
               PROVE  j = k
    BY <1>4
  <2>1. CASE j \in 1..n /\ k \in 1..n
    BY <1>4, <2>1 DEF ListInv, OnceInv
  <2>2. CASE j \in 1..n /\ k = n + 1
    BY <1>4, <1>5, <2>2 DEF Same
  <2>3. CASE j = n + 1 /\ k \in 1..n
    BY <1>4, <1>5, <2>3 DEF Same
  <2> QED
    BY <1>4, <2>1, <2>2, <2>3
<1>9. manifest' # <<>> /\ \A other \in new.begun : other = manifest'[Len(manifest')].row
  <2>1. Len(manifest') = n + 1
    BY <1>4
  <2> QED
    BY <1>3, <1>4, <2>1
<1>10. \A t \in Scanners : t # s => ~Active(t) /\ ~Active(t)'
  BY <1>1, <1>3 DEF ListInv, OnceInv, Active
<1> QED
  BY <1>3, <1>7, <1>8, <1>9, <1>10 DEF OnceInv, Active

LEMMA OnceFlushes ==
  ASSUME ListInv, ~overlapped, NEW s \in Scanners, FlushRow(s)
  PROVE  OnceInv'
<1> DEFINE sc == scan[s]
           new == scan'[s]
<1>1. /\ sc.stage = "flush" /\ Active(s) /\ sc \in ScanState
      /\ scan \in [Scanners -> ScanState] /\ manifest \in Seq(Piece)
      /\ overlapped' = overlapped
  BY DEF ListInv, TypeInv, ScanInv, FlushRow, Active
<1>2. manifest' = Completed(manifest)
  BY <1>1 DEF ListInv, OnceInv, FlushRow
<1>3. /\ DOMAIN manifest' = DOMAIN manifest
      /\ \A k \in DOMAIN manifest : manifest'[k].row = manifest[k].row
  BY <1>1, <1>2, Completing
<1>4. \A t \in Scanners : t # s => scan'[t] = scan[t]
  BY <1>1 DEF FlushRow
<1>5. \A t \in Scanners : t # s => ~Active(t) /\ ~Active(t)'
  BY <1>1, <1>4 DEF ListInv, OnceInv, Active
<1>6. \A j, k \in DOMAIN manifest' : Same(manifest'[j].row, manifest'[k].row) => j = k
  BY <1>3 DEF ListInv, OnceInv
<1>7. CASE sc.rows # {}
  <2>1. new.stage = "append" /\ new.rows = sc.rows
    BY <1>1, <1>7 DEF FlushRow, ScanState
  <2>2. \A row \in new.rows :
           row.by = s /\ \A k \in DOMAIN manifest' : ~Same(row, manifest'[k].row)
    BY <1>1, <1>3, <2>1 DEF ListInv, OnceInv
  <2> QED
    BY <1>4, <1>5, <1>6, <2>1, <2>2 DEF OnceInv, Active
<1>8. CASE sc.rows = {}
  <2>1. new = [Quiet EXCEPT !.stage = Finished(s)]
    BY <1>1, <1>8 DEF FlushRow
  <2>2. ~Active(s)'
    BY <2>1, QuietFields DEF Finished, Active
  <2> QED
    BY <1>4, <1>5, <1>6, <2>2 DEF OnceInv, Active
<1> QED
  BY <1>7, <1>8

LEMMA OnceStep ==
  ASSUME ListInv, [Next]_vars
  PROVE  OnceInv'
<1>1. scan \in [Scanners -> ScanState]
  BY DEF ListInv, TypeInv, ScanInv
<1>2. CASE UNCHANGED scanning
  BY <1>2, OnceRests DEF scanning
<1>3. ASSUME NEW s \in Scanners, LoadRaises(s) \/ ScanRaises(s)
      PROVE  OnceInv'
  <2>1. /\ overlapped' = overlapped /\ manifest' = manifest
        /\ \A t \in Scanners : t # s => scan'[t] = scan[t]
    BY <1>1, <1>3 DEF LoadRaises, ScanRaises, Raised
  <2>2. scan'[s].stage \in {"idle", "merge"}
    BY <1>1, <1>3, QuietFields DEF LoadRaises, ScanRaises, Raised
  <2> QED
    BY <2>1, <2>2, OnceRests DEF Active
<1>4. CASE OtherStep
  <2>1. /\ overlapped' = overlapped /\ manifest' = manifest
        /\ \A s \in Scanners : scan'[s] = scan[s] \/ scan'[s] = Quiet
    BY <1>1, <1>4 DEF OtherStep, HandScanDies, Start, Merge, MergeRaises, MergeSaveRaises,
                      MergeEndsEarly, Checkpoint, Dies
  <2>2. \A s \in Scanners : scan'[s] = Quiet => ~Active(s)'
    BY QuietFields DEF Active
  <2> QED
    BY <2>1, <2>2, OnceRests
<1>5. ASSUME overlapped'
      PROVE  OnceInv'
  BY <1>5 DEF OnceInv
<1>6. ASSUME NEW s \in Scanners, Scan(s) \/ SkipFile(s), ~overlapped'
      PROVE  OnceInv'
  <2>1. ~overlapped
    BY <1>6 DEF Scan, SkipFile, ScanBegins, LoadRaises, Raised, HashFile, ReadFile,
                WalkEnds, AppendRow, BeginsRow, FlushRow
  <2> QED
    BY <1>3, <1>6, <2>1, OnceBegins, OnceWalks, OnceWalkEnds, OnceAppends, OnceFlushes
       DEF Scan
<1> QED
  BY <1>2, <1>3, <1>4, <1>5, <1>6, Steps DEF ScanningStep, OtherStep

LEMMA OnceInit == Init => ListInv
<1> SUFFICES ASSUME Init
             PROVE  OnceInv
  BY TypeInit DEF ListInv
<1>1. \A s \in Scanners : scan[s] = Quiet
  BY DEF Init
<1>2. DOMAIN manifest = {}
  BY DEF Init
<1> QED
  BY <1>1, <1>2, QuietFields DEF OnceInv, Active

\* As long as no two scans ran at a time, the manifest lists a chunk of a file
\* once, wherever the scans before were killed and whatever grew between them.
THEOREM ListedOnceAlways == Spec => []ListedOnce
<1>1. ListInv => ListedOnce
  BY DEF ListInv, OnceInv, ListedOnce, Readable, Same
<1>2. ListInv /\ [Next]_vars => ListInv'
  BY TypeStep, OnceStep DEF ListInv
<1> QED
  BY OnceInit, <1>1, <1>2, PTL DEF Spec

============================================================================
