------------------------------ MODULE Shards -------------------------------
(***************************************************************************)
(* The shard files of the workers (ShardWriter in src/pipeline/worker.py). *)
(*                                                                         *)
(* A worker appends rows to the last of the files part-00000, part-00001,  *)
(* ... of its own directory, and starts a new one when rows_in_current     *)
(* reaches ROWS_PER_SHARD.  A restarted worker finds out from the files    *)
(* where to go on.                                                         *)
(*                                                                         *)
(* A row is often larger than the buffers of Python's file object, so it   *)
(* reaches the disk in pieces: write() is two steps, and the process may   *)
(* be killed, the disk may fill up, or another process may read the file   *)
(* in between.  JsonLines says what a file then holds.                     *)
(***************************************************************************)
EXTENDS Integers, FiniteSets, Sequences, JsonLines

CONSTANTS
    NWorkers,       \* worker ids, numbered in the order of their names
    NRows,          \* row ids, numbered in the order of their hashes
    ROWS_PER_SHARD, \* sharding.rows_per_shard_file
    MaxRows,        \* bound: rows a worker begins to write
    MaxFaults       \* bound: kills, and writes that raise

VARIABLES
    parts,           \* the files of each worker's directory
    writer,          \* what each worker's ShardWriter is doing
    rows_in_current, \* what each ShardWriter believes of its last file
    kills,           \* how often a worker was killed
    raised,          \* how often a write raised
    returned         \* history: the rows some write of which returned

vars == <<parts, writer, rows_in_current, kills, raised, returned>>

Workers == 1..NWorkers

Rows == 1..NRows

Piece == [row : Rows, stage : {"part", "text", "line"}]

----------------------------------------------------------------------------
\* The rows that can be read back from some file.
Stored == UNION {UNION {RowsIn(parts[w][f]) : f \in DOMAIN parts[w]} : w \in Workers}

Current(w) == parts[w][Len(parts[w])]

\* What the last file holds after what was left in the buffer is flushed.
Flushed(w) == IF writer[w] = "kept" THEN Completed(Current(w)) ELSE Current(w)

Full(w) == rows_in_current[w] >= ROWS_PER_SHARD

TypeOK ==
    /\ parts \in [Workers -> Seq(Seq(Piece))]
    /\ writer \in [Workers -> {"down", "ready", "writing", "kept", "broken"}]
    /\ rows_in_current \in [Workers -> Nat]
    /\ kills \in 0..MaxFaults
    /\ raised \in 0..MaxFaults
    /\ returned \subseteq Rows
    /\ \A w \in Workers :
          writer[w] \in {"writing", "kept"} =>
              Unfinished(Current(w)) /\ ~Full(w)

----------------------------------------------------------------------------
Init ==
    /\ parts = [w \in Workers |-> <<>>]
    /\ writer = [w \in Workers |-> "down"]
    /\ rows_in_current = [w \in Workers |-> 0]
    /\ kills = 0
    /\ raised = 0
    /\ returned = {}

SetCurrent(w, part) == [parts EXCEPT ![w][Len(parts[w])] = part]

\* How many rows the worker has begun to write.
Begun(w) ==
    Cardinality(UNION {{f} \X DOMAIN parts[w][f] : f \in DOMAIN parts[w]})

\* Fault: a restarted writer starts to count from zero.
OpenForgetsCount(w) ==
    /\ writer[w] = "down"
    /\ writer' = [writer EXCEPT ![w] = "ready"]
    /\ parts' = IF parts[w] = <<>> THEN [parts EXCEPT ![w] = << <<>> >>] ELSE parts
    /\ rows_in_current' = [rows_in_current EXCEPT ![w] = 0]
    /\ UNCHANGED <<kills, raised, returned>>

\* Fault: the file the writer goes on with is truncated.
OpenTruncates(w) ==
    /\ writer[w] = "down"
    /\ writer' = [writer EXCEPT ![w] = "ready"]
    /\ parts' = IF parts[w] = <<>> THEN [parts EXCEPT ![w] = << <<>> >>]
                ELSE SetCurrent(w, <<>>)
    /\ rows_in_current' = [rows_in_current EXCEPT ![w] = 0]
    /\ UNCHANGED <<kills, raised, returned>>

\* ShardWriter.__init__: go on with the last file, or with a new one if there
\* is none or the last is full.  In the latter case the count of the full file
\* is kept, so that the first write opens yet another file.
Open(w) ==
    LET rows == IF parts[w] = <<>> THEN 0 ELSE Lines(Current(w)) IN
    /\ writer[w] = "down"
    /\ writer' = [writer EXCEPT ![w] = "ready"]
    /\ rows_in_current' = [rows_in_current EXCEPT ![w] = rows]
    /\ parts' = IF parts[w] = <<>> \/ rows >= ROWS_PER_SHARD
                THEN [parts EXCEPT ![w] = Append(@, <<>>)]
                ELSE parts
    /\ UNCHANGED <<kills, raised, returned>>

\* write(row) begins: a full file is closed and the next one opened, what is
\* left in the buffer goes first, and some of the row is on disk.  (A file
\* with something left in its buffer is not full: the write was not counted.)
Begin(w, row) ==
    /\ writer[w] \in {"ready", "kept"}
    /\ Begun(w) < MaxRows
    /\ writer' = [writer EXCEPT ![w] = "writing"]
    /\ \E stage \in {"part", "text"} :
          LET piece == [row |-> row, stage |-> stage] IN
          parts' = IF Full(w) THEN [parts EXCEPT ![w] = Append(@, <<piece>>)]
                   ELSE SetCurrent(w, Append(Flushed(w), piece))
    /\ rows_in_current' = [rows_in_current EXCEPT ![w] = IF Full(w) THEN 0 ELSE @]
    /\ UNCHANGED <<kills, raised, returned>>

\* The row is flushed and write returns.
Finish(w) ==
    /\ writer[w] = "writing"
    /\ writer' = [writer EXCEPT ![w] = "ready"]
    /\ parts' = SetCurrent(w, Completed(Current(w)))
    /\ rows_in_current' = [rows_in_current EXCEPT ![w] = @ + 1]
    /\ returned' = returned \cup {Current(w)[Len(Current(w))].row}
    /\ UNCHANGED <<kills, raised>>

Raises ==
    /\ kills + raised < MaxFaults
    /\ raised' = raised + 1

\* Fault: the row is counted before it is flushed.
WriteRaisesCounted(w) ==
    /\ writer[w] = "writing"
    /\ Raises
    /\ \E left \in {"ready", "kept"} : writer' = [writer EXCEPT ![w] = left]
    /\ rows_in_current' = [rows_in_current EXCEPT ![w] = @ + 1]
    /\ UNCHANGED <<parts, kills, returned>>

\* write raises half way (the disk is full).  The rest of the row is gone, or
\* still in the buffer of the file object, depending on its size.
WriteRaises(w) ==
    /\ writer[w] = "writing"
    /\ Raises
    /\ \E left \in {"ready", "kept"} : writer' = [writer EXCEPT ![w] = left]
    /\ UNCHANGED <<parts, rows_in_current, kills, returned>>

\* The full file is closed and the next one cannot be opened.  From now on
\* every write of this process finds a closed file that is not full.
OpenNextRaises(w) ==
    /\ writer[w] = "ready"
    /\ Full(w)
    /\ Raises
    /\ writer' = [writer EXCEPT ![w] = "broken"]
    /\ rows_in_current' = [rows_in_current EXCEPT ![w] = 0]
    /\ UNCHANGED <<parts, kills, returned>>

\* The process is killed; what was in its buffer is gone.
Kill(w) ==
    /\ writer[w] # "down"
    /\ kills + raised < MaxFaults
    /\ kills' = kills + 1
    /\ writer' = [writer EXCEPT ![w] = "down"]
    /\ rows_in_current' = [rows_in_current EXCEPT ![w] = 0]
    /\ UNCHANGED <<parts, raised, returned>>

Next ==
    \E w \in Workers :
        \/ Open(w)
        \/ \E row \in Rows : Begin(w, row)
        \/ Finish(w)
        \/ WriteRaises(w)
        \/ OpenNextRaises(w)
        \/ Kill(w)

Spec == Init /\ [][Next]_vars

----------------------------------------------------------------------------
(* Safety. *)

\* rows_per_shard_file: a file has at most that many lines, but for one more
\* per write that raised; a file that is not the last one was left because it
\* was full, but for a line per fault, or was never used (see Open).
ShardSizes ==
    \A w \in Workers : \A f \in DOMAIN parts[w] :
        LET lines == Lines(parts[w][f]) IN
        /\ lines <= ROWS_PER_SHARD + raised
        /\ f < Len(parts[w]) => lines = 0 \/ lines + kills + raised >= ROWS_PER_SHARD

\* "A restarted worker doesn't clobber its own earlier output", to the extent
\* it is true: each kill and each failing write costs at most one row whose
\* write has returned (the one that goes on in the line left unfinished).
DamageBounded == Cardinality(returned \ Stored) <= kills + raised

============================================================================
