------------------------------ MODULE Dataset ------------------------------
(***************************************************************************)
(* Merging the shards into the dataset (src/pipeline/dedup_merge.py),      *)
(* while the workers may go on writing.                                    *)
(*                                                                         *)
(* A merge lists the files, reads them one by one, skipping the rows it    *)
(* has seen, orders the rows by the hash of their ids, and cuts that       *)
(* sequence into three files, which it writes one after the other; at last *)
(* comes the dataset card, if there is none.                               *)
(***************************************************************************)
EXTENDS Integers, FiniteSets, Sequences, SequencesExt

CONSTANTS
    NWorkers, NRows, ROWS_PER_SHARD, MaxRows, MaxFaults,
    TEST_ROWS,          \* split.test_rows
    VALIDATION_ROWS,    \* split.validation_rows
    SHARE               \* a split gets at most one row in SHARE (10)

ASSUME DatasetAssumption ==
    /\ {NWorkers, NRows, MaxRows, MaxFaults} \subseteq Nat
    /\ ROWS_PER_SHARD \in Nat \ {0}
    /\ TEST_ROWS \in Nat
    /\ VALIDATION_ROWS \in Nat
    /\ SHARE \in Nat \ {0}

VARIABLES
    parts, writer, rows_in_current, kills, raised, returned,
    stage,      \* what the merge is doing
    todo,       \* the files it has still to read
    loaded,     \* the rows it has read
    data,       \* the rows in the parquet file of each split
    card,       \* the row counts in the dataset card
    begun,      \* history: the rows that were stored when the merge began
    published   \* history: what the last merge to finish has written

S == INSTANCE Shards

shards == <<parts, writer, rows_in_current, kills, raised, returned>>

merge == <<stage, todo, loaded, data, card, begun, published>>

vars == <<parts, writer, rows_in_current, kills, raised, returned,
          stage, todo, loaded, data, card, begun, published>>

Splits == {"train", "validation", "test"}

\* A file that was not written to its end.
Torn == <<0>>

TypeOK ==
    /\ S!TypeOK
    /\ stage \in {"idle", "reading", "card", "finished", "failed"} \cup Splits
    /\ todo \subseteq S!Workers \X Nat
    /\ stage = "reading" <=> todo # {}
    /\ ToSet(loaded) \subseteq S!Rows
    /\ DOMAIN data = Splits
    /\ \A s \in Splits : data[s] = Torn \/ ToSet(data[s]) \subseteq S!Rows
    /\ card \in {<<>>, Torn} \cup (Nat \X Nat \X Nat)
    /\ begun \subseteq S!Rows
    /\ DOMAIN published = Splits

----------------------------------------------------------------------------
\* Fault: the file a worker writes to is left out.
FilesBehind == UNION {{w} \X (1..(Len(parts[w]) - 1)) : w \in S!Workers}

\* The files of all workers.
Files == UNION {{w} \X (1..Len(parts[w])) : w \in S!Workers}

\* Fault: rows already seen are kept.
AddedTwice(rows, part) == rows \o [k \in DOMAIN part |-> part[k].row]

\* The rows of a file that have not been seen are added.
Added(rows, part) ==
    LET seen[k \in 0..Len(part)] ==
            IF k = 0 THEN rows
            ELSE IF part[k].row \in ToSet(seen[k - 1]) THEN seen[k - 1]
            ELSE Append(seen[k - 1], part[k].row)
    IN  seen[Len(part)]

\* The rows in the order of their hashes: the k-th is the one at which, or
\* before which, there are k.
InOrder(rows) ==
    LET Place(i) == Cardinality({j \in DOMAIN rows :
                        rows[j] < rows[i] \/ (rows[j] = rows[i] /\ j <= i)})
    IN  [k \in DOMAIN rows |-> rows[CHOOSE i \in DOMAIN rows : Place(i) = k]]

\* deterministic_split: rows in the order of their hashes, test rows first.
Split(rows) ==
    LET df     == InOrder(rows)
        n      == Len(df)
        test_n == Min({TEST_ROWS, n \div SHARE})
        val_n  == Min({VALIDATION_ROWS, (n - test_n) \div SHARE})
    IN  [test       |-> SubSeq(df, 1, test_n),
         validation |-> SubSeq(df, test_n + 1, test_n + val_n),
         train      |-> SubSeq(df, test_n + val_n + 1, n)]

Init ==
    /\ S!Init
    /\ stage = "idle"
    /\ todo = {}
    /\ loaded = <<>>
    /\ data = [s \in Splits |-> <<>>]
    /\ card = <<>>
    /\ begun = {}
    /\ published = [s \in Splits |-> <<>>]

After(files) == IF files = {} THEN "train" ELSE "reading"

\* A merge is started; it lists the files there are.
MergeBegins ==
    /\ stage \in {"idle", "finished", "failed"}
    /\ todo' = Files
    /\ stage' = After(Files)
    /\ loaded' = <<>>
    /\ begun' = S!Stored
    /\ UNCHANGED <<shards, data, card, published>>

\* The files are read in the order of their paths.
IsNext(file) ==
    \A other \in todo : file[1] < other[1] \/ (file[1] = other[1] /\ file[2] <= other[2])

\* load_all_rows reads the next file.
ReadShard ==
    /\ stage = "reading"
    /\ \E file \in todo :
        /\ IsNext(file)
        /\ S!Sound(parts[file[1]][file[2]])
        /\ loaded' = Added(loaded, parts[file[1]][file[2]])
        /\ todo' = todo \ {file}
    /\ stage' = After(todo')
    /\ UNCHANGED <<shards, data, card, begun, published>>

\* A line of the next file does not parse: the merge ends with an exception.
ReadRaises ==
    /\ stage = "reading"
    /\ \E file \in todo : IsNext(file) /\ ~S!Sound(parts[file[1]][file[2]])
    /\ todo' = {}
    /\ stage' = "failed"
    /\ UNCHANGED <<shards, loaded, data, card, begun, published>>

\* One of the three parquet files is written anew.
WriteSplit ==
    /\ stage \in Splits
    /\ data' = [data EXCEPT ![stage] = Split(loaded)[stage]]
    /\ stage' = CASE stage = "train" -> "validation"
                  [] stage = "validation" -> "test"
                  [] stage = "test" -> "card"
    /\ UNCHANGED <<shards, todo, loaded, card, begun, published>>

\* The card is written unless there is one, and the merge is done.
WriteCard ==
    /\ stage = "card"
    /\ card' = IF card = <<>>
               THEN <<Len(data["train"]), Len(data["validation"]), Len(data["test"])>>
               ELSE card
    /\ stage' = "finished"
    /\ published' = data
    /\ UNCHANGED <<shards, todo, loaded, data, begun>>

\* The merge is killed, or a write of it raises; the file it was writing is
\* then torn, if it was opened.
MergeDies ==
    /\ stage \in {"reading", "card"} \cup Splits
    /\ data' \in {data} \cup
           (IF stage \in Splits THEN {[data EXCEPT ![stage] = Torn]} ELSE {})
    /\ card' \in {card} \cup (IF stage = "card" /\ card = <<>> THEN {Torn} ELSE {})
    /\ todo' = {}
    /\ stage' = "idle"
    /\ UNCHANGED <<shards, loaded, begun, published>>

WorkersWrite ==
    /\ S!Next
    /\ UNCHANGED merge

Next ==
    \/ MergeBegins
    \/ ReadShard
    \/ ReadRaises
    \/ WriteSplit
    \/ WriteCard
    \/ MergeDies
    \/ WorkersWrite

Spec == Init /\ [][Next]_vars

----------------------------------------------------------------------------
(* Safety. *)

ShardSizes == S!ShardSizes

DamageBounded == S!DamageBounded

\* A merge that finishes, whatever the merges before it left behind and
\* whatever the workers wrote meanwhile, has every row that could be read
\* when it began.
DatasetComplete ==
    stage = "finished" => begun \subseteq UNION {ToSet(data[s]) : s \in Splits}

\* Then no row is in two splits or twice in one: nothing of the test split is
\* trained on.
RowsOnce ==
    stage = "finished" =>
        Cardinality(UNION {ToSet(data[s]) : s \in Splits})
            = Len(data["train"]) + Len(data["validation"]) + Len(data["test"])

----------------------------------------------------------------------------
(* What the repository says and the code does not do. *)

\* dedup_merge.py, line 119: the card of the dataset says how many rows each of
\* its splits has.
CardIsTrue ==
    stage = "finished" /\ card # Torn =>
        card = <<Len(data["train"]), Len(data["validation"]), Len(data["test"])>>

\* dedup_merge.py, lines 5 to 8: a merge may be run while workers are still
\* going, so it does not end with an exception because they are.
MergeWhileWriting == stage # "failed"

\* dedup_merge.py, lines 58 to 60: a row once assigned to a split is never
\* moved to another one by a later merge.
SplitIsStable ==
    [][\A s \in Splits : ToSet(published[s]) \subseteq ToSet(published'[s])]_vars

============================================================================
