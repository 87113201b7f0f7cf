----------------------------- MODULE JsonLines -----------------------------
(***************************************************************************)
(* A file of JSON rows, one per line, that writers append to in pieces.    *)
(*                                                                         *)
(* The shards of the workers and the manifest are such files.  A file is   *)
(* the sequence of the rows begun in it, each with how far it got: a       *)
(* "part" of its text, its "text" without the newline, or the whole        *)
(* "line".  What is begun after a row that did not become a line goes on   *)
(* in the same line of the file.  When another writer did that, the rest   *)
(* of the row comes later, as a piece of stage "rest": the end of a line   *)
(* that does not parse.                                                    *)
(***************************************************************************)
EXTENDS Integers, FiniteSets, Sequences

Ended(piece) == piece.stage \in {"line", "rest"}

Unfinished(part) == part # <<>> /\ ~Ended(part[Len(part)])

\* What iterating over the file counts.
Lines(part) ==
    Cardinality({k \in DOMAIN part : Ended(part[k])})
        + IF Unfinished(part) THEN 1 ELSE 0

\* The k-th row of the file is a line of its own that parses.
Parses(part, k) ==
    /\ k > 1 => Ended(part[k - 1])
    /\ part[k].stage \in (IF k = Len(part) THEN {"text", "line"} ELSE {"line"})

\* Every line parses.
Sound(part) == \A k \in DOMAIN part : Parses(part, k)

Readable(part) == {k \in DOMAIN part : Parses(part, k)}

RowsIn(part) == {part[k].row : k \in Readable(part)}

\* The rows before the first line that does not parse.
RowsUpToError(part) ==
    {part[k].row : k \in {j \in DOMAIN part : \A h \in 1..j : Parses(part, h)}}

\* The last row of the file becomes a line.
Completed(part) == [part EXCEPT ![Len(part)].stage = "line"]

============================================================================
