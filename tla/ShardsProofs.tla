---------------------------- MODULE ShardsProofs ----------------------------
(* Theorems about the shard files, for any number of workers and of rows,  *)
(* files of any size, and any number of kills and of writes that raise.    *)
EXTENDS Shards, FiniteSetTheorems, TLAPS

\* What Dataset assumes of the constants (DatasetAssumption); Shards itself does
\* not assume it, as a module that is only instantiated.
Sizes == NWorkers \in Nat /\ ROWS_PER_SHARD \in Nat \ {0} /\ MaxFaults \in Nat

----------------------------------------------------------------------------
(* Files of lines. *)

\* How many rows of a file were ended.
EndedRows(part) == Cardinality({k \in DOMAIN part : Ended(part[k])})

LEMMA Appending ==
  ASSUME NEW S, NEW q \in Seq(S), NEW x \in S
  PROVE  /\ Append(q, x) \in Seq(S)
         /\ Len(Append(q, x)) = Len(q) + 1
         /\ \A k \in 1..Len(q) : Append(q, x)[k] = q[k]
         /\ Append(q, x)[Len(q) + 1] = x
  OBVIOUS

LEMMA Replacing ==
  ASSUME NEW S, NEW q \in Seq(S), q # <<>>, NEW x \in S
  PROVE  /\ [q EXCEPT ![Len(q)] = x] \in Seq(S)
         /\ Len([q EXCEPT ![Len(q)] = x]) = Len(q)
         /\ Len(q) \in 1..Len(q)
         /\ \A k \in 1..Len(q) : k # Len(q) => [q EXCEPT ![Len(q)] = x][k] = q[k]
         /\ [q EXCEPT ![Len(q)] = x][Len(q)] = x
  OBVIOUS

LEMMA EndedIsFinite ==
  ASSUME NEW part \in Seq(Piece)
  PROVE  /\ IsFiniteSet({k \in DOMAIN part : Ended(part[k])})
         /\ EndedRows(part) \in Nat
<1>1. IsFiniteSet(1..Len(part)) /\ DOMAIN part = 1..Len(part)
  BY FS_Interval
<1>2. IsFiniteSet({k \in DOMAIN part : Ended(part[k])})
  BY <1>1, FS_Subset
<1> QED
  BY <1>2, FS_CardinalityType DEF EndedRows

LEMMA LinesAre ==
  ASSUME NEW part \in Seq(Piece)
  PROVE  /\ Lines(part) = EndedRows(part) + IF Unfinished(part) THEN 1 ELSE 0
         /\ Unfinished(part) => Lines(part) = EndedRows(part) + 1
         /\ ~Unfinished(part) => Lines(part) = EndedRows(part)
         /\ Lines(part) \in Nat
         /\ EndedRows(part) \in Nat
<1>1. Lines(part) = EndedRows(part) + IF Unfinished(part) THEN 1 ELSE 0
  BY Zenon DEF Lines, EndedRows
<1>2. EndedRows(part) \in Nat
  BY EndedIsFinite
<1>3. CASE Unfinished(part)
  BY <1>1, <1>2, <1>3
<1>4. CASE ~Unfinished(part)
  BY <1>1, <1>2, <1>4
<1> QED
  BY <1>1, <1>2, <1>3, <1>4, Zenon

LEMMA EmptyFile ==
  /\ EndedRows(<<>>) = 0 /\ ~Unfinished(<<>>) /\ <<>> \in Seq(Piece)
  /\ Lines(<<>>) = 0
<1>1. {k \in DOMAIN <<>> : Ended(<<>>[k])} = {}
  OBVIOUS
<1>2. EndedRows(<<>>) = 0 /\ ~Unfinished(<<>>) /\ <<>> \in Seq(Piece)
  BY <1>1, FS_EmptySet DEF EndedRows, Unfinished
<1>3. Lines(<<>>) = EndedRows(<<>>)
  BY <1>2, LinesAre
<1> QED
  BY <1>2, <1>3

LEMMA BeginsRow ==
  ASSUME NEW part \in Seq(Piece), NEW piece \in Piece, ~Ended(piece)
  PROVE  /\ Append(part, piece) \in Seq(Piece)
         /\ Unfinished(Append(part, piece))
         /\ EndedRows(Append(part, piece)) = EndedRows(part)
<1> DEFINE q == Append(part, piece)
           n == Len(part)
<1>1. /\ q \in Seq(Piece) /\ n \in Nat /\ Len(q) = n + 1
      /\ DOMAIN part = 1..n /\ DOMAIN q = 1..(n + 1)
      /\ \A k \in 1..n : q[k] = part[k]
      /\ q[n + 1] = piece
  OBVIOUS
<1> HIDE DEF q
<1>2. {k \in DOMAIN q : Ended(q[k])} = {k \in DOMAIN part : Ended(part[k])}
  BY <1>1
<1>3. q # <<>> /\ Unfinished(q)
  BY <1>1 DEF Unfinished
<1> QED
  BY <1>1, <1>2, <1>3 DEF EndedRows, q

LEMMA EndsRow ==
  ASSUME NEW part \in Seq(Piece), Unfinished(part)
  PROVE  /\ Completed(part) \in Seq(Piece)
         /\ Len(Completed(part)) = Len(part)
         /\ \A k \in 1..Len(part) : k # Len(part) => Completed(part)[k] = part[k]
         /\ Completed(part)[Len(part)].row = part[Len(part)].row
         /\ Completed(part)[Len(part)].stage = "line"
         /\ ~Unfinished(Completed(part))
         /\ EndedRows(Completed(part)) = EndedRows(part) + 1
<1> DEFINE n == Len(part)
           x == [part[n] EXCEPT !.stage = "line"]
           q == Completed(part)
<1>1. n \in Nat /\ n \in 1..n /\ DOMAIN part = 1..n /\ part # <<>> /\ ~Ended(part[n])
  BY DEF Unfinished
<1>2. part[n] \in Piece
  BY <1>1
<1>3. x \in Piece /\ x.row = part[n].row /\ x.stage = "line" /\ Ended(x)
  BY <1>2 DEF Piece, Ended
<1>4. q = [part EXCEPT ![n] = x]
  BY DEF Completed
<1> HIDE DEF x, q
<1>5. /\ q \in Seq(Piece) /\ Len(q) = n
      /\ \A k \in 1..n : k # n => q[k] = part[k]
      /\ q[n] = x
  BY <1>1, <1>3, <1>4, Replacing
<1>6. DOMAIN q = 1..n
  BY <1>5
<1>7. {k \in DOMAIN q : Ended(q[k])} = {k \in DOMAIN part : Ended(part[k])} \cup {n}
  BY <1>1, <1>3, <1>5, <1>6
<1>8. EndedRows(q) = EndedRows(part) + 1
  <2>1. n \notin {k \in DOMAIN part : Ended(part[k])}
    BY <1>1
  <2> QED
    BY <1>7, <2>1, EndedIsFinite, FS_AddElement DEF EndedRows
<1>9. ~Unfinished(q)
  BY <1>3, <1>5 DEF Unfinished
<1> QED
  BY <1>3, <1>5, <1>8, <1>9 DEF q

----------------------------------------------------------------------------
(* Directories of files. *)

Dirs == [Workers -> Seq(Seq(Piece))]

\* The last file of a worker is written to.
LEMMA Rewritten ==
  ASSUME parts \in Dirs, NEW w \in Workers, parts[w] # <<>>, NEW part \in Seq(Piece),
         parts' = SetCurrent(w, part)
  PROVE  /\ parts' \in Dirs /\ parts'[w] # <<>>
         /\ Len(parts'[w]) = Len(parts[w])
         /\ Current(w) \in Seq(Piece) /\ Current(w)' = part
         /\ \A f \in 1..Len(parts[w]) : f # Len(parts[w]) => parts'[w][f] = parts[w][f]
         /\ \A v \in Workers : v # w => parts'[v] = parts[v]
<1> DEFINE q == parts[w]
           r == [q EXCEPT ![Len(q)] = part]
<1>1. q \in Seq(Seq(Piece)) /\ q # <<>>
  BY DEF Dirs
<1>2. parts' = [parts EXCEPT ![w] = r]
  BY DEF SetCurrent
<1> HIDE DEF r
<1>3. /\ r \in Seq(Seq(Piece)) /\ Len(r) = Len(q) /\ Len(q) \in 1..Len(q)
      /\ \A f \in 1..Len(q) : f # Len(q) => r[f] = q[f]
      /\ r[Len(q)] = part
  BY <1>1, Replacing DEF r
<1>4. r # <<>>
  BY <1>3
<1>5. /\ parts'[w] = r /\ parts' \in Dirs
      /\ \A v \in Workers : v # w => parts'[v] = parts[v]
  BY <1>2, <1>3 DEF Dirs
<1> QED
  BY <1>1, <1>3, <1>4, <1>5 DEF Current

\* Another file of a worker is opened.
LEMMA Opened ==
  ASSUME parts \in Dirs, NEW w \in Workers, NEW part \in Seq(Piece),
         parts' = [parts EXCEPT ![w] = Append(@, part)]
  PROVE  /\ parts' \in Dirs /\ parts'[w] # <<>>
         /\ Len(parts'[w]) = Len(parts[w]) + 1
         /\ Current(w)' = part
         /\ \A f \in 1..Len(parts[w]) : parts'[w][f] = parts[w][f]
         /\ \A v \in Workers : v # w => parts'[v] = parts[v]
<1> DEFINE q == parts[w]
           r == Append(q, part)
<1>1. q \in Seq(Seq(Piece)) /\ parts' = [parts EXCEPT ![w] = r]
  BY DEF Dirs
<1> HIDE DEF r
<1>2. /\ r \in Seq(Seq(Piece)) /\ Len(r) = Len(q) + 1
      /\ \A f \in 1..Len(q) : r[f] = q[f]
      /\ r[Len(q) + 1] = part
  BY <1>1, Appending DEF r
<1>3. r # <<>>
  BY <1>1, <1>2
<1>4. /\ parts'[w] = r /\ parts' \in Dirs
      /\ \A v \in Workers : v # w => parts'[v] = parts[v]
  BY <1>1, <1>2 DEF Dirs
<1> QED
  BY <1>2, <1>3, <1>4 DEF Current

LEMMA CurrentIsFile ==
  ASSUME parts \in Dirs, NEW w \in Workers, parts[w] # <<>>
  PROVE  /\ Current(w) \in Seq(Piece) /\ Len(parts[w]) \in 1..Len(parts[w])
         /\ Current(w) = parts[w][Len(parts[w])]
<1>1. parts[w] \in Seq(Seq(Piece)) /\ parts[w] # <<>>
  BY DEF Dirs
<1>2. Len(parts[w]) \in 1..Len(parts[w]) /\ parts[w][Len(parts[w])] \in Seq(Piece)
  BY <1>1
<1> QED
  BY <1>2 DEF Current

----------------------------------------------------------------------------
(* Type correctness. *)

\* A writer that runs has a file.
TypeInv ==
    /\ TypeOK
    /\ \A w \in Workers : writer[w] # "down" => parts[w] # <<>>

LEMMA FlushedIsFile ==
  ASSUME TypeInv, NEW w \in Workers, writer[w] \in {"ready", "kept"}
  PROVE  /\ Flushed(w) \in Seq(Piece)
         /\ EndedRows(Flushed(w)) = EndedRows(Current(w))
                                      + IF writer[w] = "kept" THEN 1 ELSE 0
<1>1. Current(w) \in Seq(Piece)
  BY CurrentIsFile DEF TypeInv, TypeOK, Dirs
<1>2. EndedRows(Current(w)) \in Nat
  BY <1>1, EndedIsFinite
<1>3. CASE writer[w] = "kept"
  BY <1>1, <1>2, <1>3, EndsRow DEF Flushed, TypeInv, TypeOK
<1>4. CASE writer[w] = "ready"
  BY <1>1, <1>2, <1>4 DEF Flushed
<1> QED
  BY <1>3, <1>4

LEMMA TypeStep ==
  ASSUME Sizes, TypeInv, [Next]_vars
  PROVE  TypeInv'
<1>0. /\ parts \in Dirs
      /\ writer \in [Workers -> {"down", "ready", "writing", "kept", "broken"}]
      /\ rows_in_current \in [Workers -> Nat]
      /\ kills \in 0..MaxFaults /\ raised \in 0..MaxFaults /\ returned \subseteq Rows
      /\ \A w \in Workers : writer[w] # "down" => parts[w] # <<>>
      /\ \A w \in Workers : writer[w] \in {"writing", "kept"} =>
              Unfinished(Current(w)) /\ ~Full(w)
  BY DEF TypeInv, TypeOK, Dirs
<1>1. ASSUME NEW w \in Workers, Open(w)
      PROVE  TypeInv'
  <2> DEFINE rows == IF parts[w] = <<>> THEN 0 ELSE Lines(Current(w))
  <2>1. rows \in Nat
    BY <1>0, CurrentIsFile, LinesAre
  <2>2. /\ parts' \in Dirs /\ parts'[w] # <<>>
        /\ \A v \in Workers : v # w => parts'[v] = parts[v]
    <3>1. CASE parts[w] = <<>> \/ rows >= ROWS_PER_SHARD
      BY <1>0, <1>1, <3>1, EmptyFile, Opened DEF Open
    <3>2. CASE ~(parts[w] = <<>> \/ rows >= ROWS_PER_SHARD)
      BY <1>0, <1>1, <3>2 DEF Open
    <3> QED
      BY <3>1, <3>2
  <2>3. \A v \in Workers : v # w =>
          writer'[v] = writer[v] /\ rows_in_current'[v] = rows_in_current[v]
    BY <1>0, <1>1 DEF Open
  <2>4. /\ writer' \in [Workers -> {"down", "ready", "writing", "kept", "broken"}]
        /\ rows_in_current' \in [Workers -> Nat]
        /\ writer'[w] = "ready"
        /\ UNCHANGED <<kills, raised, returned>>
    BY <1>0, <1>1, <2>1 DEF Open
  <2> HIDE DEF rows
  <2> QED
    BY <1>0, <2>2, <2>3, <2>4 DEF TypeInv, TypeOK, Dirs, Current, Full
<1>2. ASSUME NEW w \in Workers, NEW row \in Rows, Begin(w, row)
      PROVE  TypeInv'
  <2>1. PICK stage \in {"part", "text"} :
          parts' = IF Full(w)
                   THEN [parts EXCEPT ![w] = Append(@, <<[row |-> row, stage |-> stage]>>)]
                   ELSE SetCurrent(w, Append(Flushed(w), [row |-> row, stage |-> stage]))
    BY <1>2 DEF Begin
  <2> DEFINE piece == [row |-> row, stage |-> stage]
  <2>2. piece \in Piece /\ ~Ended(piece)
    BY DEF Piece, Ended
  <2>3. /\ parts' \in Dirs /\ parts'[w] # <<>> /\ Unfinished(Current(w)')
        /\ \A v \in Workers : v # w => parts'[v] = parts[v]
    <3>1. CASE Full(w)
      <4>1. <<piece>> \in Seq(Piece) /\ Unfinished(<<piece>>)
        BY <2>2 DEF Unfinished
      <4> QED
        BY <1>0, <2>1, <3>1, <4>1, Opened
    <3>2. CASE ~Full(w)
      <4>1. Flushed(w) \in Seq(Piece)
        BY <1>2, FlushedIsFile DEF Begin
      <4> DEFINE part == Append(Flushed(w), piece)
      <4>2. part \in Seq(Piece) /\ Unfinished(part)
        BY <2>2, <4>1, BeginsRow
      <4>3. parts' = SetCurrent(w, part) /\ parts[w] # <<>>
        BY <1>0, <1>2, <2>1, <3>2 DEF Begin
      <4> HIDE DEF part
      <4> QED
        BY <1>0, <4>2, <4>3, Rewritten
    <3> QED
      BY <3>1, <3>2
  <2>4. \A v \in Workers : v # w =>
          writer'[v] = writer[v] /\ rows_in_current'[v] = rows_in_current[v]
    BY <1>0, <1>2 DEF Begin
  <2>5. /\ writer' \in [Workers -> {"down", "ready", "writing", "kept", "broken"}]
        /\ rows_in_current' \in [Workers -> Nat]
        /\ writer'[w] = "writing"
        /\ UNCHANGED <<kills, raised, returned>>
    BY <1>0, <1>2 DEF Begin
  <2>6. ~Full(w)'
    <3>1. CASE Full(w)
      BY <1>0, <1>2, <3>1 DEF Begin, Full, Sizes
    <3>2. CASE ~Full(w)
      BY <1>0, <1>2, <3>2 DEF Begin, Full
    <3> QED
      BY <3>1, <3>2
  <2> QED
    BY <1>0, <2>3, <2>4, <2>5, <2>6 DEF TypeInv, TypeOK, Dirs, Current, Full

<1>3. ASSUME NEW w \in Workers, Finish(w)
      PROVE  TypeInv'
  <2>1. /\ parts[w] # <<>> /\ Unfinished(Current(w)) /\ Current(w) \in Seq(Piece)
    BY <1>0, <1>3, CurrentIsFile DEF Finish
  <2> DEFINE part == Completed(Current(w))
  <2>2. part \in Seq(Piece)
    BY <2>1, EndsRow
  <2>3. parts' = SetCurrent(w, part)
    BY <1>3 DEF Finish
  <2> HIDE DEF part
  <2>4. /\ parts' \in Dirs /\ parts'[w] # <<>>
        /\ \A v \in Workers : v # w => parts'[v] = parts[v]
    BY <1>0, <2>1, <2>2, <2>3, Rewritten
  <2>5. Current(w)[Len(Current(w))].row \in Rows
    <3> DEFINE file == Current(w)
    <3>1. file \in Seq(Piece) /\ file # <<>>
      BY <2>1 DEF Unfinished
    <3> HIDE DEF file
    <3>2. file[Len(file)] \in Piece
      BY <3>1
    <3> QED
      BY <3>2 DEF Piece, file
  <2>6. /\ writer' \in [Workers -> {"down", "ready", "writing", "kept", "broken"}]
        /\ rows_in_current' \in [Workers -> Nat]
        /\ writer'[w] = "ready" /\ returned' \subseteq Rows
        /\ UNCHANGED <<kills, raised>>
    BY <1>0, <1>3, <2>5 DEF Finish
  <2>7. \A v \in Workers : v # w =>
          writer'[v] = writer[v] /\ rows_in_current'[v] = rows_in_current[v]
    BY <1>0, <1>3 DEF Finish
  <2> QED
    BY <1>0, <2>4, <2>6, <2>7 DEF TypeInv, TypeOK, Dirs, Current, Full
<1>4. ASSUME NEW w \in Workers, WriteRaises(w)
      PROVE  TypeInv'
  BY <1>0, <1>4 DEF WriteRaises, Raises, Sizes, TypeInv, TypeOK, Dirs, Current, Full
<1>5. ASSUME NEW w \in Workers, OpenNextRaises(w)
      PROVE  TypeInv'
  BY <1>0, <1>5 DEF OpenNextRaises, Raises, Sizes, TypeInv, TypeOK, Dirs, Current, Full
<1>6. ASSUME NEW w \in Workers, Kill(w)
      PROVE  TypeInv'
  BY <1>0, <1>6 DEF Kill, Sizes, TypeInv, TypeOK, Dirs, Current, Full
<1>7. CASE UNCHANGED vars
  BY <1>0, <1>7 DEF vars, TypeInv, TypeOK, Dirs, Current, Full
<1> QED
  BY <1>1, <1>2, <1>3, <1>4, <1>5, <1>6, <1>7 DEF Next

\* TypeOK: what the writers keep has the shape the code gives it, and a row is
\* only ever under way in a file that is not full (ShardWriter.write).
THEOREM TypeCorrect == ASSUME Sizes PROVE Spec => []TypeOK
<1>1. Init => TypeInv
  BY DEF Init, Sizes, TypeInv, TypeOK, Dirs
<1>2. TypeInv /\ [Next]_vars => TypeInv'
  BY TypeStep
<1>3. TypeInv => TypeOK
  BY DEF TypeInv
<1> QED
  BY <1>1, <1>2, <1>3, PTL DEF Spec

----------------------------------------------------------------------------
(* Rows stay where they are. *)

\* The rows begun in a file, whether they can be read back or not.
RowsOf(part) == {part[k].row : k \in 1..Len(part)}

\* No file of w goes away or loses a row.
KeepsRows(w) ==
    \A f \in 1..Len(parts[w]) :
        f \in 1..Len(parts'[w]) /\ RowsOf(parts[w][f]) \subseteq RowsOf(parts'[w][f])

LEMMA BegunStay ==
  ASSUME NEW part \in Seq(Piece), NEW piece \in Piece
  PROVE  RowsOf(part) \subseteq RowsOf(Append(part, piece))
<1> DEFINE q == Append(part, piece)
<1>1. /\ \A k \in 1..Len(part) : q[k] = part[k] /\ k \in 1..Len(q)
  OBVIOUS
<1> HIDE DEF q
<1>2. RowsOf(part) \subseteq RowsOf(q)
  BY <1>1 DEF RowsOf
<1> QED
  BY <1>2 DEF q

LEMMA CompletedStay ==
  ASSUME NEW part \in Seq(Piece), Unfinished(part)
  PROVE  RowsOf(part) \subseteq RowsOf(Completed(part))
<1>1. /\ Len(Completed(part)) = Len(part)
      /\ \A k \in 1..Len(part) : Completed(part)[k].row = part[k].row
  BY EndsRow
<1> QED
  BY <1>1 DEF RowsOf

LEMMA RewrittenKeeps ==
  ASSUME parts \in Dirs, NEW w \in Workers, parts[w] # <<>>, NEW part \in Seq(Piece),
         parts' = SetCurrent(w, part), RowsOf(Current(w)) \subseteq RowsOf(part)
  PROVE  \A v \in Workers : KeepsRows(v)
<1>1. /\ Len(parts'[w]) = Len(parts[w])
      /\ parts'[w][Len(parts[w])] = part
      /\ \A f \in 1..Len(parts[w]) : f # Len(parts[w]) => parts'[w][f] = parts[w][f]
      /\ \A v \in Workers : v # w => parts'[v] = parts[v]
  BY Rewritten DEF Current
<1> QED
  BY <1>1 DEF KeepsRows, Current

LEMMA OpenedKeeps ==
  ASSUME parts \in Dirs, NEW w \in Workers, NEW part \in Seq(Piece),
         parts' = [parts EXCEPT ![w] = Append(@, part)]
  PROVE  \A v \in Workers : KeepsRows(v)
<1>1. /\ Len(parts'[w]) = Len(parts[w]) + 1
      /\ \A f \in 1..Len(parts[w]) : parts'[w][f] = parts[w][f]
      /\ \A v \in Workers : v # w => parts'[v] = parts[v]
  BY Opened
<1>2. \A f \in 1..Len(parts[w]) : f \in 1..(Len(parts[w]) + 1)
  BY DEF Dirs
<1> QED
  BY <1>1, <1>2 DEF KeepsRows

\* Whatever a worker does, and whatever is done to it, what was begun in a
\* file stays there.
LEMMA RowsStay ==
  ASSUME Sizes, TypeInv, [Next]_vars
  PROVE  \A w \in Workers : KeepsRows(w)
<1>0. /\ parts \in Dirs
      /\ \A w \in Workers : writer[w] # "down" => parts[w] # <<>>
      /\ \A w \in Workers : writer[w] \in {"writing", "kept"} => Unfinished(Current(w))
  BY DEF TypeInv, TypeOK, Dirs
<1>1. CASE UNCHANGED parts
  BY <1>1 DEF KeepsRows
<1>2. ASSUME NEW w \in Workers, Open(w)
      PROVE  \A v \in Workers : KeepsRows(v)
  <2>1. \/ parts' = [parts EXCEPT ![w] = Append(@, <<>>)]
        \/ parts' = parts
    BY <1>2 DEF Open
  <2> QED
    BY <1>0, <1>1, <2>1, EmptyFile, OpenedKeeps
<1>3. ASSUME NEW w \in Workers, NEW row \in Rows, Begin(w, row)
      PROVE  \A v \in Workers : KeepsRows(v)
  <2>1. PICK stage \in {"part", "text"} :
          parts' = IF Full(w)
                   THEN [parts EXCEPT ![w] = Append(@, <<[row |-> row, stage |-> stage]>>)]
                   ELSE SetCurrent(w, Append(Flushed(w), [row |-> row, stage |-> stage]))
    BY <1>3 DEF Begin
  <2> DEFINE piece == [row |-> row, stage |-> stage]
  <2>2. piece \in Piece
    BY DEF Piece
  <2>3. CASE Full(w)
    <3>1. <<piece>> \in Seq(Piece)
      BY <2>2
    <3> QED
      BY <1>0, <2>1, <2>3, <3>1, OpenedKeeps
  <2>4. CASE ~Full(w)
    <3>1. writer[w] \in {"ready", "kept"} /\ parts[w] # <<>>
      BY <1>0, <1>3 DEF Begin
    <3>2. Flushed(w) \in Seq(Piece) /\ Current(w) \in Seq(Piece)
      BY <1>0, <3>1, FlushedIsFile, CurrentIsFile
    <3>3. RowsOf(Current(w)) \subseteq RowsOf(Flushed(w))
      BY <1>0, <3>1, <3>2, CompletedStay DEF Flushed
    <3> DEFINE part == Append(Flushed(w), piece)
    <3>4. part \in Seq(Piece) /\ RowsOf(Flushed(w)) \subseteq RowsOf(part)
      BY <2>2, <3>2, BegunStay
    <3>5. parts' = SetCurrent(w, part)
      BY <2>1, <2>4
    <3> HIDE DEF part
    <3> QED
      BY <1>0, <3>1, <3>3, <3>4, <3>5, RewrittenKeeps
  <2> QED
    BY <2>3, <2>4
<1>4. ASSUME NEW w \in Workers, Finish(w)
      PROVE  \A v \in Workers : KeepsRows(v)
  <2>1. /\ parts' = SetCurrent(w, Completed(Current(w)))
        /\ writer[w] = "writing" /\ parts[w] # <<>> /\ Unfinished(Current(w))
    BY <1>0, <1>4 DEF Finish
  <2>2. Current(w) \in Seq(Piece)
    BY <1>0, <2>1, CurrentIsFile
  <2>3. /\ Completed(Current(w)) \in Seq(Piece)
        /\ RowsOf(Current(w)) \subseteq RowsOf(Completed(Current(w)))
    BY <2>1, <2>2, EndsRow, CompletedStay
  <2> QED
    BY <1>0, <2>1, <2>3, RewrittenKeeps
<1>5. ASSUME NEW w \in Workers, WriteRaises(w) \/ OpenNextRaises(w) \/ Kill(w)
      PROVE  UNCHANGED parts
  BY <1>5 DEF WriteRaises, OpenNextRaises, Kill
<1>6. CASE UNCHANGED vars
  BY <1>1, <1>6 DEF vars
<1> QED
  BY <1>1, <1>2, <1>3, <1>4, <1>5, <1>6 DEF Next

\* "A restarted worker doesn't clobber its own earlier output" (ShardWriter):
\* no step, a restart after a kill least of all, takes a file or a row begun
\* in it away.
THEOREM RowsAlwaysStay ==
  ASSUME Sizes
  PROVE  Spec => [][\A w \in Workers : KeepsRows(w)]_vars
<1>1. Init => TypeInv
  BY DEF Init, Sizes, TypeInv, TypeOK, Dirs
<1>2. TypeInv /\ [Next]_vars => TypeInv'
  BY TypeStep
<1>3. TypeInv /\ [Next]_vars => [\A w \in Workers : KeepsRows(w)]_vars
  BY RowsStay
<1> QED
  BY <1>1, <1>2, <1>3, PTL DEF Spec

----------------------------------------------------------------------------
(* The sizes of the files. *)

\* The bounds of a file after k kills and r writes that raised.
Bounded(lines, r) == lines <= ROWS_PER_SHARD + r

Left(lines, k, r) == lines = 0 \/ ROWS_PER_SHARD <= lines + k + r

FileSizes(w) ==
    \A f \in 1..Len(parts[w]) :
        /\ Bounded(Lines(parts[w][f]), raised)
        /\ f # Len(parts[w]) => Left(Lines(parts[w][f]), kills, raised)

\* The count of a writer that runs is off by at most one for each fault.  (The
\* writer that found its last file full has an empty one, see Open.)
Counted(w) ==
    LET ended == EndedRows(Current(w)) IN
    /\ ended <= rows_in_current[w] + raised
    /\ writer[w] # "writing" => Lines(Current(w)) <= rows_in_current[w] + raised
    /\ (writer[w] # "ready" \/ Current(w) # <<>> \/ ~Full(w)) =>
          rows_in_current[w] <= ended + kills + raised

WorkerSizes(w) ==
    /\ FileSizes(w)
    /\ writer[w] = "down" => parts[w] = <<>> \/ kills >= 1
    /\ writer[w] \in {"ready", "writing", "kept"} => Counted(w)

SizeInv == \A w \in Workers : WorkerSizes(w)

\* Faults are only ever added.
Later ==
    /\ kills \in Nat /\ raised \in Nat /\ kills' \in Nat /\ raised' \in Nat
    /\ kills <= kills' /\ raised <= raised'

LEMMA FaultsGrow == ASSUME Sizes, TypeInv, [Next]_vars PROVE Later
<1>1. TypeInv'
  BY TypeStep
<1>2. kills \in Nat /\ raised \in Nat /\ kills' \in Nat /\ raised' \in Nat
  BY <1>1 DEF TypeInv, TypeOK, Sizes
<1>3. \/ UNCHANGED kills \/ kills' = kills + 1
  <2>1. CASE UNCHANGED vars
    BY <2>1 DEF vars
  <2>2. CASE Next
    BY <2>2 DEF Next, Open, Begin, Finish, WriteRaises, OpenNextRaises, Kill
  <2> QED
    BY <2>1, <2>2
<1>4. \/ UNCHANGED raised \/ raised' = raised + 1
  <2>1. CASE UNCHANGED vars
    BY <2>1 DEF vars
  <2>2. CASE Next
    BY <2>2 DEF Next, Open, Begin, Finish, WriteRaises, OpenNextRaises, Raises, Kill
  <2> QED
    BY <2>1, <2>2
<1> QED
  BY <1>2, <1>3, <1>4 DEF Later

LEMMA Looser ==
  ASSUME NEW e \in Nat, NEW l \in Nat, NEW k \in Nat, NEW r \in Nat,
         NEW kk \in Nat, NEW rr \in Nat, k <= kk, r <= rr
  PROVE  /\ e <= l + r => e <= l + rr
         /\ e <= l + k + r => e <= l + kk + rr
  OBVIOUS

LEMMA LinesOfFiles ==
  ASSUME NEW q \in Seq(Seq(Piece))
  PROVE  /\ DOMAIN q = 1..Len(q) /\ Len(q) \in Nat
         /\ \A f \in DOMAIN q : q[f] \in Seq(Piece) /\ Lines(q[f]) \in Nat
<1>1. DOMAIN q = 1..Len(q) /\ Len(q) \in Nat /\ \A f \in DOMAIN q : q[f] \in Seq(Piece)
  OBVIOUS
<1> QED
  BY <1>1, LinesAre

\* More faults allow for more.
LEMMA FileStays ==
  ASSUME Sizes, Later, NEW lines \in Nat
  PROVE  /\ Bounded(lines, raised) => Bounded(lines, raised')
         /\ Left(lines, kills, raised) => Left(lines, kills', raised')
<1>1. kills <= kills' /\ raised <= raised'
  BY DEF Later
<1>2. kills \in Nat /\ raised \in Nat /\ kills' \in Nat /\ raised' \in Nat
  BY DEF Later
<1>3. ROWS_PER_SHARD \in Nat
  BY DEF Sizes
<1> QED
  BY <1>1, <1>2, <1>3, Looser DEF Bounded, Left

LEMMA FilesKept ==
  ASSUME Sizes, parts \in Dirs, NEW w \in Workers, FileSizes(w), Later,
         parts'[w] = parts[w]
  PROVE  FileSizes(w)'
<1>1. parts[w] \in Seq(Seq(Piece))
  BY DEF Dirs
<1>2. \A f \in 1..Len(parts[w]) : Lines(parts[w][f]) \in Nat
  BY <1>1, LinesOfFiles
<1> QED
  BY <1>2, FileStays DEF FileSizes

LEMMA FilesRewritten ==
  ASSUME Sizes, parts \in Dirs, NEW w \in Workers, FileSizes(w), Later,
         parts[w] # <<>>, NEW part \in Seq(Piece), parts' = SetCurrent(w, part),
         Bounded(Lines(part), raised')
  PROVE  FileSizes(w)'
<1>1. /\ Len(parts'[w]) = Len(parts[w]) /\ parts'[w][Len(parts'[w])] = part
      /\ \A f \in 1..Len(parts[w]) : f # Len(parts[w]) => parts'[w][f] = parts[w][f]
  BY Rewritten DEF Current
<1>2. parts[w] \in Seq(Seq(Piece))
  BY DEF Dirs
<1>3. \A f \in 1..Len(parts[w]) : Lines(parts[w][f]) \in Nat
  BY <1>2, LinesOfFiles
<1> QED
  BY <1>1, <1>3, FileStays DEF FileSizes

LEMMA FilesOpened ==
  ASSUME Sizes, parts \in Dirs, NEW w \in Workers, FileSizes(w), Later,
         NEW part \in Seq(Piece), parts' = [parts EXCEPT ![w] = Append(@, part)],
         Bounded(Lines(part), raised'),
         parts[w] # <<>> => Left(Lines(Current(w)), kills, raised)
  PROVE  FileSizes(w)'
<1>1. /\ Len(parts'[w]) = Len(parts[w]) + 1 /\ parts'[w][Len(parts'[w])] = part
      /\ \A f \in 1..Len(parts[w]) : parts'[w][f] = parts[w][f]
  BY Opened DEF Current
<1>2. parts[w] \in Seq(Seq(Piece))
  BY DEF Dirs
<1>3. /\ \A f \in 1..Len(parts[w]) : Lines(parts[w][f]) \in Nat
      /\ Len(parts[w]) \in Nat
  BY <1>2, LinesOfFiles
<1>4. \A f \in 1..Len(parts[w]) : Left(Lines(parts[w][f]), kills, raised)
  <2>1. ASSUME NEW f \in 1..Len(parts[w]), f = Len(parts[w])
        PROVE  Left(Lines(parts[w][f]), kills, raised)
    <3>1. parts[w] # <<>>
      BY <1>2, <2>1
    <3> QED
      BY <2>1, <3>1 DEF Current
  <2> QED
    BY <2>1 DEF FileSizes
<1>5. ASSUME NEW f \in 1..Len(parts'[w])
      PROVE  /\ Bounded(Lines(parts'[w][f]), raised')
             /\ f # Len(parts'[w]) => Left(Lines(parts'[w][f]), kills', raised')
  <2>1. CASE f = Len(parts'[w])
    BY <1>1, <2>1
  <2>2. CASE f # Len(parts'[w])
    <3>1. f \in 1..Len(parts[w]) /\ parts'[w][f] = parts[w][f]
      BY <1>1, <1>3, <2>2
    <3> QED
      BY <1>3, <1>4, <3>1, FileStays DEF FileSizes
  <2> QED
    BY <2>1, <2>2
<1> QED
  BY <1>5 DEF FileSizes

\* The other workers are not concerned by a step of one of them.
LEMMA SizesKept ==
  ASSUME Sizes, parts \in Dirs, rows_in_current \in [Workers -> Nat],
         NEW w \in Workers, WorkerSizes(w), Later,
         writer[w] # "down" => parts[w] # <<>>,
         parts'[w] = parts[w], writer'[w] = writer[w],
         rows_in_current'[w] = rows_in_current[w]
  PROVE  WorkerSizes(w)'
<1>1. FileSizes(w)'
  BY FilesKept DEF WorkerSizes
<1>2. writer'[w] = "down" => parts'[w] = <<>> \/ kills' >= 1
  BY DEF WorkerSizes, Later
<1>3. ASSUME writer[w] \in {"ready", "writing", "kept"}
      PROVE  Counted(w)'
  <2> DEFINE part == Current(w)
             ended == EndedRows(part)
             lines == Lines(part)
             r == rows_in_current[w]
  <2>1. part \in Seq(Piece)
    BY <1>3, CurrentIsFile
  <2>2. ended \in Nat /\ lines \in Nat /\ r \in Nat
    BY <2>1, LinesAre
  <2>3. Counted(w)
    BY <1>3 DEF WorkerSizes
  <2>4. Current(w)' = Current(w) /\ Full(w)' = Full(w)
    BY DEF Current, Full
  <2>5. /\ ended <= r + raised
        /\ writer[w] # "writing" => lines <= r + raised
        /\ (writer[w] # "ready" \/ part # <<>> \/ ~Full(w)) => r <= ended + kills + raised
    BY <2>3 DEF Counted
  <2> HIDE DEF part, ended, lines, r
  <2>6. /\ kills <= kills' /\ raised <= raised'
        /\ kills \in Nat /\ raised \in Nat /\ kills' \in Nat /\ raised' \in Nat
    BY DEF Later
  <2>7. /\ ended <= r + raised => ended <= r + raised'
        /\ lines <= r + raised => lines <= r + raised'
        /\ r <= ended + kills + raised => r <= ended + kills' + raised'
    BY <2>2, <2>6, Looser
  <2> QED
    BY <2>4, <2>5, <2>7 DEF Counted, part, ended, lines, r
<1> QED
  BY <1>1, <1>2, <1>3 DEF WorkerSizes

LEMMA OpenSizes ==
  ASSUME Sizes, TypeInv, Later, NEW w \in Workers, WorkerSizes(w), Open(w)
  PROVE  WorkerSizes(w)'
<1> DEFINE file == Current(w)
           rows == IF parts[w] = <<>> THEN 0 ELSE Lines(file)
<1>1. /\ parts \in Dirs /\ FileSizes(w) /\ (parts[w] = <<>> \/ kills >= 1)
      /\ writer'[w] = "ready" /\ rows_in_current'[w] = rows
      /\ kills' = kills /\ raised' = raised /\ kills \in Nat /\ raised \in Nat
      /\ ROWS_PER_SHARD \in Nat \ {0}
  BY DEF Open, WorkerSizes, TypeInv, TypeOK, Dirs, Later, Sizes
<1>2. parts[w] # <<>> => /\ file \in Seq(Piece)
                         /\ Lines(file) \in Nat /\ EndedRows(file) \in Nat
                         /\ EndedRows(file) <= Lines(file)
                         /\ Lines(file) <= EndedRows(file) + 1
  <2>1. ASSUME parts[w] # <<>>
        PROVE  file \in Seq(Piece)
    BY <1>1, <2>1, CurrentIsFile
  <2> HIDE DEF file
  <2> QED
    BY <2>1, LinesAre
<1>3. CASE parts[w] = <<>> \/ rows >= ROWS_PER_SHARD
  <2>1. parts' = [parts EXCEPT ![w] = Append(@, <<>>)]
    BY <1>3 DEF Open
  <2>2. Current(w)' = <<>>
    BY <1>1, <2>1, EmptyFile, Opened
  <2>3. EndedRows(<<>>) = 0 /\ Lines(<<>>) = 0 /\ <<>> \in Seq(Piece)
    BY EmptyFile
  <2>4. parts[w] # <<>> => Left(Lines(file), kills, raised)
    BY <1>1, <1>2, <1>3 DEF Left
  <2>5. Bounded(0, raised')
    BY <1>1 DEF Bounded
  <2>6. FileSizes(w)'
    BY <1>1, <2>1, <2>3, <2>4, <2>5, FilesOpened
  <2>7. rows \in Nat /\ (parts[w] = <<>> => rows = 0)
    BY <1>2
  <2> HIDE DEF rows
  <2>8. 0 <= rows + raised
    BY <1>1, <2>7
  <2>9. ~(rows >= ROWS_PER_SHARD) => rows <= 0 + kills + raised
    BY <1>1, <1>3, <2>7
  <2>10. Counted(w)'
    BY <1>1, <2>2, <2>3, <2>8, <2>9 DEF Counted, Full
  <2> QED
    BY <1>1, <2>6, <2>10 DEF WorkerSizes
<1>4. CASE ~(parts[w] = <<>> \/ rows >= ROWS_PER_SHARD)
  <2>1. parts' = parts
    BY <1>4 DEF Open
  <2>2. FileSizes(w)'
    BY <1>1, <2>1, FilesKept
  <2>3. Current(w)' = file /\ rows = Lines(file) /\ parts[w] # <<>>
    BY <1>4, <2>1 DEF Current
  <2> HIDE DEF file, rows
  <2> DEFINE e == EndedRows(file)
             l == Lines(file)
  <2>4. e \in Nat /\ l \in Nat /\ e <= l /\ l <= e + 1 /\ 1 <= kills
    BY <1>1, <1>2, <2>3
  <2> HIDE DEF e, l
  <2>5. e <= l + raised /\ l <= l + raised /\ l <= e + kills + raised
    BY <1>1, <2>4
  <2>6. Counted(w)'
    BY <1>1, <2>3, <2>5 DEF Counted, e, l
  <2> QED
    BY <1>1, <2>2, <2>6 DEF WorkerSizes
<1> QED
  BY <1>3, <1>4

LEMMA BeginSizes ==
  ASSUME Sizes, TypeInv, Later, NEW w \in Workers, WorkerSizes(w),
         NEW row \in Rows, Begin(w, row)
  PROVE  WorkerSizes(w)'
<1> DEFINE file == Current(w)
           e == EndedRows(file)
           l == Lines(file)
           r == rows_in_current[w]
<1>1. /\ parts \in Dirs /\ parts[w] # <<>> /\ FileSizes(w) /\ Counted(w)
      /\ writer[w] \in {"ready", "kept"} /\ writer'[w] = "writing"
      /\ writer[w] = "kept" => Unfinished(file) /\ ~Full(w)
      /\ rows_in_current'[w] = IF Full(w) THEN 0 ELSE r
      /\ kills' = kills /\ raised' = raised /\ kills \in Nat /\ raised \in Nat
      /\ ROWS_PER_SHARD \in Nat \ {0} /\ r \in Nat
  BY DEF Begin, WorkerSizes, TypeInv, TypeOK, Dirs, Later, Sizes
<1>2. PICK stage \in {"part", "text"} :
        parts' = IF Full(w)
                 THEN [parts EXCEPT ![w] = Append(@, <<[row |-> row, stage |-> stage]>>)]
                 ELSE SetCurrent(w, Append(Flushed(w), [row |-> row, stage |-> stage]))
  BY DEF Begin
<1> DEFINE piece == [row |-> row, stage |-> stage]
<1>3. piece \in Piece /\ ~Ended(piece)
  BY DEF Piece, Ended
<1> HIDE DEF piece
<1>4. file \in Seq(Piece)
  BY <1>1, CurrentIsFile
<1> HIDE DEF file
<1>5. /\ e \in Nat /\ l \in Nat /\ l = e + IF Unfinished(file) THEN 1 ELSE 0
      /\ e <= l
  <2>1. e \in Nat /\ l \in Nat /\ l = e + IF Unfinished(file) THEN 1 ELSE 0
    BY <1>4, LinesAre
  <2> QED
    BY <2>1
<1>6. /\ e <= r + raised
      /\ l <= r + raised
      /\ (writer[w] # "ready" \/ file # <<>> \/ ~Full(w)) => r <= e + kills + raised
  BY <1>1 DEF Counted, file
<1>7. CASE Full(w)
  <2>1. parts' = [parts EXCEPT ![w] = Append(@, <<piece>>)]
    BY <1>2, <1>7 DEF piece
  <2>2. /\ <<piece>> \in Seq(Piece) /\ EndedRows(<<piece>>) = 0 /\ Unfinished(<<piece>>)
    <3>1. <<piece>> = Append(<<>>, piece)
      OBVIOUS
    <3> QED
      BY <1>3, <3>1, EmptyFile, BeginsRow
  <2>3. Lines(<<piece>>) = 1
    <3>1. Lines(<<piece>>) = EndedRows(<<piece>>) + 1
      BY <2>2, LinesAre
    <3> QED
      BY <2>2, <3>1
  <2>4. Current(w)' = <<piece>>
    BY <1>1, <2>1, <2>2, Opened
  <2>5. Left(l, kills, raised)
    <3>1. CASE file = <<>>
      BY <3>1, EmptyFile DEF Left
    <3>2. CASE file # <<>>
      <4>1. r <= e + kills + raised /\ ROWS_PER_SHARD <= r
        BY <1>1, <1>6, <1>7, <3>2 DEF Full
      <4> HIDE DEF e, l, r
      <4>2. ROWS_PER_SHARD <= l + kills + raised
        BY <1>1, <1>5, <4>1
      <4> QED
        BY <4>2 DEF Left
    <3> QED
      BY <3>1, <3>2
  <2>6. Bounded(1, raised')
    BY <1>1 DEF Bounded
  <2>7. FileSizes(w)'
    BY <1>1, <2>1, <2>2, <2>3, <2>5, <2>6, FilesOpened DEF file
  <2>8. rows_in_current'[w] = 0 /\ 0 <= 0 + raised /\ 0 <= 0 + kills + raised
    BY <1>1, <1>7
  <2>9. Counted(w)'
    BY <1>1, <2>2, <2>4, <2>8 DEF Counted
  <2> QED
    BY <1>1, <2>7, <2>9 DEF WorkerSizes
<1>8. CASE ~Full(w)
  <2> DEFINE part == Append(Flushed(w), piece)
             ee == EndedRows(part)
  <2>1. parts' = SetCurrent(w, part)
    BY <1>2, <1>8 DEF piece
  <2>2. /\ Flushed(w) \in Seq(Piece)
        /\ EndedRows(Flushed(w)) = e + IF writer[w] = "kept" THEN 1 ELSE 0
    BY <1>1, FlushedIsFile DEF file
  <2>3. part \in Seq(Piece) /\ Unfinished(part) /\ ee = EndedRows(Flushed(w))
    BY <1>3, <2>2, BeginsRow
  <2> HIDE DEF part
  <2>4. ee \in Nat /\ Lines(part) = ee + 1
    BY <2>3, LinesAre
  <2> HIDE DEF ee
  <2>5. ee <= l /\ e <= ee
    <3>1. CASE writer[w] = "kept"
      BY <1>1, <1>5, <2>2, <2>3, <3>1
    <3>2. CASE writer[w] # "kept"
      BY <1>5, <2>2, <2>3, <3>2
    <3> QED
      BY <3>1, <3>2
  <2>6. r < ROWS_PER_SHARD /\ r <= e + kills + raised
    BY <1>1, <1>6, <1>8 DEF Full
  <2> HIDE DEF e, l, r
  <2>7. ee <= r + raised /\ r <= ee + kills + raised /\ ee + 1 <= ROWS_PER_SHARD + raised
    BY <1>1, <1>5, <1>6, <2>4, <2>5, <2>6
  <2>8. FileSizes(w)'
    <3>1. Bounded(Lines(part), raised')
      BY <1>1, <2>4, <2>7 DEF Bounded
    <3> QED
      BY <1>1, <2>1, <2>3, <3>1, FilesRewritten
  <2>9. Current(w)' = part
    BY <1>1, <2>1, <2>3, Rewritten
  <2>10. Counted(w)'
    BY <1>1, <1>8, <2>7, <2>9 DEF Counted, ee, r
  <2> QED
    BY <1>1, <2>8, <2>10 DEF WorkerSizes
<1> QED
  BY <1>7, <1>8

LEMMA FinishSizes ==
  ASSUME Sizes, TypeInv, Later, NEW w \in Workers, WorkerSizes(w), Finish(w)
  PROVE  WorkerSizes(w)'
<1> DEFINE file == Current(w)
           part == Completed(file)
           e == EndedRows(file)
           r == rows_in_current[w]
<1>1. /\ parts \in Dirs /\ parts[w] # <<>> /\ FileSizes(w) /\ Counted(w)
      /\ Unfinished(file) /\ ~Full(w)
      /\ writer[w] = "writing" /\ writer'[w] = "ready"
      /\ parts' = SetCurrent(w, part)
      /\ rows_in_current'[w] = r + 1
      /\ kills' = kills /\ raised' = raised /\ kills \in Nat /\ raised \in Nat
      /\ ROWS_PER_SHARD \in Nat /\ r \in Nat
  BY DEF Finish, WorkerSizes, TypeInv, TypeOK, Dirs, Later, Sizes
<1>2. file \in Seq(Piece)
  BY <1>1, CurrentIsFile
<1>3. e <= r + raised /\ r <= e + kills + raised /\ r < ROWS_PER_SHARD
  BY <1>1 DEF Counted, Full
<1> HIDE DEF file
<1>4. e \in Nat /\ part \in Seq(Piece) /\ EndedRows(part) = e + 1 /\ ~Unfinished(part)
  BY <1>1, <1>2, LinesAre, EndsRow
<1> HIDE DEF part
<1>5. Lines(part) = e + 1
  <2>1. Lines(part) = EndedRows(part)
    BY <1>4, LinesAre
  <2> QED
    BY <1>4, <2>1
<1> HIDE DEF e, r
<1>6. /\ e + 1 <= (r + 1) + raised
      /\ r + 1 <= (e + 1) + kills + raised
      /\ e + 1 <= ROWS_PER_SHARD + raised
  BY <1>1, <1>3, <1>4
<1>7. FileSizes(w)'
  <2>1. Bounded(Lines(part), raised')
    BY <1>1, <1>5, <1>6 DEF Bounded
  <2> QED
    BY <1>1, <1>4, <2>1, FilesRewritten
<1>8. Current(w)' = part
  BY <1>1, <1>4, Rewritten
<1>9. Counted(w)'
  BY <1>1, <1>4, <1>5, <1>6, <1>8 DEF Counted
<1> QED
  BY <1>1, <1>7, <1>9 DEF WorkerSizes

LEMMA WriteRaisesSizes ==
  ASSUME Sizes, TypeInv, Later, NEW w \in Workers, WorkerSizes(w), WriteRaises(w)
  PROVE  WorkerSizes(w)'
<1> DEFINE file == Current(w)
           e == EndedRows(file)
           r == rows_in_current[w]
<1>1. /\ parts \in Dirs /\ parts[w] # <<>> /\ FileSizes(w) /\ Counted(w)
      /\ Unfinished(file) /\ parts' = parts
      /\ writer[w] = "writing" /\ writer'[w] \in {"ready", "kept"}
      /\ rows_in_current' = rows_in_current
      /\ kills' = kills /\ raised' = raised + 1 /\ kills \in Nat /\ raised \in Nat
      /\ r \in Nat
  BY DEF WriteRaises, Raises, WorkerSizes, TypeInv, TypeOK, Dirs, Later
<1>2. file \in Seq(Piece)
  BY <1>1, CurrentIsFile
<1>3. e <= r + raised /\ r <= e + kills + raised
  BY <1>1 DEF Counted
<1>4. FileSizes(w)'
  BY <1>1, FilesKept
<1>5. Current(w)' = file
  BY <1>1 DEF Current
<1> HIDE DEF file
<1>6. e \in Nat /\ Lines(file) = e + 1
  BY <1>1, <1>2, LinesAre
<1> HIDE DEF e, r
<1>7. /\ e <= r + (raised + 1)
      /\ e + 1 <= r + (raised + 1)
      /\ r <= e + kills + (raised + 1)
  BY <1>1, <1>3, <1>6
<1>8. Counted(w)'
  BY <1>1, <1>5, <1>6, <1>7 DEF Counted, e, r
<1> QED
  BY <1>1, <1>4, <1>8 DEF WorkerSizes

LEMMA SizesStep ==
  ASSUME Sizes, TypeInv, SizeInv, [Next]_vars
  PROVE  SizeInv'
<1>1. Later /\ TypeInv'
  BY FaultsGrow, TypeStep
<1>2. /\ parts \in Dirs /\ rows_in_current \in [Workers -> Nat]
      /\ \A w \in Workers : writer[w] # "down" => parts[w] # <<>>
      /\ \A w \in Workers : WorkerSizes(w)
  BY DEF TypeInv, TypeOK, Dirs, SizeInv
<1>3. ASSUME NEW w \in Workers,
             Open(w) \/ (\E row \in Rows : Begin(w, row)) \/ Finish(w)
                \/ WriteRaises(w) \/ OpenNextRaises(w) \/ Kill(w)
      PROVE  SizeInv'
  <2>1. WorkerSizes(w)'
    <3>1. CASE Open(w)
      BY <1>1, <1>2, <3>1, OpenSizes
    <3>2. CASE \E row \in Rows : Begin(w, row)
      BY <1>1, <1>2, <3>2, BeginSizes
    <3>3. CASE Finish(w)
      BY <1>1, <1>2, <3>3, FinishSizes
    <3>4. CASE WriteRaises(w)
      BY <1>1, <1>2, <3>4, WriteRaisesSizes
    <3>5. CASE OpenNextRaises(w)
      <4>1. parts' = parts /\ writer'[w] = "broken"
        BY <3>5 DEF OpenNextRaises, TypeInv, TypeOK
      <4>2. FileSizes(w)'
        BY <1>1, <1>2, <4>1, FilesKept DEF WorkerSizes
      <4> QED
        BY <4>1, <4>2 DEF WorkerSizes
    <3>6. CASE Kill(w)
      <4>1. parts' = parts /\ writer'[w] = "down" /\ kills' = kills + 1
        BY <3>6 DEF Kill, TypeInv, TypeOK
      <4>2. FileSizes(w)'
        BY <1>1, <1>2, <4>1, FilesKept DEF WorkerSizes
      <4>3. kills' >= 1
        BY <1>1, <4>1 DEF Later
      <4> QED
        BY <4>1, <4>2, <4>3 DEF WorkerSizes
    <3> QED
      BY <1>3, <3>1, <3>2, <3>3, <3>4, <3>5, <3>6
  <2>2. ASSUME NEW v \in Workers, v # w
        PROVE  WorkerSizes(v)'
    <3>1. parts'[v] = parts[v]
      BY <1>2, <1>3, <2>2
      DEF Open, Begin, Finish, WriteRaises, OpenNextRaises, Kill, SetCurrent, Dirs
    <3>2. writer'[v] = writer[v] /\ rows_in_current'[v] = rows_in_current[v]
      BY <1>3, <2>2
      DEF Open, Begin, Finish, WriteRaises, OpenNextRaises, Kill, TypeInv, TypeOK
    <3> QED
      BY <1>1, <1>2, <3>1, <3>2, SizesKept
  <2> QED
    BY <2>1, <2>2 DEF SizeInv
<1>4. CASE UNCHANGED vars
  BY <1>1, <1>2, <1>4, SizesKept DEF vars, SizeInv
<1> QED
  BY <1>3, <1>4 DEF Next

\* ShardSizes: rows_per_shard_file bounds the files, whatever kills and full
\* disks do to the count of a ShardWriter, up to one row for each of them.
THEOREM ShardSizesAlways == ASSUME Sizes PROVE Spec => []ShardSizes
<1>1. Init => TypeInv /\ SizeInv
  BY DEF Init, Sizes, TypeInv, TypeOK, SizeInv, WorkerSizes, FileSizes
<1>2. (TypeInv /\ SizeInv) /\ [Next]_vars => (TypeInv /\ SizeInv)'
  BY TypeStep, SizesStep
<1>3. TypeInv /\ SizeInv => ShardSizes
  <2> SUFFICES ASSUME TypeInv, SizeInv, NEW w \in Workers, NEW f \in DOMAIN parts[w]
               PROVE  LET lines == Lines(parts[w][f]) IN
                      /\ lines <= ROWS_PER_SHARD + raised
                      /\ f < Len(parts[w]) =>
                            lines = 0 \/ lines + kills + raised >= ROWS_PER_SHARD
    BY DEF ShardSizes
  <2>1. parts[w] \in Seq(Seq(Piece)) /\ kills \in Nat /\ raised \in Nat
    BY DEF TypeInv, TypeOK, Sizes
  <2>2. f \in 1..Len(parts[w]) /\ Lines(parts[w][f]) \in Nat /\ Len(parts[w]) \in Nat
    BY <2>1, LinesOfFiles
  <2>3. /\ Bounded(Lines(parts[w][f]), raised)
        /\ f # Len(parts[w]) => Left(Lines(parts[w][f]), kills, raised)
    BY <2>2 DEF SizeInv, WorkerSizes, FileSizes
  <2> QED
    BY <2>1, <2>2, <2>3 DEF Bounded, Left, Sizes
<1> QED
  BY <1>1, <1>2, <1>3, PTL DEF Spec

----------------------------------------------------------------------------
(* The rows that are lost. *)

\* A row that will never become a line of its own: it was left unfinished.
IsCut(w, f, k) ==
    /\ f \in 1..Len(parts[w])
    /\ k \in 1..Len(parts[w][f])
    /\ ~Ended(parts[w][f][k])
    /\ ~ /\ writer[w] \in {"writing", "kept"}
         /\ f = Len(parts[w])
         /\ k = Len(parts[w][f])

Cut == {x \in Workers \X Nat \X Nat : IsCut(x[1], x[2], x[3])}

IsLine(row, w, f, k) ==
    /\ f \in 1..Len(parts[w])
    /\ k \in 1..Len(parts[w][f])
    /\ parts[w][f][k].row = row
    /\ parts[w][f][k].stage = "line"

IsWritten(row) == \E w \in Workers, f \in Nat, k \in Nat : IsLine(row, w, f, k)

DamageInv ==
    /\ IsFiniteSet(Cut)
    /\ Cardinality(Cut) <= kills + raised
    /\ \A row \in returned : IsWritten(row)

\* What a step does to the pieces of a worker: lines stay, and none is cut.
Harmless(w) ==
    \A f \in Nat, k \in Nat :
        /\ \A row \in Rows : IsLine(row, w, f, k) => IsLine(row, w, f, k)'
        /\ IsCut(w, f, k)' => IsCut(w, f, k)

LEMMA Untouched ==
  ASSUME NEW w \in Workers, parts'[w] = parts[w],
         \/ writer'[w] = writer[w]
         \/ writer[w] \notin {"writing", "kept"}
         \/ writer'[w] \in {"writing", "kept"}
  PROVE  Harmless(w)
  BY DEF Harmless, IsLine, IsCut

LEMMA OpenHarmless ==
  ASSUME Sizes, TypeInv, NEW w \in Workers, Open(w)
  PROVE  Harmless(w)
<1>1. parts \in Dirs /\ parts[w] \in Seq(Seq(Piece)) /\ writer[w] = "down"
  BY DEF Open, TypeInv, TypeOK, Dirs
<1>2. CASE parts' = [parts EXCEPT ![w] = Append(@, <<>>)]
  <2>1. /\ Len(parts'[w]) = Len(parts[w]) + 1
        /\ parts'[w][Len(parts[w]) + 1] = <<>>
        /\ \A f \in 1..Len(parts[w]) : parts'[w][f] = parts[w][f]
    BY <1>1, <1>2, EmptyFile, Opened DEF Current
  <2>2. Len(parts[w]) \in Nat /\ Len(<<>>) = 0
    BY <1>1
  <2>3. \A f \in Nat : f \in 1..Len(parts'[w]) =>
            f \in 1..Len(parts[w]) \/ parts'[w][f] = <<>>
    BY <2>1, <2>2
  <2>4. \A f \in 1..Len(parts[w]) : f \in 1..Len(parts'[w])
    BY <2>1, <2>2
  <2>5. ASSUME NEW f \in Nat, NEW k \in Nat
        PROVE  /\ \A row \in Rows : IsLine(row, w, f, k) => IsLine(row, w, f, k)'
               /\ IsCut(w, f, k)' => IsCut(w, f, k)
    <3>1. CASE f \in 1..Len(parts[w])
      BY <1>1, <2>1, <2>4, <3>1 DEF IsLine, IsCut
    <3>2. CASE f \notin 1..Len(parts[w])
      <4>1. ~IsCut(w, f, k)'
        BY <2>2, <2>3, <3>2 DEF IsCut
      <4> QED
        BY <3>2, <4>1 DEF IsLine
    <3> QED
      BY <3>1, <3>2
  <2> QED
    BY <2>5 DEF Harmless
<1>3. CASE parts' = parts
  BY <1>1, <1>3, Untouched
<1> QED
  BY <1>2, <1>3 DEF Open

LEMMA FinishHarmless ==
  ASSUME Sizes, TypeInv, NEW w \in Workers, Finish(w)
  PROVE  /\ Harmless(w)
         /\ \A row \in Rows : row = Current(w)[Len(Current(w))].row => IsWritten(row)'
<1> DEFINE file == Current(w)
           part == Completed(file)
<1>1. /\ parts \in Dirs /\ parts[w] \in Seq(Seq(Piece)) /\ parts[w] # <<>>
      /\ writer[w] = "writing" /\ writer'[w] = "ready"
      /\ Unfinished(file) /\ parts' = SetCurrent(w, part)
  BY DEF Finish, TypeInv, TypeOK, Dirs
<1>2. /\ file \in Seq(Piece) /\ Len(parts[w]) \in 1..Len(parts[w])
      /\ file = parts[w][Len(parts[w])]
  BY <1>1, CurrentIsFile
<1>3. Len(parts[w]) \in Nat /\ Len(file) \in Nat /\ Len(file) \in 1..Len(file)
  BY <1>1, <1>2 DEF Unfinished
<1>4. PICK n \in Nat, m \in Nat : n = Len(parts[w]) /\ m = Len(file)
  BY <1>3
<1>5. /\ part \in Seq(Piece) /\ Len(part) = m
      /\ \A k \in 1..m : k # m => part[k] = file[k]
      /\ part[m].row = file[m].row /\ part[m].stage = "line"
  BY <1>1, <1>2, <1>4, EndsRow
<1>6. m \in 1..m /\ n \in 1..n /\ ~Ended(file[m])
  BY <1>1, <1>2, <1>3, <1>4 DEF Unfinished
<1>7. /\ Len(parts'[w]) = n /\ parts'[w][n] = part
      /\ \A f \in 1..n : f # n => parts'[w][f] = parts[w][f]
  BY <1>1, <1>2, <1>4, <1>5, Rewritten DEF Current
<1>8. ASSUME NEW row \in Rows, row = Current(w)[Len(Current(w))].row
      PROVE  IsWritten(row)'
  <2>1. row = file[m].row
    BY <1>4, <1>8
  <2> HIDE DEF file, part
  <2>2. IsLine(row, w, n, m)'
    BY <1>5, <1>6, <1>7, <2>1 DEF IsLine
  <2> QED
    BY <2>2 DEF IsWritten
<1> HIDE DEF file, part
<1>9. ASSUME NEW f \in Nat, NEW k \in Nat
      PROVE  /\ \A x \in Rows : IsLine(x, w, f, k) => IsLine(x, w, f, k)'
             /\ IsCut(w, f, k)' => IsCut(w, f, k)
  <2>1. CASE f = n
    <3>1. CASE k = m
      BY <1>2, <1>4, <1>5, <1>6, <1>7, <2>1, <3>1 DEF IsLine, IsCut, Ended
    <3>2. CASE k # m
      BY <1>2, <1>4, <1>5, <1>6, <1>7, <2>1, <3>2 DEF IsLine, IsCut
    <3> QED
      BY <3>1, <3>2
  <2>2. CASE f # n
    BY <1>1, <1>4, <1>7, <2>2 DEF IsLine, IsCut
  <2> QED
    BY <2>1, <2>2
<1> QED
  BY <1>8, <1>9 DEF Harmless

LEMMA BeginHarmless ==
  ASSUME Sizes, TypeInv, NEW w \in Workers, NEW row \in Rows, Begin(w, row)
  PROVE  Harmless(w)
<1> DEFINE file == Current(w)
<1>1. /\ parts \in Dirs /\ parts[w] \in Seq(Seq(Piece)) /\ parts[w] # <<>>
      /\ writer[w] \in {"ready", "kept"} /\ writer'[w] = "writing"
      /\ writer[w] = "kept" => Unfinished(file) /\ ~Full(w)
  BY DEF Begin, TypeInv, TypeOK, Dirs
<1>2. PICK stage \in {"part", "text"} :
        parts' = IF Full(w)
                 THEN [parts EXCEPT ![w] = Append(@, <<[row |-> row, stage |-> stage]>>)]
                 ELSE SetCurrent(w, Append(Flushed(w), [row |-> row, stage |-> stage]))
  BY DEF Begin
<1> DEFINE piece == [row |-> row, stage |-> stage]
<1>3. piece \in Piece /\ ~Ended(piece)
  BY DEF Piece, Ended
<1>4. /\ file \in Seq(Piece) /\ Len(parts[w]) \in 1..Len(parts[w])
      /\ file = parts[w][Len(parts[w])]
  BY <1>1, CurrentIsFile
<1>5. PICK n \in Nat, m \in Nat : n = Len(parts[w]) /\ m = Len(file)
  BY <1>1, <1>4
<1>6. CASE Full(w)
  <2>1. parts' = [parts EXCEPT ![w] = Append(@, <<piece>>)]
    BY <1>2, <1>6
  <2>2. <<piece>> \in Seq(Piece) /\ Len(<<piece>>) = 1
    BY <1>3
  <2> HIDE DEF piece, file
  <2>3. /\ Len(parts'[w]) = n + 1
        /\ parts'[w][n + 1] = <<piece>>
        /\ \A f \in 1..n : parts'[w][f] = parts[w][f]
    <3>1. /\ Len(parts'[w]) = Len(parts[w]) + 1
          /\ Current(w)' = <<piece>>
          /\ \A f \in 1..Len(parts[w]) : parts'[w][f] = parts[w][f]
      BY <1>1, <2>1, <2>2, Opened
    <3> QED
      BY <1>5, <3>1 DEF Current
  <2>4. ASSUME NEW f \in Nat, NEW k \in Nat
        PROVE  /\ \A x \in Rows : IsLine(x, w, f, k) => IsLine(x, w, f, k)'
               /\ IsCut(w, f, k)' => IsCut(w, f, k)
    <3>1. CASE f \in 1..n
      <4>1. /\ parts'[w][f] = parts[w][f] /\ f \in 1..Len(parts'[w])
            /\ f \in 1..Len(parts[w]) /\ writer[w] \notin {"writing", "kept"}
        BY <1>1, <1>5, <1>6, <2>3, <3>1
      <4> QED
        BY <4>1 DEF IsLine, IsCut
    <3>2. CASE f \notin 1..n
      <4>1. f \in 1..(n + 1) => f = n + 1
        BY <3>2
      <4>2. k \in 1..1 => k = 1
        OBVIOUS
      <4>3. ~IsCut(w, f, k)'
        BY <1>1, <2>2, <2>3, <4>1, <4>2 DEF IsCut
      <4> QED
        BY <1>5, <3>2, <4>3 DEF IsLine
    <3> QED
      BY <3>1, <3>2
  <2> QED
    BY <2>4 DEF Harmless
<1>7. CASE ~Full(w)
  <2> DEFINE base == Flushed(w)
             part == Append(base, piece)
  <2>1. parts' = SetCurrent(w, part)
    BY <1>2, <1>7
  <2>2. base \in Seq(Piece) /\ part \in Seq(Piece)
    BY <1>1, <1>3, FlushedIsFile, BeginsRow
  <2>3. /\ Len(base) = m
        /\ \A k \in 1..m : \/ base[k] = file[k]
                           \/ /\ writer[w] = "kept" /\ k = m
                              /\ base[k].stage = "line" /\ file[k].stage # "line"
    <3>1. CASE writer[w] = "kept"
      <4>1. file[m].stage # "line"
        BY <1>1, <1>5, <3>1 DEF Unfinished, Ended
      <4> QED
        BY <1>1, <1>4, <1>5, <3>1, <4>1, EndsRow DEF Flushed
    <3>2. CASE writer[w] # "kept"
      BY <1>5, <3>2 DEF Flushed
    <3> QED
      BY <3>1, <3>2
  <2> HIDE DEF base
  <2>4. Len(part) = m + 1 /\ (\A k \in 1..m : part[k] = base[k]) /\ part[m + 1] = piece
    BY <1>3, <2>2, <2>3, Appending
  <2> HIDE DEF part
  <2>5. /\ Len(parts'[w]) = n /\ parts'[w][n] = part
        /\ \A f \in 1..n : f # n => parts'[w][f] = parts[w][f]
    BY <1>1, <1>5, <2>1, <2>2, Rewritten DEF Current
  <2> HIDE DEF piece, file
  <2>6. ASSUME NEW f \in Nat, NEW k \in Nat
        PROVE  /\ \A x \in Rows : IsLine(x, w, f, k) => IsLine(x, w, f, k)'
               /\ IsCut(w, f, k)' => IsCut(w, f, k)
    <3>1. CASE f = n
      <4>1. CASE k \in 1..m
        <5>1. k \in 1..Len(part) /\ part[k] = base[k] /\ k # m + 1
          BY <2>4, <4>1
        <5>2. \A x \in Rows : IsLine(x, w, f, k) => IsLine(x, w, f, k)'
          BY <1>4, <1>5, <2>3, <2>5, <3>1, <4>1, <5>1 DEF IsLine
        <5>3. IsCut(w, f, k)' => IsCut(w, f, k)
          <6>1. CASE base[k] = file[k] /\ (writer[w] = "kept" => k # m)
            BY <1>1, <1>4, <1>5, <2>5, <3>1, <4>1, <5>1, <6>1 DEF IsCut
          <6>2. CASE writer[w] = "kept" /\ k = m
            <7>1. Ended(base[k])
              <8>1. base = Completed(file)
                BY <6>2 DEF base, Flushed, file
              <8> QED
                BY <1>1, <1>4, <1>5, <6>2, <8>1, EndsRow DEF Ended
            <7> QED
              BY <2>5, <3>1, <5>1, <7>1 DEF IsCut
          <6> QED
            BY <2>3, <4>1, <6>1, <6>2
        <5> QED
          BY <5>2, <5>3
      <4>2. CASE k \notin 1..m
        <5>1. k \in 1..Len(part) => k = Len(part)
          BY <2>4, <4>2
        <5>2. ~IsCut(w, f, k)'
          BY <1>1, <2>5, <3>1, <5>1 DEF IsCut
        <5> QED
          BY <1>4, <1>5, <3>1, <4>2, <5>2 DEF IsLine
      <4> QED
        BY <4>1, <4>2
    <3>2. CASE f # n
      BY <1>1, <1>5, <2>5, <3>2 DEF IsLine, IsCut
    <3> QED
      BY <3>1, <3>2
  <2> QED
    BY <2>6 DEF Harmless
<1> QED
  BY <1>6, <1>7

\* A fault cuts at most the row that is being written.
LEMMA FaultCutsOne ==
  ASSUME NEW w \in Workers, parts' = parts,
         \A v \in Workers : v # w => writer'[v] = writer[v]
  PROVE  /\ \E x : Cut' \subseteq Cut \cup {x}
         /\ \A row \in Rows : IsWritten(row) => IsWritten(row)'
<1> DEFINE x == <<w, Len(parts[w]), Len(parts[w][Len(parts[w])])>>
<1>1. ASSUME NEW v \in Workers, NEW f \in Nat, NEW k \in Nat, IsCut(v, f, k)'
      PROVE  IsCut(v, f, k) \/ <<v, f, k>> = x
  BY <1>1 DEF IsCut
<1> HIDE DEF x
<1>2. Cut' \subseteq Cut \cup {x}
  BY <1>1 DEF Cut
<1>3. \A row \in Rows : IsWritten(row) => IsWritten(row)'
  BY DEF IsWritten, IsLine
<1> QED
  BY <1>2, <1>3

LEMMA OneMore ==
  ASSUME NEW d \in Nat, NEW e \in Nat, NEW k \in Nat, NEW r \in Nat,
         NEW kk \in Nat, NEW rr \in Nat, d <= k + r
  PROVE  /\ e <= d /\ k <= kk /\ r <= rr => e <= kk + rr
         /\ e <= d + 1 /\ kk + rr = k + r + 1 => e <= kk + rr
  OBVIOUS

LEMMA FaultCounts ==
  ASSUME IsFiniteSet(Cut), Cardinality(Cut) <= kills + raised,
         kills \in Nat, raised \in Nat, kills' \in Nat, raised' \in Nat,
         kills' + raised' = kills + raised + 1,
         \E x : Cut' \subseteq Cut \cup {x}
  PROVE  IsFiniteSet(Cut)' /\ (Cardinality(Cut) <= kills + raised)'
<1>1. PICK x : Cut' \subseteq Cut \cup {x}
  OBVIOUS
<1> DEFINE c == Cut
           cc == Cut'
<1>2. /\ IsFiniteSet(c \cup {x})
      /\ Cardinality(c \cup {x}) = IF x \in c THEN Cardinality(c) ELSE Cardinality(c) + 1
  BY FS_AddElement
<1>3. IsFiniteSet(cc) /\ Cardinality(cc) <= Cardinality(c \cup {x})
  BY <1>1, <1>2, FS_Subset
<1>4. /\ Cardinality(c) \in Nat /\ Cardinality(cc) \in Nat
      /\ Cardinality(c \cup {x}) \in Nat
  BY <1>2, <1>3, FS_CardinalityType
<1>5. Cardinality(c) <= kills + raised
  OBVIOUS
<1> HIDE DEF c, cc
<1>6. Cardinality(cc) <= Cardinality(c) + 1
  BY <1>2, <1>3, <1>4
<1>7. Cardinality(cc) <= kills' + raised'
  BY <1>4, <1>5, <1>6, OneMore
<1> QED
  BY <1>3, <1>7 DEF cc

LEMMA HarmlessStep ==
  ASSUME IsFiniteSet(Cut), Cardinality(Cut) <= kills + raised,
         kills \in Nat, raised \in Nat, kills' \in Nat, raised' \in Nat,
         kills <= kills', raised <= raised',
         \A w \in Workers : Harmless(w)
  PROVE  /\ IsFiniteSet(Cut)' /\ (Cardinality(Cut) <= kills + raised)'
         /\ \A row \in Rows : IsWritten(row) => IsWritten(row)'
<1> DEFINE c == Cut
           cc == Cut'
<1>1. cc \subseteq c
  BY DEF Harmless, Cut
<1>2. \A row \in Rows : IsWritten(row) => IsWritten(row)'
  BY DEF Harmless, IsWritten
<1>3. IsFiniteSet(cc) /\ Cardinality(cc) <= Cardinality(c)
  BY <1>1, FS_Subset
<1>4. Cardinality(c) \in Nat /\ Cardinality(cc) \in Nat
  BY <1>3, FS_CardinalityType
<1>5. Cardinality(c) <= kills + raised
  OBVIOUS
<1> HIDE DEF c, cc
<1>6. Cardinality(cc) <= kills' + raised'
  BY <1>3, <1>4, <1>5, OneMore
<1> QED
  BY <1>2, <1>3, <1>6 DEF cc

LEMMA DamageStep ==
  ASSUME Sizes, TypeInv, DamageInv, [Next]_vars
  PROVE  DamageInv'
<1>1. /\ kills \in Nat /\ raised \in Nat /\ kills' \in Nat /\ raised' \in Nat
      /\ kills <= kills' /\ raised <= raised'
  BY FaultsGrow DEF Later
<1>2. /\ parts \in Dirs /\ returned \subseteq Rows
      /\ writer \in [Workers -> {"down", "ready", "writing", "kept", "broken"}]
      /\ IsFiniteSet(Cut) /\ Cardinality(Cut) <= kills + raised
      /\ \A row \in returned : IsWritten(row)
  BY DEF TypeInv, TypeOK, Dirs, DamageInv
<1>4. ASSUME NEW w \in Workers,
             \A v \in Workers : v # w => parts'[v] = parts[v] /\ writer'[v] = writer[v],
             Harmless(w),
             \A row \in Rows : row \in returned' => row \in returned \/ IsWritten(row)',
             returned' \subseteq Rows
      PROVE  DamageInv'
  <2>1. \A v \in Workers : Harmless(v)
    BY <1>4, Untouched
  <2> QED
    BY <1>1, <1>2, <1>4, <2>1, HarmlessStep DEF DamageInv
<1>5. ASSUME NEW w \in Workers, parts' = parts, returned' = returned,
             \A v \in Workers : v # w => writer'[v] = writer[v],
             kills' + raised' = kills + raised + 1
      PROVE  DamageInv'
  BY <1>1, <1>2, <1>5, FaultCutsOne, FaultCounts DEF DamageInv
<1>6. ASSUME NEW w \in Workers, Open(w)
      PROVE  DamageInv'
  <2>1. \A v \in Workers : v # w => parts'[v] = parts[v] /\ writer'[v] = writer[v]
    BY <1>2, <1>6 DEF Open, Dirs
  <2> QED
    BY <1>2, <1>4, <1>6, <2>1, OpenHarmless DEF Open
<1>7. ASSUME NEW w \in Workers, NEW row \in Rows, Begin(w, row)
      PROVE  DamageInv'
  <2>1. \A v \in Workers : v # w => parts'[v] = parts[v] /\ writer'[v] = writer[v]
    BY <1>2, <1>7 DEF Begin, Dirs, SetCurrent
  <2> QED
    BY <1>2, <1>4, <1>7, <2>1, BeginHarmless DEF Begin
<1>8. ASSUME NEW w \in Workers, Finish(w)
      PROVE  DamageInv'
  <2>1. \A v \in Workers : v # w => parts'[v] = parts[v] /\ writer'[v] = writer[v]
    BY <1>2, <1>8 DEF Finish, Dirs, SetCurrent
  <2>2. returned' = returned \cup {Current(w)[Len(Current(w))].row}
    BY <1>8 DEF Finish
  <2>3. returned' \subseteq Rows
    BY TypeStep DEF TypeInv, TypeOK
  <2> QED
    BY <1>4, <1>8, <2>1, <2>2, <2>3, FinishHarmless
<1>9. ASSUME NEW w \in Workers, WriteRaises(w)
      PROVE  DamageInv'
  <2>1. kills' + raised' = kills + raised + 1
    BY <1>1, <1>9 DEF WriteRaises, Raises
  <2> QED
    BY <1>2, <1>5, <1>9, <2>1 DEF WriteRaises
<1>10. ASSUME NEW w \in Workers, OpenNextRaises(w)
       PROVE  DamageInv'
  <2>1. kills' + raised' = kills + raised + 1
    BY <1>1, <1>10 DEF OpenNextRaises, Raises
  <2> QED
    BY <1>2, <1>5, <1>10, <2>1 DEF OpenNextRaises
<1>11. ASSUME NEW w \in Workers, Kill(w)
       PROVE  DamageInv'
  <2>1. kills' + raised' = kills + raised + 1
    BY <1>1, <1>11 DEF Kill
  <2> QED
    BY <1>2, <1>5, <1>11, <2>1 DEF Kill
<1>12. CASE UNCHANGED vars
  <2>1. \A w \in Workers : Harmless(w)
    BY <1>12, Untouched DEF vars
  <2> QED
    BY <1>1, <1>2, <1>12, <2>1, HarmlessStep DEF vars, DamageInv
<1> QED
  BY <1>6, <1>7, <1>8, <1>9, <1>10, <1>11, <1>12 DEF Next

\* A row that was written and cannot be read goes on in the line of one that
\* was cut.
LEMMA LostAfterCut ==
  ASSUME TypeInv, NEW row \in Rows, IsWritten(row), row \notin Stored
  PROVE  \E x \in Cut : row = parts[x[1]][x[2]][x[3] + 1].row
<1>1. PICK w \in Workers, f \in Nat, k \in Nat : IsLine(row, w, f, k)
  BY DEF IsWritten
<1> DEFINE file == parts[w][f]
<1>2. /\ f \in 1..Len(parts[w]) /\ k \in 1..Len(file)
      /\ file[k].row = row /\ file[k].stage = "line"
  BY <1>1 DEF IsLine
<1>3. parts[w] \in Seq(Seq(Piece))
  BY DEF TypeInv, TypeOK
<1>4. file \in Seq(Piece)
  BY <1>2, <1>3
<1>5. ~Parses(file, k)
  <2>1. SUFFICES ASSUME Parses(file, k) PROVE FALSE
    OBVIOUS
  <2>2. row \in RowsIn(file)
    BY <1>2, <1>4, <2>1 DEF RowsIn, Readable
  <2>3. f \in DOMAIN parts[w]
    BY <1>2, <1>3
  <2> QED
    BY <2>2, <2>3 DEF Stored
<1>6. k > 1 /\ ~Ended(file[k - 1])
  BY <1>2, <1>5 DEF Parses
<1>7. PICK j \in Nat : j = k - 1
  BY <1>6
<1>8. k = j + 1 /\ j \in 1..Len(file) /\ j # Len(file) /\ ~Ended(file[j])
  BY <1>2, <1>4, <1>6, <1>7
<1>9. IsCut(w, f, j)
  BY <1>2, <1>8 DEF IsCut
<1>10. <<w, f, j>> \in Cut
  BY <1>9 DEF Cut
<1>11. row = parts[w][f][j + 1].row
  BY <1>2, <1>8
<1> QED
  BY <1>10, <1>11

LEMMA DamageIsBounded ==
  ASSUME Sizes, TypeInv, DamageInv
  PROVE  DamageBounded
<1> DEFINE lost == returned \ Stored
           g == [x \in Cut |-> parts[x[1]][x[2]][x[3] + 1].row]
           img == {g[x] : x \in Cut}
<1>1. lost \subseteq img
  <2>1. ASSUME NEW row \in lost
        PROVE  row \in img
    <3>1. row \in Rows /\ IsWritten(row) /\ row \notin Stored
      BY DEF TypeInv, TypeOK, DamageInv
    <3>2. PICK x \in Cut : row = parts[x[1]][x[2]][x[3] + 1].row
      BY <3>1, LostAfterCut
    <3>3. row = g[x]
      BY <3>2
    <3> QED
      BY <3>3
  <2> QED
    BY <2>1
<1>2. IsFiniteSet(Cut) /\ Cardinality(Cut) <= kills + raised
  BY DEF DamageInv
<1>3. IsFiniteSet(img) /\ Cardinality(img) <= Cardinality(Cut)
  <2>1. g \in Surjection(Cut, img)
    BY DEF Surjection
  <2> HIDE DEF g, img
  <2> QED
    BY <1>2, <2>1, FS_Surjection
<1> HIDE DEF g, lost
<1> HIDE DEF img
<1>4. IsFiniteSet(lost) /\ Cardinality(lost) <= Cardinality(img)
  BY <1>1, <1>3, FS_Subset
<1>5. /\ Cardinality(lost) \in Nat /\ Cardinality(img) \in Nat /\ Cardinality(Cut) \in Nat
      /\ kills + raised \in Nat
  BY <1>2, <1>3, <1>4, FS_CardinalityType DEF TypeInv, TypeOK, Sizes
<1>6. Cardinality(lost) <= kills + raised
  BY <1>2, <1>3, <1>4, <1>5
<1> QED
  BY <1>6 DEF DamageBounded, lost

\* DamageBounded: a kill or a write that raises costs at most one of the rows
\* whose write has returned (ShardWriter.write, which goes on in the last line).
THEOREM DamageBoundedAlways == ASSUME Sizes PROVE Spec => []DamageBounded
<1>1. Init => TypeInv /\ DamageInv
  <2> SUFFICES ASSUME Init PROVE TypeInv /\ DamageInv
    OBVIOUS
  <2>1. TypeInv
    BY DEF Init, Sizes, TypeInv, TypeOK
  <2>2. Cut = {}
    BY DEF Init, Cut, IsCut
  <2> QED
    BY <2>1, <2>2, FS_EmptySet DEF Init, DamageInv
<1>2. (TypeInv /\ DamageInv) /\ [Next]_vars => (TypeInv /\ DamageInv)'
  BY TypeStep, DamageStep
<1>3. TypeInv /\ DamageInv => DamageBounded
  BY DamageIsBounded
<1> QED
  BY <1>1, <1>2, <1>3, PTL DEF Spec

============================================================================
