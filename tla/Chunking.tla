------------------------------ MODULE Chunking ------------------------------
(***************************************************************************)
(* How a text is cut into chunks (src/pipeline/chunking.py), while the     *)
(* text grows.                                                             *)
(*                                                                         *)
(* A text is the sequence of its paragraphs, a paragraph its length, and a *)
(* chunk the paragraphs it is joined from, by blank lines of two           *)
(* characters.  Scanner and worker cut a file separately: what a file that *)
(* has grown in between still has in common with what was scanned is what  *)
(* Corpus relies on.                                                       *)
(***************************************************************************)
EXTENDS Integers, Sequences, FiniteSets, FiniteSetsExt

CONSTANTS
    MIN_CHARS, MAX_CHARS,   \* chunking.text_chunk_chars_min and _max
    WRAPPING,               \* least characters of JSON around the text of a .jsonl row
    MaxLength,              \* bound: characters of a paragraph
    MaxParagraphs           \* bound: paragraphs of the text

ASSUME ChunkingAssumption ==
    /\ MIN_CHARS \in Nat \ {0}
    /\ MAX_CHARS \in Nat
    /\ MIN_CHARS <= MAX_CHARS
    /\ {WRAPPING, MaxLength, MaxParagraphs} \subseteq Nat

VARIABLES
    jsonl,      \* whether the file is a .jsonl file, whose lines are paragraphs
    text,
    raw         \* whether its last paragraph is a .jsonl line without its end

vars == <<jsonl, text, raw>>

Chars(chunk) ==
    LET upto[k \in 0..Len(chunk)] ==
            IF k = 0 THEN 0
            ELSE upto[k - 1] + chunk[k] + (IF k = 1 THEN 0 ELSE 2)
    IN  upto[Len(chunk)]

----------------------------------------------------------------------------
\* Fault: a candidate that is just long enough is split.
TakeEarly(done, para) ==
    LET candidate == Append(done.buf, para) IN
    IF Chars(candidate) >= MAX_CHARS /\ done.buf # <<>>
    THEN [chunks |-> Append(done.chunks, done.buf), buf |-> <<para>>]
    ELSE [chunks |-> done.chunks, buf |-> candidate]

\* One turn of the loop: the paragraph goes into the buffer, or begins another
\* one; a full buffer becomes a chunk at once.
Take(done, para) ==
    LET candidate == Append(done.buf, para)
        split == Chars(candidate) > MAX_CHARS /\ done.buf # <<>>
        chunks == IF split THEN Append(done.chunks, done.buf) ELSE done.chunks
        buf == IF split THEN <<para>> ELSE candidate
    IN  IF Chars(buf) >= MIN_CHARS /\ Chars(buf) >= MAX_CHARS
        THEN [chunks |-> Append(chunks, buf), buf |-> <<>>]
        ELSE [chunks |-> chunks, buf |-> buf]

\* Fault: a short tail always goes to the chunk before the last one.
CloseElsewhere(done) ==
    LET n == Len(done.chunks) IN
    IF done.buf = <<>> THEN done.chunks
    ELSE IF n > 1 /\ Chars(done.buf) < MIN_CHARS
    THEN [done.chunks EXCEPT ![n - 1] = @ \o done.buf]
    ELSE Append(done.chunks, done.buf)

\* Fault: a tail always goes to the last chunk.
CloseJoins(done) ==
    LET n == Len(done.chunks) IN
    IF done.buf = <<>> THEN done.chunks
    ELSE IF n > 0
    THEN [done.chunks EXCEPT ![n] = @ \o done.buf]
    ELSE Append(done.chunks, done.buf)

\* What is left over is the last chunk, or is too short and joins it.
Close(done) ==
    LET n == Len(done.chunks) IN
    IF done.buf = <<>> THEN done.chunks
    ELSE IF n > 0 /\ Chars(done.buf) < MIN_CHARS
    THEN [done.chunks EXCEPT ![n] = @ \o done.buf]
    ELSE Append(done.chunks, done.buf)

Loop(paragraphs) ==
    LET done[k \in 0..Len(paragraphs)] ==
            IF k = 0 THEN [chunks |-> <<>>, buf |-> <<>>]
            ELSE Take(done[k - 1], paragraphs[k])
    IN  done[Len(paragraphs)]

Chunks(paragraphs) == Close(Loop(paragraphs))

----------------------------------------------------------------------------
Init ==
    /\ jsonl \in BOOLEAN
    /\ text = <<>>
    /\ raw = FALSE

\* A paragraph is begun: of a plain text, or a line of a .jsonl file, which
\* read_text_file takes as it is, one paragraph, as long as it does not parse.
AddParagraph ==
    /\ ~raw
    /\ Len(text) < MaxParagraphs
    /\ \E para \in 1..MaxLength : text' = Append(text, para)
    /\ raw' = jsonl
    /\ UNCHANGED jsonl

\* The last paragraph grows.
Grow ==
    /\ text # <<>>
    /\ text[Len(text)] < MaxLength
    /\ raw = jsonl
    /\ text' = [text EXCEPT ![Len(text)] = @ + 1]
    /\ UNCHANGED <<jsonl, raw>>

\* The line is whole.  Instead of it the file now gives the paragraphs of the
\* row's text, without the JSON around them; a text of white space has none.  A
\* row with no text is written anew, and a line that is no JSON stays: either is
\* one paragraph.
LineEnds ==
    /\ raw
    /\ \E k \in 0..(MaxParagraphs + 1 - Len(text)) : \E paras \in [1..k -> 1..MaxLength] :
          /\ k = 1 \/ Chars(paras) + WRAPPING <= text[Len(text)]
          /\ text' = SubSeq(text, 1, Len(text) - 1) \o paras
    /\ raw' = FALSE
    /\ UNCHANGED jsonl

Next == AddParagraph \/ Grow \/ LineEnds

Spec == Init /\ [][Next]_vars

----------------------------------------------------------------------------
(* A definition of the cuts without a loop: paragraph j begins a chunk when *)
(* it does not fit behind those since the last beginning.                   *)

IsCut(S, j) ==
    LET last == Max({1} \cup {i \in S : i < j}) IN Chars(SubSeq(text, last, j)) > MAX_CHARS

Begins ==
    CHOOSE S \in SUBSET (2..Len(text)) : \A j \in 2..Len(text) : j \in S <=> IsCut(S, j)

\* The beginnings of the chunks: a last piece that is short begins none.
Cuts ==
    LET last == Max({1} \cup Begins) IN
    IF Chars(SubSeq(text, last, Len(text))) < MIN_CHARS THEN Begins \ {last} ELSE Begins

----------------------------------------------------------------------------
\* A beginning comes after those before it, and its chunk ends at the next one.
Rank(S, i) == Cardinality({j \in S : j <= i})

End(S, i) == Min({Len(text)} \cup {j - 1 : j \in {k \in S : k > i}})

\* The chunks are what lies between two beginnings: paragraphs are neither lost
\* nor repeated nor moved, and a chunk ends where the definition above says.
CutsAreGreedy ==
    LET chunks == Chunks(text)
        starts == {1} \cup Cuts
    IN  /\ text = <<>> => chunks = <<>>
        /\ text # <<>> => Len(chunks) = Cardinality(starts)
        /\ text # <<>> => \A i \in starts :
               chunks[Rank(starts, i)] = SubSeq(text, i, End(starts, i))

\* A paragraph alone may be longer than MAX_CHARS, but paragraphs that are
\* joined are not, before a tail of fewer than MIN_CHARS goes to the last chunk.
SizeBounded ==
    LET chunks == Chunks(text)
        Fits(chunk) == Len(chunk) = 1 \/ Chars(chunk) <= MAX_CHARS
    IN  \A k \in DOMAIN chunks :
            \/ Fits(chunks[k])
            \/ /\ k = Len(chunks)
               /\ \E i \in 1..(Len(chunks[k]) - 1) :
                     /\ Fits(SubSeq(chunks[k], 1, i))
                     /\ Chars(SubSeq(chunks[k], i + 1, Len(chunks[k]))) < MIN_CHARS

\* At most that many chunks get lost; what is left stays, but for the last one.
AllBut(lost, before, after) ==
    /\ Len(after) >= Len(before) - lost
    /\ \A k \in 1..(Len(before) - 1 - lost) : after[k] = before[k]

\* worker.py, lines 125 to 127: reading and cutting a file the same way keeps
\* scanner and worker in line.  A plain text that grows at its end has as many
\* chunks as before, or more, so a chunk index that was scanned is there when
\* the worker cuts the file again; and its chunks but the last are the same, so
\* the index means the same.  When the line of a .jsonl file that was being
\* written is whole, the paragraphs of the row, however many, take its place.
\* That costs two chunks, no more: one that the line was itself, and one it kept
\* from being a short tail.
EarlierChunksStay ==
    [][AllBut(IF raw /\ ~raw' THEN 2 ELSE 0, Chunks(text), Chunks(text'))]_vars

----------------------------------------------------------------------------
(* What the repository says and the code does not do. *)

\* worker.py, lines 125 to 127, once more, of any file: the chunk a scan listed
\* is there when the worker cuts the file again.
ScannedChunkIsThere == [][Len(Chunks(text')) >= Len(Chunks(text))]_vars

============================================================================
