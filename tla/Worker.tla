------------------------------ MODULE Worker -------------------------------
(***************************************************************************)
(* The worker loop (src/pipeline/worker.py, main), one process per node.   *)
(*                                                                         *)
(* A worker waits for its model, leases a batch, and takes the items of    *)
(* the batch one at a time: it generates the rows of all languages, then   *)
(* validates and writes them one by one, and at last reports.  Any         *)
(* exception on the way, the POST of the report included, ends in a report *)
(* of failure; an exception in that report is ignored.                     *)
(*                                                                         *)
(* Rows go to an append-only shard of the worker, so the output survives   *)
(* a crash.  What the shards of all workers hold together is `out`: the    *)
(* merge of the shards keeps one row per item and language.  A write that  *)
(* is cut off may leave its line unfinished; the next row of that worker   *)
(* then goes on in the line and cannot be read, though its write returned  *)
(* (Shards has the files in detail).                                       *)
(***************************************************************************)
EXTENDS Integers, FiniteSets, FiniteSetsExt

CONSTANTS
    Workers,
    NItems,     \* items are numbered in the order a batch lists them
    NLangs,     \* languages.targets, numbered in the order they are written
    MaxTears    \* bound: writes that are cut off in the middle of a line

VARIABLES
    pc,         \* what the worker is doing
    batch,      \* the items of its lease it has not finished, in item order
    lang,       \* while writing: the language of the next row
    out,        \* what became of the row of an item in a language
    torn,       \* the workers whose shard ends in an unfinished line
    tears,      \* how many writes left an unfinished line
    misfired    \* history: the items some attempt at which raised

shards == <<out, torn, tears>>

vars == <<pc, batch, lang, shards, misfired>>

ItemIds == 1..NItems

Langs == 1..NLangs

TypeOK ==
    /\ pc \in [Workers -> {"gate", "idle", "generate", "write", "post_done",
                           "post_failed"}]
    /\ batch \in [Workers -> SUBSET ItemIds]
    /\ \A w \in Workers : batch[w] = {} <=> pc[w] \in {"gate", "idle"}
    /\ lang \in [Workers -> 1..(NLangs + 1)]
    /\ out \in [ItemIds \X Langs -> {"none", "dropped", "lost", "written"}]
    /\ torn \subseteq Workers
    /\ tears \in 0..MaxTears
    /\ misfired \subseteq ItemIds

Current(w) == Min(batch[w])

Writing(w) == pc[w] = "write" /\ lang[w] \in Langs

\* A row that an earlier attempt has written stays in its shard.
Dropped(what) == IF what \in {"lost", "written"} THEN what ELSE "dropped"

\* The row goes to a line of its own, or on in an unfinished one.
Appended(w, what) == IF w \in torn /\ what # "written" THEN "lost" ELSE "written"

\* What a stop in the middle of a write does to the shard: the line at its end
\* is left unfinished.  A line that was unfinished before may be done with (the
\* file is full and the next process begins another one; what was left in the
\* buffer of the file object comes out and ends the line).
ShardLeft(w) ==
    \/ torn' \in {torn, torn \ {w}} /\ UNCHANGED <<out, tears>>
    \/ /\ Writing(w)
       /\ tears < MaxTears
       /\ torn' = torn \cup {w}
       /\ tears' = tears + 1
       /\ UNCHANGED out

Init ==
    /\ pc = [w \in Workers |-> "gate"]
    /\ batch = [w \in Workers |-> {}]
    /\ lang = [w \in Workers |-> 1]
    /\ out = [il \in ItemIds \X Langs |-> "none"]
    /\ torn = {}
    /\ tears = 0
    /\ misfired = {}

\* The model server answers and lists the model; the shard is opened.
PassGate(w) ==
    /\ pc[w] = "gate"
    /\ pc' = [pc EXCEPT ![w] = "idle"]
    /\ UNCHANGED <<batch, lang, shards, misfired>>

\* GET /lease is answered with the items `leased`; on none it is repeated.
TakeBatch(w, leased) ==
    /\ pc[w] = "idle"
    /\ batch' = [batch EXCEPT ![w] = leased]
    /\ pc' = [pc EXCEPT ![w] = IF leased = {} THEN "idle" ELSE "generate"]
    /\ UNCHANGED <<lang, shards, misfired>>

\* The processor has returned a row for every language.
Generated(w) ==
    /\ pc[w] = "generate"
    /\ pc' = [pc EXCEPT ![w] = "write"]
    /\ UNCHANGED <<batch, lang, shards, misfired>>

\* The processor has returned no row: a recording without speech.
NoSpeech(w) ==
    /\ pc[w] = "generate"
    /\ pc' = [pc EXCEPT ![w] = "write"]
    /\ lang' = [lang EXCEPT ![w] = NLangs + 1]
    /\ out' = [il \in ItemIds \X Langs |->
                  IF il[1] = Current(w) THEN Dropped(out[il]) ELSE out[il]]
    /\ UNCHANGED <<batch, torn, tears, misfired>>

\* The next row is invalid and left out, or valid, appended and flushed.
WriteRow(w) ==
    /\ Writing(w)
    /\ \/ /\ out' = [out EXCEPT ![<<Current(w), lang[w]>>] = Dropped(@)]
          /\ UNCHANGED torn
       \/ /\ out' = [out EXCEPT ![<<Current(w), lang[w]>>] = Appended(w, @)]
          /\ torn' = torn \ {w}
    /\ lang' = [lang EXCEPT ![w] = @ + 1]
    /\ UNCHANGED <<pc, batch, tears, misfired>>

\* Fault: an exception ends the whole batch.
MisfireEndsBatch(w) ==
    /\ pc[w] = "generate" \/ Writing(w)
    /\ pc' = [pc EXCEPT ![w] = "post_failed"]
    /\ batch' = [batch EXCEPT ![w] = {Current(w)}]
    /\ lang' = [lang EXCEPT ![w] = 1]
    /\ misfired' = misfired \cup {Current(w)}
    /\ UNCHANGED shards

\* Fetching the source, the model or writing a row raises.
Misfire(w) ==
    /\ \/ pc[w] = "generate" /\ UNCHANGED shards
       \/ Writing(w) /\ ShardLeft(w)
    /\ pc' = [pc EXCEPT ![w] = "post_failed"]
    /\ lang' = [lang EXCEPT ![w] = 1]
    /\ misfired' = misfired \cup {Current(w)}
    /\ UNCHANGED batch

\* Fault: the report is sent when the last row is still to be written.
PostDoneEarly(w) ==
    /\ pc[w] = "write"
    /\ lang[w] >= NLangs
    /\ pc' = [pc EXCEPT ![w] = "post_done"]
    /\ lang' = [lang EXCEPT ![w] = 1]
    /\ UNCHANGED <<batch, shards, misfired>>

\* Every row is written: POST /complete "done" begins.
PostDone(w) ==
    /\ pc[w] = "write"
    /\ lang[w] = NLangs + 1
    /\ pc' = [pc EXCEPT ![w] = "post_done"]
    /\ lang' = [lang EXCEPT ![w] = 1]
    /\ UNCHANGED <<batch, shards, misfired>>

Posting(w) == pc[w] \in {"post_done", "post_failed"}

\* The status of the report under way.
Verdict(w) == IF pc[w] = "post_done" THEN "done" ELSE "failed"

\* Fault: the last item of a batch is taken up again.
AdvanceRepeatsLast(w) ==
    LET left == IF Cardinality(batch[w]) = 1 THEN batch[w] ELSE batch[w] \ {Current(w)} IN
    /\ batch' = [batch EXCEPT ![w] = left]
    /\ pc' = [pc EXCEPT ![w] = "generate"]

\* On to the next item of the batch, or to the next lease.
Advance(w) ==
    LET left == batch[w] \ {Current(w)} IN
    /\ batch' = [batch EXCEPT ![w] = left]
    /\ pc' = [pc EXCEPT ![w] = IF left = {} THEN "idle" ELSE "generate"]

\* The POST is answered; the status of the answer is not looked at.
Answered(w) ==
    /\ Posting(w)
    /\ Advance(w)
    /\ UNCHANGED <<lang, shards, misfired>>

\* The POST raises (timeout, connection refused or reset): the report "done"
\* is followed by one of failure, the report of failure is given up.
PostRaises(w) ==
    /\ \/ /\ pc[w] = "post_done"
          /\ pc' = [pc EXCEPT ![w] = "post_failed"]
          /\ UNCHANGED batch
       \/ /\ pc[w] = "post_failed"
          /\ Advance(w)
    /\ UNCHANGED <<lang, shards, misfired>>

\* Fault: the restarted worker still has its batch.
CrashKeepsBatch(w) ==
    /\ pc[w] # "gate"
    /\ pc' = [pc EXCEPT ![w] = "gate"]
    /\ lang' = [lang EXCEPT ![w] = 1]
    /\ UNCHANGED <<batch, shards, misfired>>

\* The process dies and its container is started again.
Crash(w) ==
    /\ pc[w] # "gate"
    /\ pc' = [pc EXCEPT ![w] = "gate"]
    /\ batch' = [batch EXCEPT ![w] = {}]
    /\ lang' = [lang EXCEPT ![w] = 1]
    /\ ShardLeft(w)
    /\ UNCHANGED misfired

\* The steps a worker takes by itself.
Internal(w) ==
    \/ PassGate(w)
    \/ Generated(w)
    \/ NoSpeech(w)
    \/ WriteRow(w)
    \/ Misfire(w)
    \/ PostDone(w)

\* A worker whose requests may meet any answer.
Next ==
    \E w \in Workers :
        \/ Internal(w)
        \/ \E leased \in SUBSET ItemIds : TakeBatch(w, leased)
        \/ Answered(w)
        \/ PostRaises(w)
        \/ Crash(w)

Spec == Init /\ [][Next]_vars

============================================================================
