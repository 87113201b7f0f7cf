----------------------------- MODULE Processing -----------------------------
(***************************************************************************)
(* An attempt at one item in detail: what Worker takes as the one step from*)
(* "generate" to a list of rows (Generated), to none (NoSpeech) or to an   *)
(* exception (Misfire).  The processors of worker.py fetch the source into *)
(* a temporary file, read it, and ask the model once per language; a       *)
(* recording is transcribed first (asr.py), through a cache on disk that   *)
(* the workers share when /data_prepare is an NFS mount and have for       *)
(* themselves otherwise.  ollama_client.py asks again when a request fails *)
(* or an answer is no JSON.                                                *)
(*                                                                         *)
(* There is one item of each modality, so that an item is its modality.    *)
(* Two workers may be at the same item: its lease may have run out.        *)
(***************************************************************************)
EXTENDS Integers, FiniteSets

CONSTANTS
    Workers,
    Modalities,     \* a subset of {"text", "image", "audio"}
    NLangs,         \* languages.targets
    MAX_RETRIES,    \* ollama.max_retries
    BACKOFF,        \* ollama.retry_backoff_s
    MaxFaults       \* bound: kills and failed writes

ASSUME ProcessingAssumption ==
    /\ Modalities \subseteq {"text", "image", "audio"}
    /\ NLangs \in Nat \ {0}
    /\ MAX_RETRIES \in Nat \ {0}
    /\ BACKOFF \in Nat
    /\ MaxFaults \in Nat

VARIABLES
    at,             \* what each worker is doing, and how its last attempt ended
    temps,          \* how many temporary files there are on each worker's node
    transcript,     \* the recording's file in the cache: "absent", "torn", "whole"
    speech,         \* whether anything is said in the recording
    transcribed,    \* history: how often it was transcribed
    faults          \* how many kills and failed writes there were

vars == <<at, temps, transcript, speech, transcribed, faults>>

Idle == [step |-> "idle", item |-> "none", outcome |-> "none", lang |-> 1,
         attempt |-> 1, messages |-> 1, missing |-> 0, calls |-> 0, paused |-> 0]

\* The steps at which a worker has a temporary file.
Holding == {"read", "look_up", "hear", "open_cache", "fill_cache"}

Attempt ==
    [step     : Holding \cup {"idle", "fetch", "ask"},
     item     : Modalities \cup {"none"},
     outcome  : {"none", "rows", "no_rows", "raised", "bad_cache", "exhausted", "not_found"},
     lang     : 1..NLangs,
     attempt  : 1..MAX_RETRIES,     \* of the generation under way
     messages : Nat,                \* in its conversation
     missing  : Nat,                \* requests that met no model
     calls    : Nat,                \* requests that have ended
     paused   : Nat]                \* seconds slept between them

TypeOK ==
    /\ at \in [Workers -> Attempt]
    /\ temps \in [Workers -> Nat]
    /\ transcript \in {"absent", "torn", "whole"}
    /\ speech \in BOOLEAN
    /\ transcribed \in Nat
    /\ faults \in 0..MaxFaults
    /\ \A w \in Workers :
        /\ at[w].step \in Holding => temps[w] > 0
        /\ at[w].step \in Holding \ {"read"} => at[w].item = "audio"

Init ==
    /\ at = [w \in Workers |-> Idle]
    /\ temps = [w \in Workers |-> 0]
    /\ transcript = "absent"
    /\ speech \in BOOLEAN
    /\ transcribed = 0
    /\ faults = 0

Fault ==
    /\ faults < MaxFaults
    /\ faults' = faults + 1

Goes(w, step) == at' = [at EXCEPT ![w].step = step]

Ends(w, outcome) == at' = [at EXCEPT ![w].step = "idle", ![w].outcome = outcome]

\* The finally clause.
Unlinks(w) == temps' = [temps EXCEPT ![w] = @ - 1]

----------------------------------------------------------------------------
(* The source. *)

Begins(w, item) ==
    /\ at[w].step = "idle"
    /\ at' = [at EXCEPT ![w] = [Idle EXCEPT !.step = "fetch", !.item = item]]
    /\ UNCHANGED <<temps, transcript, speech, transcribed, faults>>

\* The file is downloaded and written to a temporary file.
Fetches(w) ==
    /\ at[w].step = "fetch"
    /\ temps' = [temps EXCEPT ![w] = @ + 1]
    /\ Goes(w, "read")
    /\ UNCHANGED <<transcript, speech, transcribed, faults>>

\* GET /file raises, or writing what it returned does: then the temporary file
\* stays, as nobody knows its path any more.
FetchRaises(w) ==
    /\ at[w].step = "fetch"
    /\ \/ UNCHANGED <<temps, faults>>
       \/ temps' = [temps EXCEPT ![w] = @ + 1] /\ Fault
    /\ Ends(w, "raised")
    /\ UNCHANGED <<transcript, speech, transcribed>>

\* The first request of generate_item.
Asking(r, lang) ==
    [r EXCEPT !.step = "ask", !.lang = lang, !.attempt = 1, !.messages = 1,
              !.missing = 0, !.calls = 0, !.paused = 0]

\* The text is read and its chunk is there, or the image is encoded.
Reads(w) ==
    /\ at[w].step = "read"
    /\ IF at[w].item = "audio"
       THEN Goes(w, "look_up") /\ UNCHANGED temps
       ELSE at' = [at EXCEPT ![w] = Asking(@, 1)] /\ Unlinks(w)
    /\ UNCHANGED <<transcript, speech, transcribed, faults>>

\* Fault: the file is removed after it was read, but not in a finally clause.
ReadRaisesLeaks(w) ==
    /\ at[w].step = "read"
    /\ at[w].item # "audio"
    /\ Ends(w, "raised")
    /\ UNCHANGED <<temps, transcript, speech, transcribed, faults>>

\* It cannot be read or decoded, or has fewer chunks than when it was scanned.
ReadRaises(w) ==
    /\ at[w].step = "read"
    /\ at[w].item # "audio"
    /\ Unlinks(w)
    /\ Ends(w, "raised")
    /\ UNCHANGED <<transcript, speech, transcribed, faults>>

----------------------------------------------------------------------------
(* Transcription. *)

\* There is a transcript: on to the model, unless nothing was said.
Heard(w) ==
    /\ Unlinks(w)
    /\ IF speech THEN at' = [at EXCEPT ![w] = Asking(@, 1)] ELSE Ends(w, "no_rows")

\* Fault: transcripts are not found again.
LooksUpInVain(w) ==
    /\ at[w].step = "look_up"
    /\ Goes(w, "hear")
    /\ UNCHANGED <<temps, transcript, speech, transcribed, faults>>

\* The cache is looked at; a file that is not a whole one does not parse.
LooksUp(w) ==
    /\ at[w].step = "look_up"
    /\ \/ transcript = "absent" /\ Goes(w, "hear") /\ UNCHANGED temps
       \/ transcript = "whole" /\ Heard(w)
       \/ transcript = "torn" /\ Ends(w, "bad_cache") /\ Unlinks(w)
    /\ UNCHANGED <<transcript, speech, transcribed, faults>>

Transcribes(w) ==
    /\ at[w].step = "hear"
    /\ Goes(w, "open_cache")
    /\ transcribed' = transcribed + 1
    /\ UNCHANGED <<temps, transcript, speech, faults>>

\* The recording cannot be decoded, or the speech model not be loaded.
TranscribeRaises(w) ==
    /\ at[w].step = "hear"
    /\ Unlinks(w)
    /\ Ends(w, "raised")
    /\ UNCHANGED <<transcript, speech, transcribed, faults>>

\* The transcript's file is created, or emptied.
OpensCache(w) ==
    /\ at[w].step = "open_cache"
    /\ Goes(w, "fill_cache")
    /\ transcript' = "torn"
    /\ UNCHANGED <<temps, speech, transcribed, faults>>

\* It is written.  Another worker that writes it writes the same.
FillsCache(w) ==
    /\ at[w].step = "fill_cache"
    /\ transcript' = "whole"
    /\ Heard(w)
    /\ UNCHANGED <<speech, transcribed, faults>>

\* Its directory cannot be made, or the file not be opened or written: the disk
\* is full, or the mount is gone.
CacheRaises(w) ==
    /\ at[w].step \in {"look_up", "open_cache", "fill_cache"}
    /\ Fault
    /\ Unlinks(w)
    /\ Ends(w, "raised")
    /\ UNCHANGED <<transcript, speech, transcribed>>

----------------------------------------------------------------------------
(* The model. *)

\* What a worker has done when a request has ended, and after s seconds of sleep.
Asked(w) == [at[w] EXCEPT !.calls = @ + 1]

Slept(r, s) == [r EXCEPT !.paused = @ + s]

\* The next request of the loop; after the last one the loop is left.
Again(r) ==
    IF r.attempt < MAX_RETRIES THEN [r EXCEPT !.attempt = @ + 1]
    ELSE [r EXCEPT !.step = "idle", !.outcome = "exhausted"]

Asks(w) ==
    /\ at[w].step = "ask"
    /\ UNCHANGED <<temps, transcript, speech, transcribed, faults>>

\* Fault: there is one language more.
AnswersOneMore(w) ==
    /\ Asks(w)
    /\ at' = [at EXCEPT ![w] =
          IF at[w].lang <= NLangs THEN Asking(@, at[w].lang + 1)
          ELSE [Asked(w) EXCEPT !.step = "idle", !.outcome = "rows"]]

\* Fault: the conversation of a language goes on from that of the one before.
AnswersGoOn(w) ==
    /\ Asks(w)
    /\ at' = [at EXCEPT ![w] =
          IF at[w].lang < NLangs
          THEN [Asking(@, at[w].lang + 1) EXCEPT !.messages = at[w].messages]
          ELSE [Asked(w) EXCEPT !.step = "idle", !.outcome = "rows"]]

\* The answer is JSON: on to the next language.
Answers(w) ==
    /\ Asks(w)
    /\ at' = [at EXCEPT ![w] =
          IF at[w].lang < NLangs THEN Asking(@, at[w].lang + 1)
          ELSE [Asked(w) EXCEPT !.step = "idle", !.outcome = "rows"]]

\* Fault: the last attempt is not made.
AnswersBadlyGivesUp(w) ==
    /\ Asks(w)
    /\ at' = [at EXCEPT ![w] =
          IF at[w].attempt + 1 < MAX_RETRIES THEN Again([Asked(w) EXCEPT !.messages = @ + 2])
          ELSE [Asked(w) EXCEPT !.step = "idle", !.outcome = "exhausted"]]

\* It is not: the model is shown its answer and asked to correct it at once.
\* The last time a GenerationError is raised, and caught by the same try.
AnswersBadly(w) ==
    /\ Asks(w)
    /\ at' = [at EXCEPT ![w] =
          Again(IF at[w].attempt < MAX_RETRIES THEN [Asked(w) EXCEPT !.messages = @ + 2]
                ELSE Asked(w))]

\* Fault: a model that is not found is waited for.
NotFoundStartsOver(w) ==
    /\ Asks(w)
    /\ at' = [at EXCEPT ![w] =
          IF at[w].attempt = 1 THEN Again(Slept(Asked(w), BACKOFF)) ELSE Asking(@, at[w].lang)]

\* HTTP 404: after the first request there is a pause, if it was the last one
\* too, and the loop goes on; after any other a ModelNotFoundError.
NotFound(w) ==
    /\ Asks(w)
    /\ LET r == [Asked(w) EXCEPT !.missing = @ + 1] IN
          at' = [at EXCEPT ![w] =
              IF r.attempt = 1 THEN Again(Slept(r, BACKOFF))
              ELSE [r EXCEPT !.step = "idle", !.outcome = "not_found"]]

\* Fault: there is a pause after the last request too.
AskRaisesPauses(w) ==
    /\ Asks(w)
    /\ at' = [at EXCEPT ![w] = Again(Slept(Asked(w), BACKOFF * at[w].attempt))]

\* Any other status, no connection, a timeout, or a body that is no JSON: but
\* for the last time there is a longer pause after each request.
AskRaises(w) ==
    /\ Asks(w)
    /\ at' = [at EXCEPT ![w] =
          Again(IF at[w].attempt < MAX_RETRIES THEN Slept(Asked(w), BACKOFF * at[w].attempt)
                ELSE Asked(w))]

\* JSON of another shape: an exception that nobody catches but the loop over
\* the items.
AnswersOddly(w) ==
    /\ Asks(w)
    /\ at' = [at EXCEPT ![w] = [Asked(w) EXCEPT !.step = "idle", !.outcome = "raised"]]

----------------------------------------------------------------------------
\* The worker is killed and started again.  Its temporary file stays.
Killed(w) ==
    /\ at[w].step # "idle"
    /\ Fault
    /\ at' = [at EXCEPT ![w] = Idle]
    /\ UNCHANGED <<temps, transcript, speech, transcribed>>

\* The steps of an attempt.
Step(w) ==
    \/ Fetches(w)
    \/ FetchRaises(w)
    \/ Reads(w)
    \/ ReadRaises(w)
    \/ LooksUp(w)
    \/ Transcribes(w)
    \/ TranscribeRaises(w)
    \/ OpensCache(w)
    \/ FillsCache(w)
    \/ CacheRaises(w)
    \/ Answers(w)
    \/ AnswersBadly(w)
    \/ NotFound(w)
    \/ AskRaises(w)
    \/ AnswersOddly(w)

Next ==
    \E w \in Workers :
        \/ \E item \in Modalities : Begins(w, item)
        \/ Step(w)
        \/ Killed(w)

Spec == Init /\ [][Next]_vars

\* An attempt goes on: each of its calls has a timeout, or computes.
FairSpec == Spec /\ \A w \in Workers : WF_vars(Step(w))

----------------------------------------------------------------------------
(* Safety. *)

\* A generation is a conversation of its own: what is wrong with the answers in
\* one language is never held against the next, nor said twice.
FreshConversation == \A w \in Workers : at[w].messages <= 2 * at[w].attempt - 1

\* A generation that is given up as exhausted has had all its requests, and
\* one that is given up for a missing model two of them, whichever errors they
\* met before: the ways out of the loop do not mix up their counts.
NotGivenUpEarly ==
    \A w \in Workers :
        /\ at[w].outcome = "exhausted" => at[w].calls = MAX_RETRIES
        /\ at[w].outcome = "not_found" => at[w].calls >= 2

\* ollama_client.py, lines 25 to 29: it is pointless to retry a missing model
\* with all of the budget; it is met twice at most.
NudgedOnce == \A w \in Workers : at[w].missing <= 2

\* A generation is over after MAX_RETRIES requests, and sleeps no longer than the
\* pauses between them, of 1, 2, ... MAX_RETRIES - 1 times BACKOFF, whichever
\* errors came in which order: 15 s with the values of pipeline.yaml.  But a
\* single request that meets no model is followed by a pause all the same.
RetriesBounded ==
    \A w \in Workers :
        /\ at[w].calls <= MAX_RETRIES
        /\ 2 * at[w].paused <=
              BACKOFF * (IF MAX_RETRIES = 1 THEN 2 ELSE MAX_RETRIES * (MAX_RETRIES - 1))

\* The temporary files of all nodes, numbered on each of them.
TempFiles == UNION {{w} \X (1..temps[w]) : w \in Workers}

\* A temporary file is removed whichever step raises: those that stay are of
\* kills and of downloads that could not be written.
TempsBounded ==
    Cardinality(TempFiles) <= faults + Cardinality({w \in Workers : at[w].step \in Holding})

\* asr.py, lines 1 to 8: a recording is transcribed once.  So it is, but for
\* workers that are at it at the same time, kills and full disks: however often
\* it is attempted, each of them transcribes it once.
TranscribedOnce == transcribed <= Cardinality(Workers) + faults

----------------------------------------------------------------------------
(* Liveness. *)

\* Every attempt comes to an end, whatever the model answers: the report of
\* the item is sent sooner or later.
AttemptEnds == \A w \in Workers : at[w].step # "idle" ~> at[w].step = "idle"

A == INSTANCE Attempts WITH
        busy <- [w \in Workers |-> at[w].step # "idle"],
        answered <- [w \in Workers |->
                        IF at[w].outcome = "rows" THEN at[w].lang ELSE at[w].lang - 1],
        returned <- [w \in Workers |->
                        IF at[w].outcome \in {"none", "rows", "no_rows"} THEN at[w].outcome
                        ELSE "raised"],
        silent <- ~speech

\* A processor does what the worker loop takes for granted of it.
ImplementsAttempts == A!Spec

----------------------------------------------------------------------------
(* What the repository says and the code does not do. *)

\* asr.py, lines 1 to 3: transcribed once, cached, and then on the same path as
\* a text: a transcript nobody is writing can be used.
CachedIsWhole ==
    (\A w \in Workers : at[w].step # "fill_cache") => transcript # "torn"

\* ollama_client.py, lines 103 and 104: a missing model gets one nudge, so it is
\* met twice before the item fails for it.
Nudged == \A w \in Workers : at[w].outcome = "not_found" => at[w].missing = 2

============================================================================
