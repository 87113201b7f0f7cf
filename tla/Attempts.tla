------------------------------ MODULE Attempts ------------------------------
(***************************************************************************)
(* What the worker loop takes for granted of a processor (worker.py, lines *)
(* 122 to 211): an attempt comes to an end; it has a row of every language *)
(* when it returns rows, and none when nothing is said in the recording;   *)
(* at any time it may raise or be killed.  Worker builds on this, and      *)
(* Processing implements it.                                               *)
(***************************************************************************)
EXTENDS Integers

CONSTANTS Workers, NLangs

VARIABLES
    busy,       \* whether a worker is at an item
    answered,   \* how many languages the model has answered in
    returned,   \* what the last attempt returned
    silent      \* whether there is a recording without speech

vars == <<busy, answered, returned, silent>>

Init ==
    /\ busy = [w \in Workers |-> FALSE]
    /\ answered = [w \in Workers |-> 0]
    /\ returned = [w \in Workers |-> "none"]
    /\ silent \in BOOLEAN

Ends(w, what) ==
    /\ busy' = [busy EXCEPT ![w] = FALSE]
    /\ returned' = [returned EXCEPT ![w] = what]

Begin(w) ==
    /\ ~busy[w]
    /\ busy' = [busy EXCEPT ![w] = TRUE]
    /\ answered' = [answered EXCEPT ![w] = 0]
    /\ returned' = [returned EXCEPT ![w] = "none"]
    /\ UNCHANGED silent

\* One language more; the last one ends the attempt.
Answer(w) ==
    /\ busy[w]
    /\ answered[w] < NLangs
    /\ answered' = [answered EXCEPT ![w] = @ + 1]
    /\ IF answered'[w] = NLangs THEN Ends(w, "rows") ELSE UNCHANGED <<busy, returned>>
    /\ UNCHANGED silent

Hush(w) ==
    /\ busy[w]
    /\ silent
    /\ answered[w] = 0
    /\ Ends(w, "no_rows")
    /\ UNCHANGED <<answered, silent>>

Raise(w) ==
    /\ busy[w]
    /\ Ends(w, "raised")
    /\ UNCHANGED <<answered, silent>>

Kill(w) ==
    /\ busy[w]
    /\ busy' = [busy EXCEPT ![w] = FALSE]
    /\ answered' = [answered EXCEPT ![w] = 0]
    /\ UNCHANGED <<returned, silent>>

Step(w) == Answer(w) \/ Hush(w) \/ Raise(w)

Next == \E w \in Workers : Begin(w) \/ Step(w) \/ Kill(w)

Spec == Init /\ [][Next]_vars /\ \A w \in Workers : WF_vars(Step(w))

============================================================================
