----------------------------- MODULE Bootstrap ------------------------------
(***************************************************************************)
(* One node: the ollama container, which builds its model when it starts   *)
(* (ollama/entrypoint.sh, ollama/bootstrap_muse_glimmer.sh), and the worker*)
(* that waits for the model before it leases (worker.py, lines 228 to 252).*)
(*                                                                         *)
(* The two have no file in common: the worker asks the model server, and   *)
(* the ready file the bootstrap leaves is for the container's health check *)
(* alone.  Models survive the container.  Somebody may build the model by  *)
(* hand, before the container is first started or at any time after.  A    *)
(* model is known by one name everywhere.                                  *)
(***************************************************************************)
EXTENDS Integers

CONSTANTS
    MAX_ATTEMPTS,   \* BOOTSTRAP_MAX_ATTEMPTS
    MayRemove,      \* whether somebody may remove the model
    MaxFaults       \* bound: exits of the server or the worker, lost answers

ASSUME BootstrapAssumption ==
    /\ MAX_ATTEMPTS \in Nat \ {0}
    /\ MayRemove \in BOOLEAN
    /\ MaxFaults \in Nat

VARIABLES
    boot,       \* what entrypoint.sh and the bootstrap are doing
    attempt,    \* which attempt of post_with_retry
    base,       \* whether the base model is there
    tag,        \* the model the workers use: "none", "built", or "hand" built
    ready,      \* the ready file
    gate,       \* what the worker is doing
    faults,     \* how many faults there were
    unseen,     \* history: a model built by hand was not in the list of models, or
                \*   the list was not read, when the bootstrap last looked for it
    removed     \* history: the model was removed

vars == <<boot, attempt, base, tag, ready, gate, faults, unseen, removed>>

container == <<boot, attempt, base, tag, ready, unseen, removed>>

Boots == {"remove", "wait", "tag", "base", "pull", "create", "mark", "sleep", "end"}

Up == boot # "down"

TypeOK ==
    /\ boot \in Boots \cup {"down"}
    /\ attempt \in 1..MAX_ATTEMPTS
    /\ boot \notin {"pull", "create"} => attempt = 1
    /\ base \in BOOLEAN
    /\ tag \in {"none", "built", "hand"}
    /\ ready \in BOOLEAN
    /\ gate \in {"health", "model", "idle", "work"}
    /\ faults \in 0..MaxFaults
    /\ unseen \in BOOLEAN
    /\ removed \in BOOLEAN

Init ==
    /\ boot = "down"
    /\ attempt = 1
    /\ base \in BOOLEAN
    /\ tag \in {"none", "hand"}
    /\ ready = FALSE
    /\ gate = "health"
    /\ faults = 0
    /\ unseen = FALSE
    /\ removed = FALSE

Fault ==
    /\ faults < MaxFaults
    /\ faults' = faults + 1

----------------------------------------------------------------------------
(* The container. *)

\* The server is started, and then the loop around the bootstrap.
Starts ==
    /\ boot = "down"
    /\ boot' = "remove"
    /\ UNCHANGED <<attempt, base, tag, ready, gate, faults, unseen, removed>>

\* The loop begins without a ready file.
RemovesReady ==
    /\ boot = "remove"
    /\ ready' = FALSE
    /\ boot' = "wait"
    /\ UNCHANGED <<attempt, base, tag, gate, faults, unseen, removed>>

\* The server answers, or has not answered for two minutes.
Waits ==
    /\ boot = "wait"
    /\ boot' \in {"tag", "sleep"}
    /\ UNCHANGED <<attempt, base, tag, ready, gate, faults, unseen, removed>>

\* Fault: the bootstrap does not look for the model it is to build.
LooksForBaseOnly ==
    /\ boot = "tag"
    /\ boot' = "base"
    /\ unseen' = FALSE
    /\ UNCHANGED <<attempt, base, tag, ready, gate, faults, removed>>

\* have_model TAG.
LooksForTag ==
    /\ boot = "tag"
    /\ boot' = IF tag = "none" THEN "base" ELSE "mark"
    /\ unseen' = FALSE
    /\ UNCHANGED <<attempt, base, tag, ready, gate, faults, removed>>

\* have_model BASE_MODEL.
LooksForBase ==
    /\ boot = "base"
    /\ boot' = IF base THEN "create" ELSE "pull"
    /\ UNCHANGED <<attempt, base, tag, ready, gate, faults, unseen, removed>>

\* A list of models that cannot be read is one without the model.
ListUnread ==
    /\ Fault
    /\ \/ boot = "tag" /\ boot' = "base" /\ unseen' = TRUE
       \/ boot = "base" /\ boot' = "pull" /\ UNCHANGED unseen
    /\ UNCHANGED <<attempt, base, tag, ready, gate, removed>>

Pulls ==
    /\ boot = "pull"
    /\ base' = TRUE
    /\ boot' = "create"
    /\ attempt' = 1
    /\ UNCHANGED <<tag, ready, gate, faults, unseen, removed>>

\* The model is built from the base model, over one of the same name.
Creates ==
    /\ boot = "create"
    /\ base
    /\ tag' = "built"
    /\ boot' = "mark"
    /\ attempt' = 1
    /\ UNCHANGED <<base, ready, gate, faults, unseen, removed>>

\* Fault: after the last attempt the script goes on.
PostFailsGoesOn ==
    /\ boot \in {"pull", "create"}
    /\ \/ UNCHANGED <<base, tag>>
       \/ boot = "pull" /\ base' = TRUE /\ UNCHANGED tag
       \/ boot = "create" /\ base /\ tag' = "built" /\ UNCHANGED base
    /\ IF attempt < MAX_ATTEMPTS
       THEN attempt' = attempt + 1 /\ UNCHANGED boot
       ELSE attempt' = 1 /\ boot' = IF boot = "pull" THEN "create" ELSE "mark"
    /\ UNCHANGED <<ready, gate, faults, unseen, removed>>

\* POST /api/pull or /api/create is answered with an error, or it was done and
\* its answer is lost; after the last attempt the script exits.
PostFails ==
    /\ boot \in {"pull", "create"}
    /\ \/ UNCHANGED <<base, tag>>
       \/ boot = "pull" /\ base' = TRUE /\ UNCHANGED tag
       \/ boot = "create" /\ base /\ tag' = "built" /\ UNCHANGED base
    /\ IF attempt < MAX_ATTEMPTS
       THEN attempt' = attempt + 1 /\ UNCHANGED boot
       ELSE attempt' = 1 /\ boot' = "sleep"
    /\ UNCHANGED <<ready, gate, faults, unseen, removed>>

MarksReady ==
    /\ boot = "mark"
    /\ ready' = TRUE
    /\ boot' = "end"
    /\ UNCHANGED <<attempt, base, tag, gate, faults, unseen, removed>>

\* Fault: the bootstrap is not repeated.
GivesUp ==
    /\ boot = "sleep"
    /\ boot' = "end"
    /\ UNCHANGED <<attempt, base, tag, ready, gate, faults, unseen, removed>>

\* BOOTSTRAP_RETRY_INTERVAL_S later.
TriesAgain ==
    /\ boot = "sleep"
    /\ boot' = "wait"
    /\ UNCHANGED <<attempt, base, tag, ready, gate, faults, unseen, removed>>

\* The server exits and the container with it; both its disk and the models
\* are there when it is started again.
ServerExits ==
    /\ Up
    /\ Fault
    /\ boot' = "down"
    /\ attempt' = 1
    /\ UNCHANGED <<base, tag, ready, gate, unseen, removed>>

\* Somebody builds the model by hand, over one of the same name.
BuiltByHand ==
    /\ Up
    /\ tag # "hand"
    /\ tag' = "hand"
    /\ unseen' = (boot \in {"base", "pull", "create"})
    /\ UNCHANGED <<boot, attempt, base, ready, gate, faults, removed>>

ModelRemoved ==
    /\ MayRemove
    /\ Up
    /\ tag # "none"
    /\ tag' = "none"
    /\ removed' = TRUE
    /\ UNCHANGED <<boot, attempt, base, ready, gate, faults, unseen>>

----------------------------------------------------------------------------
(* The worker. *)

\* health() is true.
SeesServer ==
    /\ gate = "health"
    /\ Up
    /\ gate' = "model"
    /\ UNCHANGED <<container, faults>>

\* model_ready() is true.
SeesModel ==
    /\ gate = "model"
    /\ Up
    /\ tag # "none"
    /\ gate' = "idle"
    /\ UNCHANGED <<container, faults>>

\* The worker leases a batch; it comes back for the next whether the items
\* went well or not.
Leases ==
    /\ gate = "idle"
    /\ gate' = "work"
    /\ UNCHANGED <<container, faults>>

ComesBack ==
    /\ gate = "work"
    /\ gate' = "idle"
    /\ UNCHANGED <<container, faults>>

WorkerExits ==
    /\ gate # "health"
    /\ Fault
    /\ gate' = "health"
    /\ UNCHANGED container

----------------------------------------------------------------------------
Bootstraps ==
    \/ RemovesReady
    \/ Waits
    \/ LooksForTag
    \/ LooksForBase
    \/ Pulls
    \/ Creates
    \/ PostFails
    \/ MarksReady
    \/ TriesAgain

WorkerSteps == SeesServer \/ SeesModel \/ Leases \/ ComesBack

Next ==
    \/ Starts
    \/ Bootstraps
    \/ ListUnread
    \/ ServerExits
    \/ BuiltByHand
    \/ ModelRemoved
    \/ WorkerSteps
    \/ WorkerExits

Spec == Init /\ [][Next]_vars

\* Containers are started again, the scripts and the worker's polling go on.
\* That what is asked for again and again is not refused for ever is what
\* "transient" means: the server answers, the registry and the disk are there.
Fairness ==
    /\ WF_vars(Starts)
    /\ WF_vars(Bootstraps)
    /\ WF_vars(WorkerSteps)
    /\ SF_vars(boot = "wait" /\ boot' = "tag" /\ Waits)
    /\ SF_vars(Pulls)
    /\ SF_vars(Creates)

FairSpec == Spec /\ Fairness

----------------------------------------------------------------------------
(* Safety. *)

\* The ready file stands for a model that was there when it was written,
\* whatever failed and however often the script was run: while nobody removes
\* the model, a container that looks healthy has it.
ReadyIsTrue == ready /\ ~removed => tag # "none"

\* bootstrap_muse_glimmer.sh, lines 5 to 7: a model built by hand is never
\* clobbered, whatever failed and however often the script was run, if it was
\* there when the script looked for it and the list of models could be read.  It
\* is not looked for again before it is created, after a pull of hours: one that
\* was built in between is replaced.
HandBuiltKept == [][tag = "hand" /\ ~unseen => tag' # "built"]_vars

(* Liveness. *)

\* A node comes to lease sooner or later, whatever transient failures its
\* bootstrap meets, unless somebody removes its model.
GateOpens == (gate \in {"health", "model"}) ~> (gate = "idle" \/ removed)

----------------------------------------------------------------------------
(* What the repository says and the code does not do. *)

\* bootstrap_muse_glimmer.sh, lines 5 to 7, without the proviso.
NeverClobbered == [][tag = "hand" => tag' # "built"]_vars

\* worker.py, lines 236 and 237, and RUN_COMMANDS.md, lines 103 to 106: a
\* broken node never leases work.
BrokenNodeIdles == [][Leases => Up /\ tag # "none"]_vars

\* entrypoint.sh, lines 9 to 12: a broken node is visibly unhealthy until it is
\* mended.
HealthyHasModel == ready => tag # "none"

============================================================================
