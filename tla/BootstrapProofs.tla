-------------------------- MODULE BootstrapProofs --------------------------
(* Theorems about a node's bootstrap, for any number of attempts and faults.*)
EXTENDS Bootstrap, TLAPS

----------------------------------------------------------------------------
(* Type correctness. *)

LEMMA Bounds == 1 \in 1..MAX_ATTEMPTS /\ 0 \in 0..MaxFaults
  BY BootstrapAssumption

LEMMA TypeInit == Init => TypeOK
  BY Bounds DEF Init, TypeOK, Boots

LEMMA TypeStep == TypeOK /\ [Next]_vars => TypeOK'
<1> SUFFICES ASSUME TypeOK, [Next]_vars
             PROVE  TypeOK'
  OBVIOUS
<1> USE BootstrapAssumption, Bounds DEF TypeOK, Boots
<1>1. CASE Starts
  BY <1>1 DEF Starts
<1>2. CASE RemovesReady \/ Waits \/ LooksForTag \/ LooksForBase \/ MarksReady \/ TriesAgain
  BY <1>2 DEF RemovesReady, Waits, LooksForTag, LooksForBase, MarksReady, TriesAgain
<1>3. CASE Pulls \/ Creates
  BY <1>3 DEF Pulls, Creates
<1>4. CASE PostFails
  <2>1. attempt' \in 1..MAX_ATTEMPTS
    BY <1>4 DEF PostFails
  <2> QED
    BY <1>4, <2>1 DEF PostFails
<1>5. CASE ListUnread
  <2>1. unseen' \in BOOLEAN /\ boot' \in {"base", "pull"} /\ (boot' = "base" => attempt = 1)
    <3>1. CASE boot = "tag" /\ boot' = "base" /\ unseen' = TRUE
      BY <3>1
    <3>2. CASE boot = "base" /\ boot' = "pull" /\ unseen' = unseen
      BY <3>2, Zenon
    <3> QED
      BY <1>5, <3>1, <3>2 DEF ListUnread
  <2> QED
    BY <1>5, <2>1 DEF ListUnread, Fault
<1>6. CASE ServerExits
  BY <1>6 DEF ServerExits, Fault
<1>7. CASE BuiltByHand \/ ModelRemoved
  <2>1. unseen' \in BOOLEAN
    <3>1. CASE unseen' = (boot \in {"base", "pull", "create"})
      <4>1. (boot \in {"base", "pull", "create"}) \in BOOLEAN
        OBVIOUS
      <4> QED
        BY <3>1, <4>1, Zenon
    <3>2. CASE unseen' = unseen
      BY <3>2, Zenon
    <3> QED
      BY <1>7, <3>1, <3>2 DEF BuiltByHand, ModelRemoved
  <2> QED
    BY <1>7, <2>1 DEF BuiltByHand, ModelRemoved
<1>8. CASE WorkerSteps
  BY <1>8 DEF WorkerSteps, SeesServer, SeesModel, Leases, ComesBack, container
<1>9. CASE WorkerExits
  BY <1>9 DEF WorkerExits, Fault, container
<1>10. CASE UNCHANGED vars
  BY <1>10 DEF vars
<1> QED
  BY <1>1, <1>2, <1>3, <1>4, <1>5, <1>6, <1>7, <1>8, <1>9, <1>10 DEF Next, Bootstraps

\* The variables of a node keep their types.
THEOREM TypeCorrect == Spec => []TypeOK
  BY TypeInit, TypeStep, PTL DEF Spec

----------------------------------------------------------------------------
(* The ready file. *)

\* What the script knows where it is: it is about to write the ready file only
\* of a model that is there.
ReadyInv ==
    /\ TypeOK
    /\ ReadyIsTrue
    /\ boot = "mark" /\ ~removed => tag # "none"

LEMMA ReadyInit == Init => ReadyInv
  BY TypeInit DEF Init, ReadyInv, ReadyIsTrue

LEMMA ReadyStep == ReadyInv /\ [Next]_vars => ReadyInv'
<1> SUFFICES ASSUME ReadyInv, [Next]_vars
             PROVE  ReadyIsTrue' /\ (boot = "mark" /\ ~removed => tag # "none")'
  BY TypeStep DEF ReadyInv
<1> USE DEF ReadyInv, ReadyIsTrue
<1>1. CASE Starts
  BY <1>1 DEF Starts
<1>2. CASE RemovesReady \/ Waits \/ LooksForBase \/ MarksReady \/ TriesAgain
  BY <1>2 DEF RemovesReady, Waits, LooksForBase, MarksReady, TriesAgain
<1>3. CASE LooksForTag
  BY <1>3 DEF LooksForTag
<1>4. CASE Pulls \/ Creates
  BY <1>4 DEF Pulls, Creates
<1>5. CASE PostFails
  BY <1>5 DEF PostFails
<1>6. CASE ListUnread
  BY <1>6 DEF ListUnread
<1>7. CASE ServerExits
  BY <1>7 DEF ServerExits
<1>8. CASE BuiltByHand \/ ModelRemoved
  BY <1>8 DEF BuiltByHand, ModelRemoved
<1>9. CASE WorkerSteps \/ WorkerExits
  BY <1>9 DEF WorkerSteps, SeesServer, SeesModel, Leases, ComesBack, WorkerExits, container
<1>10. CASE UNCHANGED vars
  BY <1>10 DEF vars
<1> QED
  BY <1>1, <1>2, <1>3, <1>4, <1>5, <1>6, <1>7, <1>8, <1>9, <1>10 DEF Next, Bootstraps

\* While nobody removes the model, a container that looks healthy has it,
\* however often its bootstrap failed, was repeated or cut short.
THEOREM ReadyCorrect == Spec => []ReadyIsTrue
<1>1. ReadyInv => ReadyIsTrue
  BY DEF ReadyInv
<1> QED
  BY <1>1, ReadyInit, ReadyStep, PTL DEF Spec

----------------------------------------------------------------------------
(* Models built by hand. *)

\* With a hand-built model there that it could see, the script does not get past
\* looking for it.
HandInv ==
    tag = "hand" /\ ~unseen => boot \notin {"base", "pull", "create"}

LEMMA HandInit == Init => HandInv
  BY DEF Init, HandInv

LEMMA HandStep == HandInv /\ [Next]_vars => HandInv'
<1> SUFFICES ASSUME HandInv, [Next]_vars
             PROVE  HandInv'
  OBVIOUS
<1> USE DEF HandInv
<1>1. CASE Starts \/ ServerExits \/ BuiltByHand \/ ModelRemoved \/ ListUnread
  BY <1>1 DEF Starts, ServerExits, BuiltByHand, ModelRemoved, ListUnread
<1>2. CASE RemovesReady \/ Waits \/ LooksForTag \/ LooksForBase \/ MarksReady \/ TriesAgain
  BY <1>2 DEF RemovesReady, Waits, LooksForTag, LooksForBase, MarksReady, TriesAgain
<1>3. CASE Pulls \/ Creates \/ PostFails
  BY <1>3 DEF Pulls, Creates, PostFails
<1>4. CASE WorkerSteps \/ WorkerExits
  BY <1>4 DEF WorkerSteps, SeesServer, SeesModel, Leases, ComesBack, WorkerExits, container
<1>5. CASE UNCHANGED vars
  BY <1>5 DEF vars
<1> QED
  BY <1>1, <1>2, <1>3, <1>4, <1>5 DEF Next, Bootstraps

\* A model built by hand that was there when the bootstrap looked for it, in a
\* list it could read, is never replaced, whenever it was built, whatever fails
\* and however often the bootstrap is run or cut short (have_model, and
\* post_with_retry's create).
THEOREM HandBuiltCorrect == Spec => HandBuiltKept
<1>1. HandInv /\ [Next]_vars => [tag = "hand" /\ ~unseen => tag' # "built"]_vars
  <2> SUFFICES ASSUME HandInv, Next, tag = "hand", ~unseen
               PROVE  tag' # "built"
    BY DEF HandInv
  <2> USE DEF HandInv
  <2>1. CASE Starts \/ ServerExits \/ BuiltByHand \/ ModelRemoved \/ ListUnread
    BY <2>1 DEF Starts, ServerExits, BuiltByHand, ModelRemoved, ListUnread
  <2>2. CASE Bootstraps
    BY <2>2 DEF Bootstraps, RemovesReady, Waits, LooksForTag, LooksForBase, MarksReady,
                TriesAgain, Pulls, Creates, PostFails
  <2>3. CASE WorkerSteps \/ WorkerExits
    BY <2>3 DEF WorkerSteps, SeesServer, SeesModel, Leases, ComesBack, WorkerExits, container
  <2> QED
    BY <2>1, <2>2, <2>3 DEF Next
<1> QED
  BY <1>1, HandInit, HandStep, PTL DEF Spec, HandBuiltKept

============================================================================
