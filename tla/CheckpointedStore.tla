------------------------- MODULE CheckpointedStore -------------------------
(***************************************************************************)
(* What the coordinator promises to its clients about progress, without    *)
(* leases, timers, flags or counters: a table of outcomes in memory that   *)
(* is now and then copied, whole, to disk.                                 *)
(*                                                                         *)
(*   - an outcome changes only by recording one item's report;             *)
(*   - an item, once known to the running process, stays known;            *)
(*   - the disk only ever receives the complete table of that moment;      *)
(*   - a process that comes up has every outcome the disk has, unchanged,  *)
(*     and beyond that only new items.                                     *)
(*                                                                         *)
(* It does not promise that what is recorded is on disk: Stop may lose it. *)
(***************************************************************************)
CONSTANTS
    Items,
    Outcomes,   \* what the table can hold for a known item
    New,        \* the outcome of an item nothing was reported of
    Unknown     \* no entry, not one of Outcomes

VARIABLES up, mem, disk

vars == <<up, mem, disk>>

Empty == [i \in Items |-> Unknown]

Known(table) == {i \in Items : table[i] # Unknown}

\* The table with some more items in it, all of them new.
Extends(larger, table) ==
    \A i \in Items :
        \/ larger[i] = table[i]
        \/ table[i] = Unknown /\ larger[i] = New

\* A step that ends with `mem` complete may have copied it to disk.
MaySave == disk' = disk \/ disk' = mem'

Init ==
    /\ up = FALSE
    /\ mem = Empty
    /\ disk = Empty

Record(i) ==
    /\ up
    /\ i \in Known(mem)
    /\ mem'[i] \in Outcomes
    /\ mem' = [mem EXCEPT ![i] = mem'[i]]
    /\ MaySave
    /\ UNCHANGED up

Discover ==
    /\ up
    /\ Extends(mem', mem)
    /\ MaySave
    /\ UNCHANGED up

Checkpoint ==
    /\ up
    /\ disk' = mem
    /\ UNCHANGED <<up, mem>>

Stop ==
    /\ up
    /\ up' = FALSE
    /\ mem' = Empty
    /\ disk' = disk \/ disk' = mem

Recover ==
    /\ ~up
    /\ up' = TRUE
    /\ Extends(mem', disk)
    /\ MaySave

Next ==
    \/ \E i \in Items : Record(i)
    \/ Discover
    \/ Checkpoint
    \/ Stop
    \/ Recover

Spec == Init /\ [][Next]_vars

============================================================================
