--------------------------- MODULE MrpTopologyChange ---------------------------
(* What a ring manager promises about its topology change announcements:  *)
(* a burst starts only when none is running, announces the change          *)
(* MaxRepeat times (the first TOPOLOGYCHANGE at once, then one per repeat),  *)
(* and ends by flushing the local FDB, unless the burst is cancelled.      *)
(* Immediate topology changes (interval 0) flush at once and are not a     *)
(* burst; this module does not see them.                                   *)
EXTENDS Naturals

CONSTANT MaxRepeat       \* topologyChangeMaxRepeatCount

ASSUME MaxRepeat \in Nat \ {0}

VARIABLES
    running,             \* a burst is in progress
    remaining            \* repeats still to announce in it

vars == <<running, remaining>>

Init ==
    /\ running = FALSE
    /\ remaining = MaxRepeat - 1

\* A topology change is requested while no burst runs: its first
\* announcement goes out and MaxRepeat - 1 repeats are due.
Begin ==
    /\ ~running
    /\ running' = TRUE
    /\ remaining' = MaxRepeat - 1

\* One repeat is announced.
Repeat ==
    /\ running /\ remaining > 0
    /\ remaining' = remaining - 1
    /\ UNCHANGED running

\* All repeats went out: the local FDB is flushed and the burst ends.
Finish ==
    /\ running /\ remaining = 0
    /\ running' = FALSE
    /\ remaining' = MaxRepeat - 1

\* The burst is dropped (the node stops, or gives up the manager role).
Cancel ==
    /\ running
    /\ running' = FALSE
    /\ remaining' = MaxRepeat - 1

Next == Begin \/ Repeat \/ Finish \/ Cancel

Spec == Init /\ [][Next]_vars

TypeOK == running \in BOOLEAN /\ remaining \in 0..(MaxRepeat - 1)

=============================================================================
