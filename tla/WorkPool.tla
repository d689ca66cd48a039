------------------------------ MODULE WorkPool ------------------------------
(***************************************************************************)
(* What the thread pool of src/mumule.h promises its caller: the items are *)
(* numbered 1, 2, ... as they are submitted, they are begun in that order, *)
(* none that was not submitted and none twice, and a call of mule_sync     *)
(* does not return while an item submitted before it is unfinished.  The   *)
(* counters are cleared only when there is nothing left to do.             *)
(***************************************************************************)
EXTENDS Naturals

VARIABLES
    submitted,  \* how many items have been submitted since the last clear
    begun,      \* how many of them have been handed to a thread
    finished,   \* the items whose work is done
    caller      \* what the caller waits for

vars == <<submitted, begun, finished, caller>>

Init ==
    /\ submitted = 0
    /\ begun = 0
    /\ finished = {}
    /\ caller = "free"

AllDone == finished = 1..submitted

Submit ==
    /\ caller = "free"
    /\ submitted' \in Nat
    /\ submitted' > submitted
    /\ UNCHANGED <<begun, finished, caller>>

Begin ==
    /\ begun < submitted
    /\ begun' = begun + 1
    /\ UNCHANGED <<submitted, finished, caller>>

Finish ==
    /\ \E item \in (1..begun) \ finished : finished' = finished \union {item}
    /\ UNCHANGED <<submitted, begun, caller>>

Call ==
    /\ caller = "free"
    /\ caller' \in {"syncing", "resetting"}
    /\ UNCHANGED <<submitted, begun, finished>>

SyncReturn ==
    /\ caller = "syncing"
    /\ AllDone
    /\ caller' = "free"
    /\ UNCHANGED <<submitted, begun, finished>>

Clear ==
    /\ caller = "resetting"
    /\ AllDone
    /\ submitted' = 0
    /\ begun' = 0
    /\ finished' = {}
    /\ caller' = "free"

Next ==
    \/ Submit
    \/ Begin
    \/ Finish
    \/ Call
    \/ SyncReturn
    \/ Clear

Spec == Init /\ [][Next]_vars
=============================================================================
