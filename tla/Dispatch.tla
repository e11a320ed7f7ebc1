------------------------------ MODULE Dispatch -------------------------------
(***************************************************************************)
(* What the scheduling half of Elektron promises the rest of the program,  *)
(* whatever the policy: every instance of the workload is reserved in some *)
(* offer once, a reserved instance is launched, and the Shutdown channel   *)
(* is closed by the step that reserves the last one ("Signals we have      *)
(* scheduled every task we have", scheduler.go).  SchedPolicies implements *)
(* this module; Framework builds on it.                                    *)
(***************************************************************************)
EXTENDS Naturals

CONSTANT Instance          \* every instance of every task of the workload

VARIABLES
    pending,               \* instances still in the queue
    reserved,              \* instances with a TaskInfo, not yet launched
    launched,              \* instances given to driver.LaunchTasks
    Shutdown               \* the channel: "open" or "closed"

dispatchVars == <<pending, reserved, launched, Shutdown>>

DispatchInit ==
    /\ pending = Instance
    /\ reserved = {}
    /\ launched = {}
    /\ Shutdown = "open"

Take(x) ==
    /\ x \in pending
    /\ pending' = pending \ {x}
    /\ Shutdown' = IF pending' = {} THEN "closed" ELSE Shutdown

(* newTask and the decrement of Instances, as CheckFit does them.          *)
Reserve(x) ==
    /\ Take(x)
    /\ reserved' = reserved \cup {x}
    /\ UNCHANGED launched

(* LaunchTasks for all that was packed into one offer.                     *)
LaunchReserved ==
    /\ reserved # {}
    /\ launched' = launched \cup reserved
    /\ reserved' = {}
    /\ UNCHANGED <<pending, Shutdown>>

(* first-fit launches the one task it takes in the same iteration.         *)
TakeAndLaunch(x) ==
    /\ reserved = {}
    /\ Take(x)
    /\ launched' = launched \cup {x}
    /\ UNCHANGED reserved

DispatchNext ==
    \/ \E x \in pending : Reserve(x) \/ TakeAndLaunch(x)
    \/ LaunchReserved

DispatchSpec == DispatchInit /\ [][DispatchNext]_dispatchVars
==============================================================================
