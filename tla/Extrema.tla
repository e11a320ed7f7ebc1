------------------------------- MODULE Extrema -------------------------------
(***************************************************************************)
(* Extrema (powerCap/extrema.go): on each line from PCP, cap the uncapped  *)
(* host with the highest mean at 50% while the cluster's mean is high, and *)
(* uncap the host capped last while it is low.  What rapl.Cap returns is   *)
(* only logged, so a line is one step.                                     *)
(***************************************************************************)
EXTENDS PowerCap

VARIABLES
    cappedHosts,          \* cappedHosts[h]: the map's entry
    orderCapped           \* capped hosts, the last one capped at the end

capVars == <<cappedHosts, orderCapped>>
vars == <<line, rapl, capVars>>

(* rapl.Cap with its result ignored.                                       *)
CapIgnoringError(h, percentage) ==
    CapSucceeds(h, percentage) \/ CapFails(h, percentage)

High(mean) == mean > hiThreshold

Low(mean) == mean < loThreshold

(* From best victim to worst, the first that is not capped.                *)
FirstUncapped(order, h) ==
    \E k \in DOMAIN order :
        /\ order[k] = h
        /\ ~cappedHosts[h]
        /\ \A j \in 1 .. k - 1 : cappedHosts[order[j]]

(* Mutant: the best victim is capped, whichever was recorded.              *)
CapBestVictim(mean, order, h) ==
    /\ High(mean)
    /\ FirstUncapped(order, h)
    /\ ReadLine(mean)
    /\ cappedHosts' = [cappedHosts EXCEPT ![h] = TRUE]
    /\ orderCapped' = Append(orderCapped, h)
    /\ CapIgnoringError(order[1], 5000)

CapVictim(mean, order, h) ==
    /\ High(mean)
    /\ FirstUncapped(order, h)
    /\ ReadLine(mean)
    /\ cappedHosts' = [cappedHosts EXCEPT ![h] = TRUE]
    /\ orderCapped' = Append(orderCapped, h)
    /\ CapIgnoringError(h, 5000)

(* Mutant: the host capped first is uncapped, but the last one forgotten.  *)
UncapTarget == Head(orderCapped)

LastCapped == orderCapped[Len(orderCapped)]

UncapLast(mean) ==
    /\ ~High(mean)
    /\ Low(mean)
    /\ orderCapped # <<>>
    /\ ReadLine(mean)
    /\ orderCapped' = SubSeq(orderCapped, 1, Len(orderCapped) - 1)
    /\ cappedHosts' = [cappedHosts EXCEPT ![LastCapped] = FALSE]
    /\ CapIgnoringError(LastCapped, 10000)

(* Every host is capped already, none is, or the mean is in between.       *)
NothingToDo(mean) ==
    /\ High(mean) => \A h \in Host : cappedHosts[h]
    /\ Low(mean) => orderCapped = <<>>
    /\ ReadLine(mean)
    /\ UNCHANGED <<rapl, capVars>>

Init ==
    /\ PowerInit
    /\ cappedHosts = [h \in Host |-> FALSE]
    /\ orderCapped = <<>>

Line ==
    /\ process = "alive"
    /\ \E mean \in Mean :
         \/ \E order \in VictimOrders, h \in Host : CapVictim(mean, order, h)
         \/ UncapLast(mean)
         \/ NothingToDo(mean)

Spec == Init /\ [][Line]_vars

(* pmdumptext prints a line every second.                                  *)
LiveSpec == Spec /\ WF_vars(Line)

------------------------------------------------------------------------------
(* PROPERTIES *)

(* Every variable has its type.                                            *)
TypeOK ==
    /\ PowerTypeOK
    /\ cappedHosts \in [Host -> BOOLEAN]
    /\ orderCapped \in Seq(Host)

(* The map and the stack hold the same hosts, each once in the stack.      *)
StackIsMap ==
    /\ IsInjective(orderCapped)
    /\ Range(orderCapped) = {h \in Host : cappedHosts[h]}

(* As long as no call of rapl.Cap fails, the hosts in force at 50% are the *)
(* hosts recorded as capped, and the others are uncapped.                  *)
RecordedIsActual ==
    failures = 0 =>
        \A h \in Host : actual[h] = IF cappedHosts[h] THEN 5000 ELSE Uncapped

(* If the mean stays low, every host is uncapped in the end, so long as no *)
(* call of rapl.Cap fails.                                                 *)
UncappedUnlessFailure ==
    [](failures = 0) /\ <>[]Low(clusterMean)
        => <>[](\A h \in Host : actual[h] = Uncapped)
==============================================================================
