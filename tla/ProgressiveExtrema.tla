-------------------------- MODULE ProgressiveExtrema -------------------------
(***************************************************************************)
(* Progressive extrema (powerCap/progressiveExtrema.go): on each line from *)
(* PCP, while the cluster's mean power is high cap one more host at 50%,   *)
(* or halve the cap of a capped one, down to LowerCapLimit; while it is    *)
(* low double the cap of the host that is capped the most.  A step is one  *)
(* call of rapl.Cap.  A map of the code is a function with 0 for hosts it  *)
(* has no entry for.                                                       *)
(***************************************************************************)
EXTENDS PowerCap

VARIABLES
    cappedVictims,        \* hosts that can be capped further, their caps
    orderCapped,          \* capped hosts, in the order they were first capped
    orderCappedVictims,   \* hosts that can be uncapped, their caps
    pc, victims, i,
    alreadyCappedHosts,
    triedInVain           \* history: hosts whose first cap failed on this line

capVars  == <<cappedVictims, orderCapped, orderCappedVictims>>
loopVars == <<pc, victims, i, alreadyCappedHosts, triedInVain>>
vars == <<line, rapl, capVars, loopVars>>

LowerCapLimit == 1250

(* Mutant: the cap is quartered.                                           *)
NextCapTwice(curCapValue) == (curCapValue + 2) \div 4

(* Half the cap, rounded to two decimals.                                  *)
getNextCapValue(curCapValue) == (curCapValue + 1) \div 2

------------------------------------------------------------------------------
(* A line from PCP.                                                        *)
High(mean) == mean >= hiThreshold

Low(mean) == mean < loThreshold

ScanLine(mean, order) ==
    /\ pc = "line"
    /\ ReadLine(mean)
    /\ victims' = order
    /\ i' = 1
    /\ alreadyCappedHosts' = <<>>
    /\ triedInVain' = {}
    /\ pc' = IF High(mean) THEN "new"
             ELSE IF Low(mean) /\ orderCapped # <<>> THEN "uncap" ELSE "line"
    /\ UNCHANGED <<rapl, capVars>>

(* The first loop: a victim that is not capped yet.                        *)
Victim == victims[i]

Looking == pc = "new" /\ i <= Len(victims)

(* The victim is capped and can be capped further: remember it.            *)
AlreadyCapped ==
    /\ Looking
    /\ cappedVictims[Victim] # 0
    /\ alreadyCappedHosts' = Append(alreadyCappedHosts, Victim)
    /\ i' = i + 1
    /\ UNCHANGED <<line, rapl, capVars, pc, victims, triedInVain>>

(* The victim cannot be capped further.                                    *)
CappedToLimit ==
    /\ Looking
    /\ cappedVictims[Victim] = 0
    /\ orderCappedVictims[Victim] # 0
    /\ i' = i + 1
    /\ UNCHANGED <<line, rapl, capVars, pc, victims, alreadyCappedHosts, triedInVain>>

NewVictim == Looking /\ cappedVictims[Victim] = 0 /\ orderCappedVictims[Victim] = 0

CapNew ==
    /\ NewVictim
    /\ CapSucceeds(Victim, 5000)
    /\ cappedVictims' = [cappedVictims EXCEPT ![Victim] = 5000]
    /\ orderCapped' = Append(orderCapped, Victim)
    /\ orderCappedVictims' = [orderCappedVictims EXCEPT ![Victim] = 5000]
    /\ pc' = "line"
    /\ UNCHANGED <<line, victims, i, alreadyCappedHosts, triedInVain>>

CapNewFails ==
    /\ NewVictim
    /\ CapFails(Victim, 5000)
    /\ triedInVain' = triedInVain \cup {Victim}
    /\ i' = i + 1
    /\ UNCHANGED <<line, capVars, pc, victims, alreadyCappedHosts>>

(* Mutant: the last victim is not looked at.                               *)
NoNewVictimEarly ==
    /\ pc = "new"
    /\ i >= Len(victims)
    /\ pc' = "again"
    /\ i' = 1
    /\ UNCHANGED <<line, rapl, capVars, victims, alreadyCappedHosts, triedInVain>>

NoNewVictim ==
    /\ pc = "new"
    /\ i > Len(victims)
    /\ pc' = "again"
    /\ i' = 1
    /\ UNCHANGED <<line, rapl, capVars, victims, alreadyCappedHosts, triedInVain>>

------------------------------------------------------------------------------
(* The second loop: cap an already capped victim further.                  *)
Again == pc = "again" /\ i <= Len(alreadyCappedHosts)

CappedHost == alreadyCappedHosts[i]

capValue == orderCappedVictims[CappedHost]

(* Mutant: a victim at the limit stays among those to cap further.         *)
KeptInCapped(h, value) == [cappedVictims EXCEPT ![h] = value]

(* Mutant: a victim capped further leaves cappedVictims in any case.       *)
CappedDropped(h, value) == [cappedVictims EXCEPT ![h] = 0]

(* A victim capped down to the limit leaves cappedVictims.                 *)
CappedAfter(h, value) ==
    [cappedVictims EXCEPT ![h] = IF value <= LowerCapLimit THEN 0 ELSE value]

CapFurther ==
    /\ Again
    /\ capValue > LowerCapLimit
    /\ CapSucceeds(CappedHost, getNextCapValue(capValue))
    /\ cappedVictims' = CappedAfter(CappedHost, getNextCapValue(capValue))
    /\ orderCappedVictims' =
         [orderCappedVictims EXCEPT ![CappedHost] = getNextCapValue(capValue)]
    /\ pc' = "line"
    /\ UNCHANGED <<line, orderCapped, victims, i, alreadyCappedHosts, triedInVain>>

CapFurtherFails ==
    /\ Again
    /\ capValue > LowerCapLimit => CapFails(CappedHost, getNextCapValue(capValue))
    /\ capValue <= LowerCapLimit => UNCHANGED rapl
    /\ i' = i + 1
    /\ UNCHANGED <<line, capVars, pc, victims, alreadyCappedHosts, triedInVain>>

NoVictimLeft ==
    /\ pc = "again"
    /\ i > Len(alreadyCappedHosts)
    /\ pc' = "line"
    /\ UNCHANGED <<line, rapl, capVars, victims, i, alreadyCappedHosts, triedInVain>>

------------------------------------------------------------------------------
(* The host capped the most; Go's sort leaves ties in any order.           *)
MostCapped(h) ==
    /\ orderCappedVictims[h] # 0
    /\ \A g \in Host : orderCappedVictims[g] # 0
                         => orderCappedVictims[h] <= orderCappedVictims[g]

(* Mutant: the product is rounded up.                                      *)
UncapRoundedUp(h) == orderCappedVictims[h] * 2 + 1

newUncapValue(h) == orderCappedVictims[h] * 2

(* orderCapped without the first entry of h.                               *)
OrderWithout(h) ==
    IF h \notin Range(orderCapped) THEN orderCapped
    ELSE LET k == CHOOSE k \in DOMAIN orderCapped :
                    orderCapped[k] = h /\ \A j \in 1 .. k - 1 : orderCapped[j] # h
         IN SubSeq(orderCapped, 1, k - 1) \o SubSeq(orderCapped, k + 1, Len(orderCapped))

(* Mutant: a host that is not capped any more keeps its entry.             *)
EntryKept(map, h) ==
    IF newUncapValue(h) > LowerCapLimit THEN [map EXCEPT ![h] = newUncapValue(h)]
    ELSE map

(* The entry of h in a map once it is uncapped to newUncapValue: none when *)
(* it is not capped any more.                                              *)
UncappedEntry(map, h) ==
    IF newUncapValue(h) >= Uncapped THEN [map EXCEPT ![h] = 0]
    ELSE IF newUncapValue(h) > LowerCapLimit THEN [map EXCEPT ![h] = newUncapValue(h)]
    ELSE map

Uncap(h) ==
    /\ pc = "uncap"
    /\ MostCapped(h)
    /\ CapSucceeds(h, newUncapValue(h))
    /\ orderCapped' = IF newUncapValue(h) >= Uncapped THEN OrderWithout(h)
                      ELSE orderCapped
    /\ orderCappedVictims' = UncappedEntry(orderCappedVictims, h)
    /\ cappedVictims' = UncappedEntry(cappedVictims, h)
    /\ pc' = "line"
    /\ UNCHANGED <<line, victims, i, alreadyCappedHosts, triedInVain>>

UncapFails(h) ==
    /\ pc = "uncap"
    /\ MostCapped(h)
    /\ CapFails(h, newUncapValue(h))
    /\ pc' = "line"
    /\ UNCHANGED <<line, capVars, victims, i, alreadyCappedHosts, triedInVain>>

------------------------------------------------------------------------------
Init ==
    /\ PowerInit
    /\ cappedVictims = [h \in Host |-> 0]
    /\ orderCapped = <<>>
    /\ orderCappedVictims = [h \in Host |-> 0]
    /\ pc = "line"
    /\ victims = <<>>
    /\ i = 1
    /\ alreadyCappedHosts = <<>>
    /\ triedInVain = {}

CappingStep ==
    \/ AlreadyCapped \/ CappedToLimit \/ CapNew \/ CapNewFails \/ NoNewVictim
    \/ CapFurther \/ CapFurtherFails \/ NoVictimLeft
    \/ \E h \in Host : Uncap(h) \/ UncapFails(h)

Handle == process = "alive" /\ CappingStep

Line ==
    /\ process = "alive"
    /\ \E mean \in Mean, order \in VictimOrders : ScanLine(mean, order)

Next == Line \/ Handle

Spec == Init /\ [][Next]_vars

(* pmdumptext prints a line every second and the goroutine handles it.     *)
LiveSpec == Spec /\ WF_vars(Line) /\ WF_vars(Handle)

------------------------------------------------------------------------------
(* PROPERTIES *)

(* Every variable has its type; a recorded cap is less than 100%.          *)
TypeOK ==
    /\ PowerTypeOK
    /\ cappedVictims \in [Host -> 0 .. Uncapped - 1]
    /\ orderCapped \in Seq(Host)
    /\ orderCappedVictims \in [Host -> 0 .. Uncapped - 1]
    /\ pc \in {"line", "new", "again", "uncap"}
    /\ victims \in Seq(Host)
    /\ i \in Nat \ {0}
    /\ alreadyCappedHosts \in Seq(Host)
    /\ triedInVain \in SUBSET Host

(* The three structures agree, whichever calls failed: orderCapped lists   *)
(* the hosts of the "parallel data structure" orderCappedVictims, each     *)
(* once, a cap is 50%, 25% or the limit, and cappedVictims holds the same  *)
(* cap for exactly the hosts above the limit ("If already capped then the  *)
(* host must be present in orderCappedVictims").                           *)
StructuresAgree ==
    /\ IsInjective(orderCapped)
    /\ Range(orderCapped) = {h \in Host : orderCappedVictims[h] # 0}
    /\ \A h \in Host :
         /\ orderCappedVictims[h] \in {0, 1250, 2500, 5000}
         /\ cappedVictims[h] = IF orderCappedVictims[h] > LowerCapLimit
                               THEN orderCappedVictims[h] ELSE 0

Tracked(h) == IF orderCappedVictims[h] = 0 THEN Uncapped ELSE orderCappedVictims[h]

(* However many calls of rapl.Cap fail, and however many of these took     *)
(* effect, the cap in force on a host is at most one halving or doubling   *)
(* from the one recorded, and never below the limit.                       *)
AtMostOneStepOff ==
    \A h \in Host :
        /\ actual[h] \in {Tracked(h), Tracked(h) * 2, Tracked(h) \div 2}
        /\ actual[h] >= LowerCapLimit

(* A host is capped further only when each host without a cap is one whose *)
(* first cap failed on this very line: a failure on an earlier line, or on *)
(* another host, never lets the second loop pass a host over.              *)
EveryHostBeforeFurther ==
    [][\A h \in Host :
         orderCappedVictims'[h] \in 1 .. orderCappedVictims[h] - 1
            => \A g \in Host : orderCappedVictims[g] # 0 \/ g \in triedInVain]_vars

(* The process did not panic, and no call that failed has taken effect.    *)
NoReplyLost == process = "alive" /\ \A h \in Host : actual[h] = Tracked(h)

(* If the mean stays high, every host is capped to the limit in the end,   *)
(* "all nodes have been capped to the maximum": a call that failed is made *)
(* again.                                                                  *)
EventuallyAllAtLimit ==
    []NoReplyLost /\ <>[]High(clusterMean)
        => <>[](\A h \in Host : actual[h] = LowerCapLimit)

(* If the mean stays low, every host is uncapped in the end, likewise.     *)
EventuallyAllUncapped ==
    []NoReplyLost /\ <>[]Low(clusterMean)
        => <>[](\A h \in Host : actual[h] = Uncapped)
==============================================================================
