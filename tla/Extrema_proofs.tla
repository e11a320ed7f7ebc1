--------------------------- MODULE Extrema_proofs ----------------------------
(***************************************************************************)
(* Proofs about Extrema, for any number of hosts, any power readings and   *)
(* any failures of rapl.Cap.                                               *)
(***************************************************************************)
EXTENDS Extrema, TLAPS

CapInv == TypeOK /\ StackIsMap /\ RecordedIsActual

(* A call of rapl.Cap with one of the two percentages extrema uses.        *)
LEMMA CapStep ==
    ASSUME PowerTypeOK, NEW h \in Host, NEW percentage \in {5000, 10000},
           CapIgnoringError(h, percentage)
    PROVE  /\ actual' \in [Host -> 0 .. Uncapped]
           /\ failures' \in 0 .. MaxFailures
           /\ process' \in {"alive", "panicked"}
           /\ failures' = 0 =>
                failures = 0 /\ actual' = [actual EXCEPT ![h] = percentage]
<1>1. percentage \in 0 .. Uncapped /\ MaxFailures \in Nat
  BY PowerAssumption DEF Uncapped
<1>2. process' \in {"alive", "panicked"}
  BY <1>1 DEF CapIgnoringError, CapSucceeds, CapFails, PowerTypeOK
<1>3. CASE CapSucceeds(h, percentage)
  BY <1>1, <1>2, <1>3 DEF CapSucceeds, PowerTypeOK
<1>4. CASE CapFails(h, percentage)
  BY <1>1, <1>2, <1>4 DEF CapFails, PowerTypeOK
<1> QED
  BY <1>3, <1>4 DEF CapIgnoringError

(* A line on which a host is capped.                                       *)
LEMMA CapVictimStep ==
    ASSUME CapInv, NEW mean \in Mean, NEW order \in VictimOrders, NEW h \in Host,
           CapVictim(mean, order, h)
    PROVE  CapInv'
<1>1. h \notin Range(orderCapped)
  BY DEF CapVictim, FirstUncapped, CapInv, StackIsMap
<1>2. /\ orderCapped' \in Seq(Host) /\ Len(orderCapped') = Len(orderCapped) + 1
      /\ \A k \in 1 .. Len(orderCapped) : orderCapped'[k] = orderCapped[k]
      /\ orderCapped'[Len(orderCapped) + 1] = h
  BY DEF CapVictim, CapInv, TypeOK
<1>3. /\ Len(orderCapped) \in Nat /\ DOMAIN orderCapped = 1 .. Len(orderCapped)
      /\ DOMAIN orderCapped' = 1 .. Len(orderCapped) + 1
  BY <1>2 DEF CapInv, TypeOK
<1>4. IsInjective(orderCapped')
  BY <1>1, <1>2, <1>3 DEF IsInjective, Range, CapInv, StackIsMap
<1>5. Range(orderCapped') = Range(orderCapped) \cup {h}
  <2>1. ASSUME NEW x \in Range(orderCapped') PROVE x \in Range(orderCapped) \cup {h}
    BY <1>2, <1>3, <2>1 DEF Range
  <2>2. ASSUME NEW x \in Range(orderCapped) PROVE x \in Range(orderCapped')
    BY <1>2, <1>3, <2>2 DEF Range
  <2>3. h \in Range(orderCapped')
    BY <1>2, <1>3 DEF Range
  <2> QED
    BY <2>1, <2>2, <2>3
<1>6. /\ cappedHosts' \in [Host -> BOOLEAN]
      /\ \A g \in Host : cappedHosts'[g] <=> (g = h \/ cappedHosts[g])
  <2>1. cappedHosts' = [cappedHosts EXCEPT ![h] = TRUE] /\ cappedHosts \in [Host -> BOOLEAN]
    BY DEF CapVictim, CapInv, TypeOK
  <2>2. cappedHosts' \in [Host -> BOOLEAN]
    BY <2>1
  <2>3. cappedHosts'[h] /\ \A g \in Host : g # h => cappedHosts'[g] = cappedHosts[g]
    BY <2>1
  <2> QED
    BY <2>2, <2>3
<1>7. StackIsMap'
  BY <1>4, <1>5, <1>6 DEF CapInv, StackIsMap
<1>8. /\ actual' \in [Host -> 0 .. Uncapped] /\ failures' \in 0 .. MaxFailures
      /\ process' \in {"alive", "panicked"}
      /\ failures' = 0 => failures = 0 /\ actual' = [actual EXCEPT ![h] = 5000]
  BY CapStep DEF CapVictim, CapInv, TypeOK
<1>9. TypeOK'
  <2>1. clusterMean' \in Nat /\ seconds' \in 0 .. 1
    BY PowerAssumption DEF CapVictim, ReadLine, CapInv, TypeOK, PowerTypeOK
  <2> QED
    BY <1>2, <1>6, <1>8, <2>1 DEF TypeOK, PowerTypeOK
<1>10. RecordedIsActual'
  BY <1>6, <1>8 DEF RecordedIsActual, CapInv, TypeOK, PowerTypeOK
<1> QED
  BY <1>7, <1>9, <1>10 DEF CapInv

(* A line on which the host capped last is uncapped.                       *)
LEMMA UncapStep ==
    ASSUME CapInv, NEW mean \in Mean, UncapLast(mean)
    PROVE  CapInv'
<1> DEFINE n == Len(orderCapped)
           h == orderCapped[n]
<1>1. n \in Nat /\ n >= 1 /\ h \in Host /\ DOMAIN orderCapped = 1 .. n
  BY DEF UncapLast, CapInv, TypeOK
<1>2. /\ orderCapped' \in Seq(Host) /\ Len(orderCapped') = n - 1
      /\ \A k \in 1 .. n - 1 : orderCapped'[k] = orderCapped[k]
  BY <1>1 DEF UncapLast, CapInv, TypeOK
<1>3. DOMAIN orderCapped' = 1 .. n - 1
  BY <1>2
<1>4. IsInjective(orderCapped')
  BY <1>1, <1>2, <1>3 DEF IsInjective, CapInv, StackIsMap
<1>5. Range(orderCapped') = Range(orderCapped) \ {h}
  <2> HIDE DEF n
  <2>1. \A k \in 1 .. n : orderCapped[k] = h => k = n
    <3>1. \A a, b \in 1 .. n : orderCapped[a] = orderCapped[b] => a = b
      BY <1>1 DEF IsInjective, CapInv, StackIsMap
    <3> QED
      BY <1>1, <3>1
  <2>2. ASSUME NEW x \in Range(orderCapped') PROVE x \in Range(orderCapped) \ {h}
    <3>1. PICK k \in 1 .. n - 1 : orderCapped'[k] = x
      BY <1>3, <2>2 DEF Range
    <3>2. k \in 1 .. n /\ k # n /\ orderCapped[k] = x
      BY <1>1, <1>2, <3>1
    <3> QED
      BY <1>1, <2>1, <3>2 DEF Range
  <2>3. ASSUME NEW x \in Range(orderCapped) \ {h} PROVE x \in Range(orderCapped')
    <3>1. PICK k \in 1 .. n : orderCapped[k] = x
      BY <1>1, <2>3 DEF Range
    <3>2. k \in 1 .. n - 1 /\ orderCapped'[k] = x
      BY <1>1, <1>2, <2>3, <3>1
    <3> QED
      BY <1>3, <3>2 DEF Range
  <2> QED
    BY <2>2, <2>3
<1>6. /\ cappedHosts' \in [Host -> BOOLEAN]
      /\ \A g \in Host : cappedHosts'[g] <=> (g # h /\ cappedHosts[g])
  <2>1. cappedHosts' = [cappedHosts EXCEPT ![h] = FALSE] /\ cappedHosts \in [Host -> BOOLEAN]
    BY DEF UncapLast, LastCapped, CapInv, TypeOK
  <2>2. cappedHosts' \in [Host -> BOOLEAN]
    BY <1>1, <2>1
  <2>3. ~cappedHosts'[h] /\ \A g \in Host : g # h => cappedHosts'[g] = cappedHosts[g]
    BY <1>1, <2>1
  <2> QED
    BY <2>2, <2>3
<1>7. StackIsMap'
  BY <1>4, <1>5, <1>6 DEF CapInv, StackIsMap
<1>8. /\ actual' \in [Host -> 0 .. Uncapped] /\ failures' \in 0 .. MaxFailures
      /\ process' \in {"alive", "panicked"}
      /\ failures' = 0 => failures = 0 /\ actual' = [actual EXCEPT ![h] = 10000]
  BY <1>1, CapStep DEF UncapLast, LastCapped, CapInv, TypeOK
<1>9. TypeOK'
  <2>1. clusterMean' \in Nat /\ seconds' \in 0 .. 1
    BY PowerAssumption DEF UncapLast, ReadLine, CapInv, TypeOK, PowerTypeOK
  <2> QED
    BY <1>2, <1>6, <1>8, <2>1 DEF TypeOK, PowerTypeOK
<1>10. RecordedIsActual'
  <2> SUFFICES ASSUME failures' = 0, NEW g \in Host
               PROVE  actual'[g] = IF cappedHosts'[g] THEN 5000 ELSE Uncapped
    BY DEF RecordedIsActual
  <2>1. actual' = [actual EXCEPT ![h] = 10000] /\ actual \in [Host -> 0 .. Uncapped]
    BY <1>8 DEF CapInv, TypeOK, PowerTypeOK
  <2>2. CASE g = h
    <3>1. actual'[g] = 10000 /\ ~cappedHosts'[g]
      BY <1>1, <1>6, <2>1, <2>2
    <3> QED
      BY <3>1 DEF Uncapped
  <2>3. CASE g # h
    <3>1. actual'[g] = actual[g] /\ (cappedHosts'[g] <=> cappedHosts[g])
      BY <1>6, <2>1, <2>3
    <3> QED
      BY <1>8, <3>1 DEF RecordedIsActual, CapInv
  <2> QED
    BY <2>2, <2>3
<1> QED
  BY <1>7, <1>9, <1>10 DEF CapInv

(* A line that changes no cap.                                             *)
LEMMA NothingStep ==
    ASSUME CapInv, NEW mean \in Mean, NothingToDo(mean)
    PROVE  CapInv'
  BY PowerAssumption
  DEF NothingToDo, ReadLine, rapl, capVars, CapInv, TypeOK, PowerTypeOK, StackIsMap,
      RecordedIsActual

(* The invariants of extrema hold in every reachable state.                *)
THEOREM CapInvariance == Spec => []CapInv
<1>1. Init => CapInv
  <2> SUFFICES ASSUME Init PROVE CapInv
    OBVIOUS
  <2>1. cappedHosts \in [Host -> BOOLEAN]
    BY Zenon DEF Init, PowerInit
  <2>2. TypeOK
    BY <2>1, PowerAssumption DEF Init, PowerInit, TypeOK, PowerTypeOK, Uncapped
  <2>3. StackIsMap /\ RecordedIsActual
    BY DEF Init, PowerInit, StackIsMap, RecordedIsActual, IsInjective, Range
  <2> QED
    BY <2>2, <2>3 DEF CapInv
<1>2. ASSUME CapInv, [Line]_vars PROVE CapInv'
  <2>1. CASE Line
    BY <1>2, <2>1, CapVictimStep, UncapStep, NothingStep DEF Line
  <2>2. CASE UNCHANGED vars
    BY <1>2, <2>2 DEF vars, line, rapl, capVars, CapInv, TypeOK, PowerTypeOK,
                      StackIsMap, RecordedIsActual
  <2> QED
    BY <1>2, <2>1, <2>2
<1> QED
  BY <1>1, <1>2, PTL DEF Spec

(* The stack of capped hosts and the map of capped hosts never disagree,   *)
(* whichever calls of rapl.Cap fail.                                       *)
THEOREM StackCorrect == Spec => []StackIsMap
<1>1. CapInv => StackIsMap
  BY DEF CapInv
<1> QED
  BY <1>1, CapInvariance, PTL

(* Until a call fails, what is recorded is what is in force.               *)
THEOREM RecordCorrect == Spec => []RecordedIsActual
<1>1. CapInv => RecordedIsActual
  BY DEF CapInv
<1> QED
  BY <1>1, CapInvariance, PTL

(* Every variable keeps its type.                                          *)
THEOREM TypeCorrect == Spec => []TypeOK
<1>1. CapInv => TypeOK
  BY DEF CapInv
<1> QED
  BY <1>1, CapInvariance, PTL
==============================================================================
