----------------------- MODULE ProgressiveExtrema_proofs ---------------------
(***************************************************************************)
(* Proofs about ProgressiveExtrema, for any number of hosts, any power     *)
(* readings and any failures of rapl.Cap.                                  *)
(***************************************************************************)
EXTENDS ProgressiveExtrema, FiniteSetTheorems, SequenceTheorems, TLAPS

(* Where the two loops are: victims lists every host, each host the first  *)
(* loop left behind is capped or failed to be on this line, and the loop   *)
(* has come to the end when the second begins.                             *)
LoopInv ==
    /\ pc \in {"new", "again"} => victims \in VictimOrders
    /\ pc = "new" => \A k \in 1 .. Len(victims) :
          k < i => orderCappedVictims[victims[k]] # 0 \/ victims[k] \in triedInVain
    /\ pc = "again" => \A h \in Host : orderCappedVictims[h] # 0 \/ h \in triedInVain

ProgInv == TypeOK /\ StructuresAgree /\ AtMostOneStepOff /\ LoopInv

------------------------------------------------------------------------------
(* The victims are all the hosts, each once, whatever their order.         *)
LEMMA VictimsAreTheHosts ==
    ASSUME NEW v \in VictimOrders
    PROVE  v \in Seq(Host) /\ \A h \in Host : \E k \in 1 .. Len(v) : v[k] = h
<1> DEFINE n == Cardinality(Host)
<1>1. n \in Nat
  BY PowerAssumption, FS_CardinalityType
<1>2. v \in [1 .. n -> Host] /\ IsInjective(v)
  BY DEF VictimOrders
<1>3. IsFiniteSet(1 .. n) /\ Cardinality(1 .. n) = n
  BY <1>1, FS_Interval
<1>4. v \in Injection(1 .. n, Host)
  BY <1>2 DEF Injection
<1>5. v \in Surjection(1 .. n, Host)
  BY <1>3, <1>4, PowerAssumption, FS_Injection
<1>6. \A h \in Host : \E k \in 1 .. n : v[k] = h
  BY <1>5 DEF Surjection
<1> HIDE DEF n
<1>7. v \in Seq(Host) /\ Len(v) = n
  BY <1>1, <1>2
<1> QED
  BY <1>6, <1>7

(* OrderWithout takes exactly one host away, and keeps the others apart.   *)
LEMMA OrderWithoutHost ==
    ASSUME orderCapped \in Seq(Host), IsInjective(orderCapped),
           NEW h \in Range(orderCapped)
    PROVE  /\ OrderWithout(h) \in Seq(Host)
           /\ IsInjective(OrderWithout(h))
           /\ Range(OrderWithout(h)) = Range(orderCapped) \ {h}
<1> DEFINE n == Len(orderCapped)
           First(k) == orderCapped[k] = h /\ \A j \in 1 .. k - 1 : orderCapped[j] # h
           p == CHOOSE k \in DOMAIN orderCapped : First(k)
           s == OrderWithout(h)
<1>1. n \in Nat /\ DOMAIN orderCapped = 1 .. n
  OBVIOUS
<1>2. \A a, b \in 1 .. n : orderCapped[a] = orderCapped[b] => a = b
  BY <1>1 DEF IsInjective
<1>3. \E k \in DOMAIN orderCapped : First(k)
  BY <1>1, <1>2 DEF Range
<1>4. p \in 1 .. n /\ orderCapped[p] = h
  BY <1>1, <1>3
<1>5. s = SubSeq(orderCapped, 1, p - 1) \o SubSeq(orderCapped, p + 1, n)
  BY DEF OrderWithout
<1> HIDE DEF p, s
<1> DEFINE before == SubSeq(orderCapped, 1, p - 1)
           after  == SubSeq(orderCapped, p + 1, n)
<1> HIDE DEF n
<1>6. /\ before \in Seq(Host) /\ Len(before) = p - 1
      /\ \A j \in 1 .. p - 1 : before[j] = orderCapped[j]
  <2>1. \A j \in 1 .. p - 1 : orderCapped[j] \in Host
    BY <1>1, <1>4 DEF n
  <2>2. /\ before \in Seq(Host) /\ Len(before) = IF 1 <= p - 1 THEN p - 1 - 1 + 1 ELSE 0
        /\ \A j \in 1 .. p - 1 - 1 + 1 : before[j] = orderCapped[1 + j - 1]
    BY <1>1, <1>4, <2>1, SubSeqProperties
  <2> HIDE DEF before
  <2> QED
    BY <1>1, <1>4, <2>2
<1>7. /\ after \in Seq(Host) /\ Len(after) = n - p
      /\ \A j \in 1 .. n - p : after[j] = orderCapped[p + j]
  <2>1. \A j \in p + 1 .. n : orderCapped[j] \in Host
    BY <1>1, <1>4 DEF n
  <2>2. /\ after \in Seq(Host) /\ Len(after) = IF p + 1 <= n THEN n - (p + 1) + 1 ELSE 0
        /\ \A j \in 1 .. n - (p + 1) + 1 : after[j] = orderCapped[p + 1 + j - 1]
    BY <1>1, <1>4, <2>1, SubSeqProperties
  <2> HIDE DEF before, after
  <2>3. n - (p + 1) + 1 = n - p /\ \A j \in 1 .. n - p : p + 1 + j - 1 = p + j
    BY <1>1, <1>4
  <2>4. Len(after) = n - p
    BY <1>1, <1>4, <2>2
  <2>5. \A j \in 1 .. n - p : after[j] = orderCapped[p + j]
    BY <2>2, <2>3
  <2> QED
    BY <2>2, <2>4, <2>5
<1> HIDE DEF before, after
<1>8. /\ s \in Seq(Host) /\ Len(s) = n - 1
      /\ \A j \in 1 .. n - 1 : s[j] = IF j < p THEN orderCapped[j] ELSE orderCapped[j + 1]
  <2>1. s = before \o after
    BY <1>5 DEF before, after
  <2>2. /\ s \in Seq(Host) /\ Len(s) = Len(before) + Len(after)
        /\ \A j \in 1 .. Len(before) + Len(after) :
             s[j] = IF j <= Len(before) THEN before[j] ELSE after[j - Len(before)]
    BY <1>6, <1>7, <2>1, ConcatProperties
  <2> QED
    BY <1>1, <1>4, <1>6, <1>7, <2>2
<1>9. DOMAIN s = 1 .. n - 1
  BY <1>1, <1>8
<1>10. IsInjective(s)
  BY <1>1, <1>2, <1>4, <1>8, <1>9 DEF IsInjective
<1>11. ASSUME NEW x \in Range(s) PROVE x \in Range(orderCapped) \ {h}
  <2>1. PICK j \in 1 .. n - 1 : s[j] = x
    BY <1>9 DEF Range
  <2>2. PICK k \in 1 .. n : k # p /\ x = orderCapped[k]
    <3>1. CASE j < p
      BY <1>1, <1>8, <2>1, <3>1
    <3>2. CASE ~(j < p)
      <4>1. j + 1 \in 1 .. n /\ j + 1 # p /\ x = orderCapped[j + 1]
        BY <1>1, <1>4, <1>8, <2>1, <3>2
      <4> QED
        BY <4>1
    <3> QED
      BY <3>1, <3>2
  <2>3. x # h
    BY <1>2, <1>4, <2>2
  <2> QED
    BY <1>1, <2>2, <2>3 DEF Range
<1>12. ASSUME NEW x \in Range(orderCapped) \ {h} PROVE x \in Range(s)
  <2>1. PICK k \in 1 .. n : orderCapped[k] = x
    BY <1>1 DEF Range
  <2>2. k # p
    BY <1>4, <2>1
  <2>3. CASE k < p
    <3>1. k \in 1 .. n - 1 /\ s[k] = x
      BY <1>1, <1>4, <1>8, <2>1, <2>3
    <3> QED
      BY <1>9, <3>1 DEF Range
  <2>4. CASE k > p
    <3>1. k - 1 \in 1 .. n - 1 /\ s[k - 1] = x
      BY <1>1, <1>4, <1>8, <2>1, <2>4
    <3> QED
      BY <1>9, <3>1 DEF Range
  <2> QED
    BY <1>1, <1>4, <2>1, <2>2, <2>3, <2>4
<1> QED
  BY <1>8, <1>10, <1>11, <1>12 DEF s

------------------------------------------------------------------------------
(* What the proofs need of the scale of the caps.                          *)
LEMMA Scale == Uncapped \in Nat /\ Uncapped = 10000
BY DEF Uncapped

LEMMA CapType ==
    ASSUME NEW map \in [Host -> 0 .. Uncapped - 1], NEW h \in Host
    PROVE  map[h] \in Int
<1>1. Uncapped \in Nat
  BY Scale
<1> QED
  BY <1>1

(* A step that leaves every host but h alone, and h one step off at most.  *)
LEMMA OneStepOff ==
    ASSUME AtMostOneStepOff, NEW h \in Host,
           \A g \in Host : g # h =>
             actual'[g] = actual[g] /\ orderCappedVictims'[g] = orderCappedVictims[g],
           actual'[h] \in {Tracked(h)', Tracked(h)' * 2, Tracked(h)' \div 2},
           actual'[h] >= LowerCapLimit
    PROVE  AtMostOneStepOff'
<1> SUFFICES ASSUME NEW g \in Host
             PROVE  /\ actual'[g] \in {Tracked(g)', Tracked(g)' * 2, Tracked(g)' \div 2}
                    /\ actual'[g] >= LowerCapLimit
  BY DEF AtMostOneStepOff
<1>1. CASE g = h
  BY <1>1
<1>2. CASE g # h
  <2>1. Tracked(g)' = Tracked(g) /\ actual'[g] = actual[g]
    BY <1>2 DEF Tracked
  <2> QED
    BY <2>1 DEF AtMostOneStepOff
<1> QED
  BY <1>1, <1>2

(* The caps recorded have their type when one of them is set.              *)
LEMMA RecordedStep ==
    ASSUME TypeOK, NEW h \in Host, NEW cap \in 0 .. Uncapped - 1
    PROVE  /\ [cappedVictims EXCEPT ![h] = cap] \in [Host -> 0 .. Uncapped - 1]
           /\ [orderCappedVictims EXCEPT ![h] = cap] \in [Host -> 0 .. Uncapped - 1]
BY DEF TypeOK

(* A call of rapl.Cap within the range that fails: the cap is the old one  *)
(* or the new one.                                                         *)
LEMMA CapFailsStep ==
    ASSUME TypeOK, NEW h \in Host, NEW percentage \in 0 .. Uncapped,
           CapFails(h, percentage), UNCHANGED line
    PROVE  /\ PowerTypeOK'
           /\ actual' \in {actual, [actual EXCEPT ![h] = percentage]}
<1>1. MaxFailures \in Nat
  BY PowerAssumption
<1>2. /\ failures' = failures + 1 /\ failures < MaxFailures
      /\ actual' \in {actual, [actual EXCEPT ![h] = percentage]}
  BY DEF CapFails
<1>3. process' \in {"alive", "panicked"}
  BY DEF CapFails, TypeOK, PowerTypeOK
<1>4. actual' \in [Host -> 0 .. Uncapped]
  BY <1>2 DEF TypeOK, PowerTypeOK
<1> QED
  BY <1>1, <1>2, <1>3, <1>4 DEF TypeOK, PowerTypeOK, line

(* A line from PCP starts the loops over.                                  *)
LEMMA ScanLineStep ==
    ASSUME ProgInv, NEW mean \in Mean, NEW order \in VictimOrders, ScanLine(mean, order)
    PROVE  ProgInv'
<1> USE DEF ProgInv, ScanLine, rapl, capVars
<1>1. victims' \in VictimOrders /\ victims' \in Seq(Host)
  BY VictimsAreTheHosts
<1>2. clusterMean' \in Nat /\ seconds' \in 0 .. 1
  BY PowerAssumption DEF ReadLine, TypeOK, PowerTypeOK
<1>3. TypeOK'
  BY <1>1, <1>2 DEF TypeOK, PowerTypeOK
<1>4. StructuresAgree' /\ AtMostOneStepOff'
  BY DEF StructuresAgree, AtMostOneStepOff, Tracked
<1>5. LoopInv'
  <2>1. pc' # "again" /\ i' = 1
    OBVIOUS
  <2> QED
    BY <1>1, <2>1 DEF LoopInv
<1> QED
  BY <1>3, <1>4, <1>5

(* A victim of the first loop that is capped already.                      *)
LEMMA PassedStep ==
    ASSUME ProgInv, AlreadyCapped \/ CappedToLimit
    PROVE  ProgInv'
<1> USE DEF ProgInv
<1>1. /\ Looking /\ i' = i + 1 /\ orderCappedVictims[Victim] # 0
      /\ UNCHANGED <<line, rapl, capVars, pc, victims, triedInVain>>
  <2>1. CASE AlreadyCapped
    <3>1. Victim \in Host
      BY <2>1 DEF AlreadyCapped, Looking, Victim, TypeOK
    <3> QED
      BY <2>1, <3>1 DEF AlreadyCapped, StructuresAgree, LowerCapLimit
  <2>2. CASE CappedToLimit
    BY <2>2 DEF CappedToLimit
  <2> QED
    BY <2>1, <2>2
<1>2. Victim \in Host
  BY <1>1 DEF Looking, Victim, TypeOK
<1>3. alreadyCappedHosts' \in Seq(Host)
  <2>1. CASE AlreadyCapped
    BY <1>2, <2>1 DEF AlreadyCapped, TypeOK
  <2>2. CASE CappedToLimit
    BY <2>2 DEF CappedToLimit, TypeOK
  <2> QED
    BY <2>1, <2>2
<1>4. TypeOK'
  BY <1>1, <1>3 DEF TypeOK, PowerTypeOK, line, rapl, capVars
<1>5. StructuresAgree' /\ AtMostOneStepOff'
  BY <1>1 DEF StructuresAgree, AtMostOneStepOff, Tracked, rapl, capVars
<1>6. \A k \in 1 .. Len(victims) : k < i + 1 => k < i \/ k = i
  BY DEF TypeOK
<1>7. LoopInv'
  BY <1>1, <1>6 DEF LoopInv, Looking, Victim, rapl, capVars
<1> QED
  BY <1>4, <1>5, <1>7

(* A new victim is capped at 50%.                                          *)
LEMMA CapNewStep ==
    ASSUME ProgInv, CapNew
    PROVE  ProgInv'
<1> USE DEF ProgInv
<1> DEFINE n == Len(orderCapped)
<1>0. PICK h \in Host : h = Victim
  BY DEF CapNew, NewVictim, Looking, Victim, TypeOK
<1>1. /\ orderCappedVictims[h] = 0
      /\ actual' = [actual EXCEPT ![h] = 5000] /\ UNCHANGED <<failures, process>>
      /\ cappedVictims' = [cappedVictims EXCEPT ![h] = 5000]
      /\ orderCapped' = Append(orderCapped, h)
      /\ orderCappedVictims' = [orderCappedVictims EXCEPT ![h] = 5000]
      /\ pc' = "line" /\ UNCHANGED <<line, victims, i, alreadyCappedHosts, triedInVain>>
  BY <1>0 DEF CapNew, NewVictim, CapSucceeds
<1>2. 5000 \in 0 .. Uncapped /\ 5000 \in 0 .. Uncapped - 1
  BY DEF Uncapped
<1>11. PowerTypeOK'
  BY <1>1, <1>2 DEF TypeOK, PowerTypeOK, line
<1>3. /\ orderCapped' \in Seq(Host) /\ Len(orderCapped') = n + 1 /\ n \in Nat
      /\ DOMAIN orderCapped = 1 .. n /\ DOMAIN orderCapped' = 1 .. n + 1
      /\ \A k \in 1 .. n : orderCapped'[k] = orderCapped[k]
      /\ orderCapped'[n + 1] = h
  BY <1>1 DEF TypeOK
<1> HIDE DEF n
<1>4. TypeOK'
  <2>1. /\ cappedVictims' \in [Host -> 0 .. Uncapped - 1]
        /\ orderCappedVictims' \in [Host -> 0 .. Uncapped - 1]
    BY <1>1, <1>2, RecordedStep
  <2> QED
    BY <1>1, <1>11, <1>3, <2>1 DEF TypeOK
<1>5. h \notin Range(orderCapped)
  BY <1>1 DEF StructuresAgree
<1>6. IsInjective(orderCapped')
  BY <1>3, <1>5 DEF StructuresAgree, IsInjective, Range
<1>7. Range(orderCapped') = Range(orderCapped) \cup {h}
  <2>1. ASSUME NEW x \in Range(orderCapped') PROVE x \in Range(orderCapped) \cup {h}
    BY <1>3 DEF Range
  <2>2. ASSUME NEW x \in Range(orderCapped) \cup {h} PROVE x \in Range(orderCapped')
    BY <1>3 DEF Range
  <2> QED
    BY <2>1, <2>2
<1>8. StructuresAgree'
  BY <1>1, <1>6, <1>7 DEF StructuresAgree, TypeOK, LowerCapLimit
<1>9. AtMostOneStepOff'
  BY <1>1, <1>2 DEF AtMostOneStepOff, Tracked, TypeOK, PowerTypeOK, LowerCapLimit
<1>10. LoopInv'
  BY <1>1 DEF LoopInv
<1> QED
  BY <1>4, <1>8, <1>9, <1>10

(* Capping a new victim fails: it is one tried in vain.                    *)
LEMMA CapNewFailsStep ==
    ASSUME ProgInv, CapNewFails
    PROVE  ProgInv'
<1> USE DEF ProgInv
<1>0. PICK h \in Host : h = Victim
  BY DEF CapNewFails, NewVictim, Looking, Victim, TypeOK
<1>1. /\ orderCappedVictims[h] = 0 /\ CapFails(h, 5000)
      /\ Looking /\ i' = i + 1 /\ triedInVain' = triedInVain \cup {h} /\ h = victims[i]
      /\ UNCHANGED <<line, capVars, pc, victims, alreadyCappedHosts>>
  BY <1>0 DEF CapNewFails, NewVictim, Victim
<1>2. /\ PowerTypeOK'
      /\ actual' \in {actual, [actual EXCEPT ![h] = 5000]}
  <2>1. 5000 \in 0 .. Uncapped
    BY DEF Uncapped
  <2> QED
    BY <1>1, <2>1, CapFailsStep
<1>3. TypeOK'
  BY <1>1, <1>2 DEF TypeOK, capVars
<1>4. StructuresAgree'
  BY <1>1 DEF StructuresAgree, capVars
<1>5. AtMostOneStepOff'
  <2>1. CASE actual' = actual
    BY <1>1, <2>1 DEF AtMostOneStepOff, Tracked, capVars
  <2>2. CASE actual' = [actual EXCEPT ![h] = 5000]
    <3>1. \A g \in Host : actual'[g] = IF g = h THEN 5000 ELSE actual[g]
      BY <2>2 DEF TypeOK, PowerTypeOK
    <3>2. 5000 = 10000 \div 2
      OBVIOUS
    <3> QED
      BY <1>1, <3>1, <3>2 DEF AtMostOneStepOff, Tracked, LowerCapLimit, Uncapped, capVars
  <2> QED
    BY <1>2, <2>1, <2>2
<1>6. LoopInv'
  <2>1. \A k \in 1 .. Len(victims) : k < i + 1 => k < i \/ k = i
    BY DEF TypeOK
  <2> QED
    BY <1>1, <2>1 DEF LoopInv, Looking, capVars
<1> QED
  BY <1>3, <1>4, <1>5, <1>6

(* The first loop ends: every host has been looked at.                     *)
LEMMA NoNewVictimStep ==
    ASSUME ProgInv, NoNewVictim
    PROVE  ProgInv'
<1> USE DEF ProgInv
<1>1. /\ pc = "new" /\ i > Len(victims) /\ pc' = "again" /\ i' = 1
      /\ UNCHANGED <<line, rapl, capVars, victims, alreadyCappedHosts, triedInVain>>
  BY DEF NoNewVictim
<1>2. TypeOK'
  BY <1>1 DEF TypeOK, PowerTypeOK, line, rapl, capVars
<1>3. StructuresAgree' /\ AtMostOneStepOff'
  BY <1>1 DEF StructuresAgree, AtMostOneStepOff, Tracked, rapl, capVars
<1>4. victims \in VictimOrders
  BY <1>1 DEF LoopInv
<1>5. ASSUME NEW h \in Host PROVE orderCappedVictims[h] # 0 \/ h \in triedInVain
  <2>1. PICK k \in 1 .. Len(victims) : victims[k] = h
    BY <1>4, VictimsAreTheHosts
  <2>2. k < i
    BY <1>1, <2>1 DEF TypeOK
  <2> QED
    BY <1>1, <2>1, <2>2 DEF LoopInv
<1>6. LoopInv'
  BY <1>1, <1>4, <1>5 DEF LoopInv, rapl, capVars
<1> QED
  BY <1>2, <1>3, <1>6

(* The two loops end without a cap.                                        *)
LEMMA NoVictimLeftStep ==
    ASSUME ProgInv, NoVictimLeft
    PROVE  ProgInv'
<1> USE DEF ProgInv, NoVictimLeft
<1>1. TypeOK'
  BY DEF TypeOK, PowerTypeOK, line, rapl, capVars
<1>2. StructuresAgree' /\ AtMostOneStepOff'
  BY DEF StructuresAgree, AtMostOneStepOff, Tracked, rapl, capVars
<1>3. LoopInv'
  BY DEF LoopInv
<1> QED
  BY <1>1, <1>2, <1>3

(* Halving a cap above the limit.                                          *)
LEMMA NextCap ==
    ASSUME StructuresAgree, NEW h \in Host, orderCappedVictims[h] > LowerCapLimit
    PROVE  /\ \/ /\ orderCappedVictims[h] = 5000
                 /\ getNextCapValue(orderCappedVictims[h]) = 2500
              \/ /\ orderCappedVictims[h] = 2500
                 /\ getNextCapValue(orderCappedVictims[h]) = 1250
           /\ getNextCapValue(orderCappedVictims[h]) \in 0 .. Uncapped - 1
           /\ getNextCapValue(orderCappedVictims[h]) \in 0 .. Uncapped
<1>1. orderCappedVictims[h] = 2500 \/ orderCappedVictims[h] = 5000
  BY DEF StructuresAgree, LowerCapLimit
<1>2. getNextCapValue(2500) = 1250 /\ getNextCapValue(5000) = 2500
  BY DEF getNextCapValue
<1>3. {1250, 2500} \subseteq 0 .. Uncapped - 1 /\ {1250, 2500} \subseteq 0 .. Uncapped
  BY DEF Uncapped
<1> QED
  BY <1>1, <1>2, <1>3

(* A capped victim is capped further.                                      *)
LEMMA CapFurtherStep ==
    ASSUME ProgInv, CapFurther
    PROVE  ProgInv'
<1> USE DEF ProgInv
<1>0. PICK h \in Host : h = CappedHost
  BY DEF CapFurther, Again, CappedHost, TypeOK
<1> DEFINE old == orderCappedVictims[h]
           new == getNextCapValue(old)
<1>1. /\ old > LowerCapLimit
      /\ actual' = [actual EXCEPT ![h] = new] /\ UNCHANGED <<failures, process>>
      /\ cappedVictims' = [cappedVictims EXCEPT ![h] = IF new <= LowerCapLimit THEN 0 ELSE new]
      /\ orderCappedVictims' = [orderCappedVictims EXCEPT ![h] = new]
      /\ pc' = "line" /\ UNCHANGED <<line, orderCapped, victims, i, alreadyCappedHosts, triedInVain>>
  BY <1>0 DEF CapFurther, CapSucceeds, capValue, CappedAfter
<1>2. /\ (old = 5000 /\ new = 2500) \/ (old = 2500 /\ new = 1250)
      /\ new \in 0 .. Uncapped - 1 /\ new \in 0 .. Uncapped
  BY <1>1, NextCap
<1> HIDE DEF new, old
<1>3. TypeOK'
  <2>1. PowerTypeOK'
    BY <1>1, <1>2 DEF TypeOK, PowerTypeOK, line
  <2>2. orderCappedVictims' \in [Host -> 0 .. Uncapped - 1]
    BY <1>1, <1>2 DEF TypeOK
  <2>3. (IF new <= LowerCapLimit THEN 0 ELSE new) \in 0 .. Uncapped - 1
    BY <1>2 DEF Uncapped
  <2>4. cappedVictims' \in [Host -> 0 .. Uncapped - 1]
    BY <1>1, <2>3 DEF TypeOK
  <2> QED
    BY <1>1, <2>1, <2>2, <2>4 DEF TypeOK
<1>4. /\ \A g \in Host : orderCappedVictims'[g] = IF g = h THEN new ELSE orderCappedVictims[g]
      /\ \A g \in Host : actual'[g] = IF g = h THEN new ELSE actual[g]
      /\ \A g \in Host : cappedVictims'[g] =
           IF g = h THEN (IF new <= LowerCapLimit THEN 0 ELSE new) ELSE cappedVictims[g]
  BY <1>1 DEF TypeOK, PowerTypeOK
<1>5. StructuresAgree'
  BY <1>1, <1>2, <1>4 DEF StructuresAgree, LowerCapLimit, old
<1>6. AtMostOneStepOff'
  <2>1. new # 0 /\ new >= LowerCapLimit
    BY <1>2 DEF LowerCapLimit
  <2>2. actual'[h] = new /\ Tracked(h)' = new
    BY <1>4, <2>1 DEF Tracked
  <2> QED
    BY <1>4, <2>1, <2>2, OneStepOff
<1>7. LoopInv'
  BY <1>1 DEF LoopInv
<1> QED
  BY <1>3, <1>5, <1>6, <1>7

(* Capping a victim further fails, or there is nothing to do for it.       *)
LEMMA CapFurtherFailsStep ==
    ASSUME ProgInv, CapFurtherFails
    PROVE  ProgInv'
<1> USE DEF ProgInv
<1>0. PICK h \in Host : h = CappedHost
  BY DEF CapFurtherFails, Again, CappedHost, TypeOK
<1> DEFINE old == orderCappedVictims[h]
           new == getNextCapValue(old)
<1>1. /\ old > LowerCapLimit => CapFails(h, new)
      /\ old <= LowerCapLimit => UNCHANGED rapl
      /\ pc = "again" /\ i' = i + 1
      /\ UNCHANGED <<line, capVars, pc, victims, alreadyCappedHosts, triedInVain>>
  BY <1>0 DEF CapFurtherFails, capValue, Again
<1>2. /\ PowerTypeOK'
      /\ \/ actual' = actual
         \/ actual' = [actual EXCEPT ![h] = new] /\ new * 2 = old /\ new >= 1250
  <2>1. CASE old > LowerCapLimit
    <3>1. /\ new \in 0 .. Uncapped /\ new * 2 = old /\ new >= 1250
      BY <2>1, NextCap
    <3> QED
      BY <1>1, <2>1, <3>1, CapFailsStep
  <2>2. CASE ~(old > LowerCapLimit)
    <3>1. old <= LowerCapLimit
      BY <2>2 DEF StructuresAgree, LowerCapLimit
    <3>2. UNCHANGED rapl
      BY <1>1, <3>1
    <3> QED
      BY <1>1, <3>2 DEF rapl, line, TypeOK, PowerTypeOK
  <2> QED
    BY <2>1, <2>2
<1> HIDE DEF old, new
<1>3. TypeOK'
  BY <1>1, <1>2 DEF TypeOK, capVars
<1>4. StructuresAgree'
  BY <1>1 DEF StructuresAgree, capVars
<1>5. AtMostOneStepOff'
  <2>1. CASE actual' = actual
    BY <1>1, <2>1 DEF AtMostOneStepOff, Tracked, capVars
  <2>2. CASE actual' = [actual EXCEPT ![h] = new] /\ new * 2 = old /\ new >= 1250
    <3>1. old \in {2500, 5000} /\ new = old \div 2
      BY <2>2 DEF StructuresAgree, old, new, getNextCapValue
    <3>2. \A g \in Host : actual'[g] = IF g = h THEN new ELSE actual[g]
      BY <2>2 DEF TypeOK, PowerTypeOK
    <3> QED
      <4>1. Tracked(h)' = old /\ actual'[h] = old \div 2 /\ actual'[h] >= LowerCapLimit
        BY <1>1, <2>2, <3>1, <3>2 DEF Tracked, LowerCapLimit, capVars, old
      <4> QED
        BY <1>1, <3>2, <4>1, OneStepOff DEF capVars
  <2> QED
    BY <1>2, <2>1, <2>2
<1>6. LoopInv'
  BY <1>1, <1>2 DEF LoopInv, capVars
<1> QED
  BY <1>3, <1>4, <1>5, <1>6

(* Doubling the cap of the host that is capped the most.                   *)
LEMMA NextUncap ==
    ASSUME StructuresAgree, NEW h \in Host, MostCapped(h)
    PROVE  /\ orderCappedVictims[h] \in {1250, 2500, 5000}
           /\ newUncapValue(h) = orderCappedVictims[h] * 2
           /\ newUncapValue(h) \in {2500, 5000, 10000}
           /\ newUncapValue(h) \in 0 .. Uncapped
           /\ newUncapValue(h) >= Uncapped <=> newUncapValue(h) = 10000
<1>1. orderCappedVictims[h] \in {1250, 2500, 5000}
  BY DEF StructuresAgree, MostCapped
<1>2. /\ newUncapValue(h) = orderCappedVictims[h] * 2
      /\ newUncapValue(h) \in {2500, 5000, 10000}
  BY <1>1 DEF newUncapValue
<1>3. newUncapValue(h) \in Nat /\ newUncapValue(h) <= 10000
  BY <1>2
<1>4. Uncapped \in Nat /\ newUncapValue(h) <= Uncapped
  BY <1>3, Scale
<1>5. newUncapValue(h) >= Uncapped <=> newUncapValue(h) = 10000
  BY <1>3, Scale
<1> QED
  BY <1>1, <1>2, <1>3, <1>4, <1>5

(* Either map once a host is uncapped.                                     *)
LEMMA UncappedEntryOf ==
    ASSUME StructuresAgree, NEW h \in Host, MostCapped(h),
           NEW map \in [Host -> 0 .. Uncapped - 1]
    PROVE  /\ UncappedEntry(map, h) \in [Host -> 0 .. Uncapped - 1]
           /\ \A g \in Host : UncappedEntry(map, h)[g] =
                IF g = h THEN (IF newUncapValue(h) = 10000 THEN 0 ELSE newUncapValue(h))
                ELSE map[g]
<1> DEFINE new == newUncapValue(h)
<1>1. new \in {2500, 5000, 10000}
  BY NextUncap
<1>2. CASE new = 10000
  <2>1. UncappedEntry(map, h) = [map EXCEPT ![h] = 0] /\ 0 \in 0 .. Uncapped - 1
    BY <1>2 DEF UncappedEntry, Uncapped
  <2> QED
    BY <1>2, <2>1
<1>3. CASE new # 10000
  <2>1. /\ UncappedEntry(map, h) = [map EXCEPT ![h] = new]
        /\ new \in 0 .. Uncapped - 1
    <3> HIDE DEF new
    <3>1. new = 2500 \/ new = 5000
      BY <1>1, <1>3
    <3>2. new \in Nat /\ new < 10000 /\ new > 1250
      BY <3>1
    <3>3. new \in 0 .. Uncapped - 1 /\ ~(new >= Uncapped) /\ new > LowerCapLimit
      BY <3>2, Scale DEF LowerCapLimit
    <3> QED
      BY <3>3 DEF UncappedEntry, new
  <2> QED
    BY <1>3, <2>1
<1> QED
  BY <1>2, <1>3

(* The host that is capped the most is uncapped, partly or for good.       *)
LEMMA UncapStep ==
    ASSUME ProgInv, NEW h \in Host, Uncap(h)
    PROVE  ProgInv'
<1> USE DEF ProgInv
<1> DEFINE old == orderCappedVictims[h]
           new == newUncapValue(h)
           entry == IF new = 10000 THEN 0 ELSE new
<1>1. /\ old \in {1250, 2500, 5000} /\ new = old * 2 /\ new \in {2500, 5000, 10000}
      /\ new \in 0 .. Uncapped /\ (new >= Uncapped <=> new = 10000)
  BY NextUncap DEF Uncap
<1>2. /\ actual' = [actual EXCEPT ![h] = new] /\ UNCHANGED <<failures, process>>
      /\ orderCapped' = IF new = 10000 THEN OrderWithout(h) ELSE orderCapped
      /\ pc' = "line" /\ UNCHANGED <<line, victims, i, alreadyCappedHosts, triedInVain>>
  BY <1>1 DEF Uncap, CapSucceeds
<1>3. /\ orderCappedVictims' \in [Host -> 0 .. Uncapped - 1]
      /\ cappedVictims' \in [Host -> 0 .. Uncapped - 1]
      /\ \A g \in Host : orderCappedVictims'[g] = IF g = h THEN entry ELSE orderCappedVictims[g]
      /\ \A g \in Host : cappedVictims'[g] = IF g = h THEN entry ELSE cappedVictims[g]
  <2>1. /\ orderCappedVictims' = UncappedEntry(orderCappedVictims, h)
        /\ cappedVictims' = UncappedEntry(cappedVictims, h)
        /\ MostCapped(h) /\ StructuresAgree
    BY DEF Uncap
  <2>2. /\ orderCappedVictims \in [Host -> 0 .. Uncapped - 1]
        /\ cappedVictims \in [Host -> 0 .. Uncapped - 1]
    BY DEF TypeOK
  <2> QED
    BY <2>1, <2>2, UncappedEntryOf
<1> HIDE DEF old, new
<1>4. /\ entry \in {0, 2500, 5000}
      /\ (entry = 0 /\ new = 10000) \/ (entry = new /\ new # 10000)
  BY <1>1 DEF Uncapped
<1> HIDE DEF entry
<1>5. \A g \in Host : actual'[g] = IF g = h THEN new ELSE actual[g]
  BY <1>2 DEF TypeOK, PowerTypeOK
<1>6. h \in Range(orderCapped)
  BY <1>1 DEF StructuresAgree, old
<1>7. /\ orderCapped' \in Seq(Host) /\ IsInjective(orderCapped')
      /\ Range(orderCapped') = IF new = 10000 THEN Range(orderCapped) \ {h} ELSE Range(orderCapped)
  <2>1. CASE new = 10000
    BY <1>2, <1>6, <2>1, OrderWithoutHost DEF StructuresAgree, TypeOK
  <2>2. CASE new # 10000
    BY <1>2, <2>2 DEF StructuresAgree, TypeOK
  <2> QED
    BY <2>1, <2>2
<1>8. TypeOK'
  <2>1. PowerTypeOK'
    BY <1>1, <1>2 DEF TypeOK, PowerTypeOK, line
  <2> QED
    BY <1>2, <1>3, <1>7, <2>1 DEF TypeOK
<1>9. Range(orderCapped') = {g \in Host : orderCappedVictims'[g] # 0}
  <2>1. Range(orderCapped) = {g \in Host : orderCappedVictims[g] # 0}
    BY DEF StructuresAgree
  <2>2. CASE new = 10000
    <3>1. Range(orderCapped') = Range(orderCapped) \ {h} /\ entry = 0
      BY <1>4, <1>7, <2>2
    <3> QED
      BY <1>3, <2>1, <3>1
  <2>3. CASE new # 10000
    <3>1. Range(orderCapped') = Range(orderCapped) /\ entry # 0
      BY <1>1, <1>4, <1>7, <2>3
    <3> QED
      BY <1>3, <1>6, <2>1, <3>1
  <2> QED
    BY <2>2, <2>3
<1>10. StructuresAgree'
  <2>1. ASSUME NEW g \in Host
        PROVE  /\ orderCappedVictims'[g] \in {0, 1250, 2500, 5000}
               /\ cappedVictims'[g] = IF orderCappedVictims'[g] > LowerCapLimit
                                      THEN orderCappedVictims'[g] ELSE 0
    <3>1. CASE g = h
      BY <1>3, <1>4, <3>1 DEF LowerCapLimit
    <3>2. CASE g # h
      BY <1>3, <3>2 DEF StructuresAgree
    <3> QED
      BY <3>1, <3>2
  <2> QED
    BY <1>7, <1>9, <2>1 DEF StructuresAgree
<1>11. AtMostOneStepOff'
  <2>1. new >= LowerCapLimit
    BY <1>1 DEF LowerCapLimit
  <2>2. Tracked(h)' = new
    <3>1. CASE entry = 0 /\ new = 10000
      <4>1. Tracked(h)' = Uncapped
        BY <1>3, <3>1 DEF Tracked
      <4> QED
        BY <3>1, <4>1, Scale
    <3>2. CASE entry = new /\ new # 10000
      BY <1>1, <1>3, <3>2 DEF Tracked
    <3> QED
      BY <1>4, <3>1, <3>2
  <2> QED
    BY <1>3, <1>5, <2>1, <2>2, OneStepOff
<1>12. LoopInv'
  BY <1>2 DEF LoopInv
<1> QED
  BY <1>8, <1>10, <1>11, <1>12

(* Uncapping fails.                                                        *)
LEMMA UncapFailsStep ==
    ASSUME ProgInv, NEW h \in Host, UncapFails(h)
    PROVE  ProgInv'
<1> USE DEF ProgInv
<1> DEFINE old == orderCappedVictims[h]
           new == newUncapValue(h)
<1>1. old \in {1250, 2500, 5000} /\ new = old * 2 /\ new \in 0 .. Uncapped
  BY NextUncap DEF UncapFails
<1>2. CapFails(h, new) /\ pc' = "line" /\ UNCHANGED <<line, capVars, victims, i, alreadyCappedHosts, triedInVain>>
  BY DEF UncapFails
<1>3. PowerTypeOK' /\ actual' \in {actual, [actual EXCEPT ![h] = new]}
  BY <1>1, <1>2, CapFailsStep
<1> HIDE DEF old, new
<1>4. TypeOK'
  BY <1>2, <1>3 DEF TypeOK, capVars
<1>5. StructuresAgree'
  BY <1>2 DEF StructuresAgree, capVars
<1>6. AtMostOneStepOff'
  <2>1. CASE actual' = actual
    BY <1>2, <2>1 DEF AtMostOneStepOff, Tracked, capVars
  <2>2. CASE actual' = [actual EXCEPT ![h] = new]
    <3>1. \A g \in Host : actual'[g] = IF g = h THEN new ELSE actual[g]
      BY <2>2 DEF TypeOK, PowerTypeOK
    <3> QED
      <4>1. Tracked(h)' = old /\ actual'[h] = old * 2 /\ actual'[h] >= LowerCapLimit
        BY <1>1, <1>2, <3>1 DEF Tracked, LowerCapLimit, capVars, old
      <4> QED
        BY <1>2, <3>1, <4>1, OneStepOff DEF capVars
  <2> QED
    BY <1>3, <2>1, <2>2
<1>7. LoopInv'
  BY <1>2 DEF LoopInv
<1> QED
  BY <1>4, <1>5, <1>6, <1>7

(* The hosts start uncapped.                                               *)
LEMMA ProgInit == Init => ProgInv
<1> SUFFICES ASSUME Init PROVE ProgInv
  OBVIOUS
<1> USE DEF Init, PowerInit
<1>1. TypeOK
  BY PowerAssumption DEF TypeOK, PowerTypeOK, Uncapped
<1>2. orderCapped = <<>> /\ DOMAIN orderCapped = {}
  OBVIOUS
<1>3. StructuresAgree
  BY <1>2 DEF StructuresAgree, IsInjective, Range, LowerCapLimit
<1>4. AtMostOneStepOff
  BY DEF AtMostOneStepOff, Tracked, LowerCapLimit, Uncapped
<1>5. LoopInv
  BY DEF LoopInv
<1> QED
  BY <1>1, <1>3, <1>4, <1>5 DEF ProgInv

(* Every step keeps the invariant.                                         *)
LEMMA ProgStep == ProgInv /\ [Next]_vars => ProgInv'
<1> SUFFICES ASSUME ProgInv, [Next]_vars PROVE ProgInv'
  OBVIOUS
<1>1. CASE Line
  BY <1>1, ScanLineStep DEF Line
<1>2. CASE Handle
  <2>1. CappingStep
    BY <1>2 DEF Handle
  <2> QED
    BY <2>1, PassedStep, CapNewStep, CapNewFailsStep, NoNewVictimStep, CapFurtherStep,
       CapFurtherFailsStep, NoVictimLeftStep, UncapStep, UncapFailsStep DEF CappingStep
<1>3. CASE UNCHANGED vars
  <2>1. TypeOK'
    BY <1>3 DEF ProgInv, TypeOK, PowerTypeOK, vars, line, rapl, capVars, loopVars
  <2>2. StructuresAgree' /\ AtMostOneStepOff'
    BY <1>3 DEF ProgInv, StructuresAgree, AtMostOneStepOff, Tracked, vars, rapl, capVars
  <2>3. LoopInv'
    BY <1>3 DEF ProgInv, LoopInv, vars, rapl, capVars, loopVars
  <2> QED
    BY <2>1, <2>2, <2>3 DEF ProgInv
<1> QED
  BY <1>1, <1>2, <1>3 DEF Next

(* The invariant holds in every state.                                     *)
LEMMA ProgAlways == Spec => []ProgInv
BY ProgInit, ProgStep, PTL DEF Spec

------------------------------------------------------------------------------
(* Every variable of the progressive policy has its type.                  *)
THEOREM TypeCorrect == Spec => []TypeOK
<1>1. ProgInv => TypeOK
  BY DEF ProgInv
<1> QED
  BY <1>1, ProgAlways, PTL

(* The three structures of the policy agree, whichever calls of rapl.Cap   *)
(* failed and for any number of hosts.                                     *)
THEOREM StructuresAlwaysAgree == Spec => []StructuresAgree
<1>1. ProgInv => StructuresAgree
  BY DEF ProgInv
<1> QED
  BY <1>1, ProgAlways, PTL

(* However many calls failed and took effect all the same, the cap in      *)
(* force is at most one step from the recorded one, and never below the    *)
(* limit.                                                                  *)
THEOREM NeverTwoStepsOff == Spec => []AtMostOneStepOff
<1>1. ProgInv => AtMostOneStepOff
  BY DEF ProgInv
<1> QED
  BY <1>1, ProgAlways, PTL

(* A host is capped further only when each host without a cap is one whose *)
(* first cap failed on this line: only CapFurther lowers a cap, and it     *)
(* runs in the second loop, which starts past the last of the victims.     *)
THEOREM FurtherOnlyAfterEveryHost == Spec => EveryHostBeforeFurther
<1> DEFINE Lowered == \A h \in Host :
             orderCappedVictims'[h] \in 1 .. orderCappedVictims[h] - 1
               => \A g \in Host : orderCappedVictims[g] # 0 \/ g \in triedInVain
<1>1. ProgInv /\ [Next]_vars => [Lowered]_vars
  <2> SUFFICES ASSUME ProgInv, Next, NEW h \in Host,
                      orderCappedVictims'[h] \in 1 .. orderCappedVictims[h] - 1
               PROVE  \A g \in Host : orderCappedVictims[g] # 0 \/ g \in triedInVain
    OBVIOUS
  <2>1. CASE pc = "again"
    BY <2>1 DEF ProgInv, LoopInv
  <2>2. CASE pc # "again"
    <3>1. orderCappedVictims' # orderCappedVictims
      <4>1. orderCappedVictims[h] \in Int
        BY CapType DEF ProgInv, TypeOK
      <4> QED
        BY <4>1
    <3>2. CapNew \/ \E g \in Host : Uncap(g)
      BY <2>2, <3>1 DEF Next, Line, ScanLine, Handle, CappingStep, AlreadyCapped, CappedToLimit,
         CapNewFails, NoNewVictim, CapFurther, CapFurtherFails, NoVictimLeft, UncapFails,
         Again, capVars
    <3>3. CASE CapNew
      <4>1. orderCappedVictims \in [Host -> 0 .. Uncapped - 1]
        BY DEF ProgInv, TypeOK
      <4>2. /\ orderCappedVictims[Victim] = 0
            /\ orderCappedVictims' = [orderCappedVictims EXCEPT ![Victim] = 5000]
        BY <3>3 DEF CapNew, NewVictim
      <4>3. h # Victim
        BY <4>2
      <4>4. orderCappedVictims'[h] = orderCappedVictims[h] /\ orderCappedVictims[h] \in Int
        BY <4>1, <4>2, <4>3, CapType
      <4> QED
        BY <4>4
    <3>4. ASSUME NEW g \in Host, Uncap(g) PROVE FALSE
      <4>1. /\ orderCappedVictims[g] \in {1250, 2500, 5000}
            /\ newUncapValue(g) = orderCappedVictims[g] * 2
        BY <3>4, NextUncap DEF Uncap, ProgInv
      <4>2. orderCappedVictims' = UncappedEntry(orderCappedVictims, g)
        BY <3>4 DEF Uncap
      <4>3. /\ orderCappedVictims \in [Host -> 0 .. Uncapped - 1]
            /\ MostCapped(g) /\ StructuresAgree
        BY <3>4 DEF ProgInv, TypeOK, Uncap
      <4>4. orderCappedVictims'[h] =
              IF h = g THEN (IF newUncapValue(g) = 10000 THEN 0 ELSE newUncapValue(g))
              ELSE orderCappedVictims[h]
        BY <4>2, <4>3, UncappedEntryOf
      <4>5. orderCappedVictims[h] \in Int
        BY <4>3, CapType
      <4> QED
        BY <4>1, <4>4, <4>5
    <3> QED
      BY <3>2, <3>3, <3>4
  <2> QED
    BY <2>1, <2>2
<1> QED
  BY <1>1, ProgAlways, PTL DEF Spec, EveryHostBeforeFurther
==============================================================================
