------------------------ MODULE SchedPolicies_proofs -------------------------
(***************************************************************************)
(* Proofs about SchedPolicies, for every workload, cluster and offer.      *)
(***************************************************************************)
EXTENDS SchedPolicies, FiniteSetTheorems, TLAPS

(* What remains of a queue without its k-th task is a queue.               *)
LEMMA WithoutType ==
    ASSUME NEW S, NEW q \in Seq(S), NEW k \in 1 .. Len(q)
    PROVE  /\ Without(q, k) \in Seq(S)
           /\ Len(Without(q, k)) = Len(q) - 1
           /\ \A j \in 1 .. Len(q) - 1 :
                Without(q, k)[j] = IF j < k THEN q[j] ELSE q[j + 1]
<1> DEFINE n == Len(q) - 1
           w == [j \in 1 .. n |-> IF j < k THEN q[j] ELSE q[j + 1]]
<1>1. n \in Nat
  OBVIOUS
<1>2. w \in [1 .. n -> S]
  OBVIOUS
<1>3. w \in Seq(S) /\ Len(w) = n
  BY <1>1, <1>2
<1> QED
  BY <1>3 DEF Without

(* No position is left twice and no task but the k-th is lost.             *)
LEMMA WithoutRange ==
    ASSUME NEW S, NEW q \in Seq(S), NEW k \in 1 .. Len(q), IsInjective(q)
    PROVE  /\ IsInjective(Without(q, k))
           /\ Range(Without(q, k)) = Range(q) \ {q[k]}
<1> DEFINE w == Without(q, k)
<1>1. /\ w \in Seq(S)
      /\ Len(w) = Len(q) - 1
      /\ \A j \in 1 .. Len(q) - 1 : w[j] = IF j < k THEN q[j] ELSE q[j + 1]
  BY WithoutType
<1>2. DOMAIN q = 1 .. Len(q) /\ DOMAIN w = 1 .. Len(q) - 1
  BY <1>1
<1>3. \A a, b \in 1 .. Len(q) : q[a] = q[b] => a = b
  BY <1>2 DEF IsInjective
<1>4. IsInjective(w)
  <2> SUFFICES ASSUME NEW a \in 1 .. Len(q) - 1, NEW b \in 1 .. Len(q) - 1, w[a] = w[b]
               PROVE  a = b
    BY <1>2 DEF IsInjective
  <2> QED
    BY <1>1, <1>3
<1>5. ASSUME NEW x \in Range(w) PROVE x \in Range(q) \ {q[k]}
  <2>1. PICK j \in 1 .. Len(q) - 1 : w[j] = x
    BY <1>2, <1>5 DEF Range
  <2>2. CASE j < k
    BY <1>1, <1>2, <1>3, <2>1, <2>2 DEF Range
  <2>3. CASE ~(j < k)
    BY <1>1, <1>2, <1>3, <2>1, <2>3 DEF Range
  <2> QED
    BY <2>2, <2>3
<1>6. ASSUME NEW x \in Range(q) \ {q[k]} PROVE x \in Range(w)
  <2>1. PICK j \in 1 .. Len(q) : q[j] = x
    BY <1>2, <1>6 DEF Range
  <2>2. CASE j < k
    BY <1>1, <1>2, <2>1, <2>2 DEF Range
  <2>3. CASE j > k
    <3>1. j - 1 \in 1 .. Len(q) - 1 /\ w[j - 1] = x
      BY <1>1, <2>1, <2>3
    <3> QED
      BY <1>2, <3>1 DEF Range
  <2>4. j # k
    BY <2>1
  <2> QED
    BY <2>2, <2>3, <2>4
<1> QED
  BY <1>4, <1>5, <1>6

------------------------------------------------------------------------------
(* The inductive invariant: the invariants of SchedPolicies, and what the  *)
(* loops rely on.  While an offer is scanned it is the head of offers; a   *)
(* policy leaves nothing packed when it is done with an offer, first-fit   *)
(* never packs; and max-min's index has moved away from the end it started *)
(* at by no more than i has.                                               *)
ScanInv ==
    /\ InScan => offers # <<>>
    /\ pc = "max" => curSchedPolicy = "max-greedymins"
    /\ (pc \in {"idle", "consume", "offer"} \/ curSchedPolicy = "first-fit")
         => packed = {}

MaxMinInv ==
    pc = "scan" /\ curSchedPolicy = "max-min" /\ ~start =>
        IF direction THEN index \in 1 .. i
                     ELSE index \in (Len(tasks) - i + 1) .. Len(tasks)

PositionInv ==
    /\ pc = "max" => i \in 0 .. Len(tasks)
    /\ pc = "scan" => i >= 1
    /\ MaxMinInv

IndInv ==
    /\ TypeOK
    /\ QueueHoldsPending
    /\ EachInstanceOnce
    /\ ShutdownWhenDrained
    /\ NeverOverpacked
    /\ ScanInv
    /\ PositionInv

(* When an instance of the k-th task is taken, the queue keeps the tasks   *)
(* with instances left and Shutdown follows it.                            *)
LEMMA DequeueQueue ==
    ASSUME TypeOK, QueueHoldsPending, ShutdownWhenDrained,
           NEW k \in 1 .. Len(tasks), Dequeue(k)
    PROVE  /\ tasks' \in Seq(Task)
           /\ instances' \in [Task -> Int]
           /\ Shutdown' \in {"open", "closed", "panicked"}
           /\ numTasksScheduled' \in [Policy -> Nat]
           /\ QueueHoldsPending'
           /\ ShutdownWhenDrained'
<1> DEFINE t == tasks[k]
<1>1. t \in Task /\ t \in Range(tasks) /\ instances[t] \in 1 .. Def[t].Instances
  <2>1. t \in Task /\ t \in Range(tasks)
    BY DEF TypeOK, Range
  <2> QED
    BY <2>1 DEF TypeOK, QueueHoldsPending
<1>2. /\ instances' \in [Task -> Int]
      /\ instances'[t] = instances[t] - 1
      /\ \A u \in Task : u # t => instances'[u] = instances[u]
  BY <1>1 DEF TypeOK, Dequeue
<1>3. numTasksScheduled' \in [Policy -> Nat]
  BY DEF TypeOK, Dequeue
<1>4. \A u \in Task : instances'[u] \in 0 .. Def[u].Instances
  <2> TAKE u \in Task
  <2>1. Def[u].Instances \in Nat
    BY TaskAssumption DEF TaskDef
  <2> QED
    BY <1>1, <1>2, <2>1 DEF QueueHoldsPending
<1>5. CASE LastInstance(k)
  <2>1. tasks' = Without(tasks, k)
    BY <1>5 DEF Dequeue, QueueAfter
  <2>2. tasks' \in Seq(Task) /\ Len(tasks') = Len(tasks) - 1
    BY <2>1, WithoutType DEF TypeOK
  <2>3. IsInjective(tasks') /\ Range(tasks') = Range(tasks) \ {t}
    BY <2>1, WithoutRange DEF TypeOK, QueueHoldsPending
  <2>4. instances[t] = 1
    BY <1>1, <1>5 DEF LastInstance
  <2>5. Range(tasks') = {u \in Task : instances'[u] > 0}
    BY <1>2, <2>3, <2>4 DEF QueueHoldsPending
  <2>6. Shutdown = "open"
    BY DEF ShutdownWhenDrained, TypeOK
  <2>7. Shutdown' = IF tasks' = <<>> THEN "closed" ELSE "open"
    BY <1>5, <2>1, <2>6 DEF Dequeue, ShutdownAfter, QueueAfter, CloseChan
  <2> QED
    BY <1>2, <1>3, <1>4, <2>2, <2>3, <2>5, <2>7
    DEF QueueHoldsPending, ShutdownWhenDrained
<1>6. CASE ~LastInstance(k)
  <2>1. tasks' = tasks /\ Shutdown' = Shutdown
    BY <1>6 DEF Dequeue, QueueAfter, ShutdownAfter
  <2>2. instances[t] - 1 > 0
    BY <1>1, <1>6 DEF LastInstance
  <2>3. Range(tasks') = {u \in Task : instances'[u] > 0}
    BY <1>2, <2>1, <2>2 DEF QueueHoldsPending
  <2> QED
    BY <1>2, <1>3, <1>4, <2>1, <2>3
    DEF TypeOK, QueueHoldsPending, ShutdownWhenDrained
<1> QED
  BY <1>5, <1>6

(* Scheduled gains exactly the instance newTask named, which was not yet   *)
(* in it.                                                                  *)
LEMMA DequeueScheduled ==
    ASSUME TypeOK, QueueHoldsPending, NEW k \in 1 .. Len(tasks), Dequeue(k)
    PROVE  /\ newTask(tasks[k]) \in Task \X Int
           /\ newTask(tasks[k]) \notin Scheduled
           /\ Scheduled' = Scheduled \cup {newTask(tasks[k])}
<1> DEFINE t == tasks[k]
<1>1. t \in Task /\ instances[t] \in 1 .. Def[t].Instances /\ Def[t].Instances \in Nat
  <2>1. t \in Task /\ t \in Range(tasks)
    BY DEF TypeOK, Range
  <2>2. Def[t].Instances \in Nat
    BY <2>1, TaskAssumption DEF TaskDef
  <2> QED
    BY <2>1, <2>2 DEF TypeOK, QueueHoldsPending
<1>2. /\ instances'[t] = instances[t] - 1
      /\ \A u \in Task : u # t => instances'[u] = instances[u]
  BY <1>1 DEF TypeOK, Dequeue
<1>3. {t} \X ((instances'[t] + 1) .. Def[t].Instances)
        = ({t} \X ((instances[t] + 1) .. Def[t].Instances)) \cup {<<t, instances[t]>>}
  <2>1. (instances'[t] + 1) .. Def[t].Instances
          = ((instances[t] + 1) .. Def[t].Instances) \cup {instances[t]}
    BY <1>1, <1>2
  <2> QED
    BY <2>1
<1>4. Scheduled' = Scheduled \cup {<<t, instances[t]>>}
  BY <1>1, <1>2, <1>3 DEF Scheduled
<1>5. <<t, instances[t]>> \notin Scheduled
  <2> SUFFICES ASSUME NEW u \in Task,
                      <<t, instances[t]>> \in {u} \X ((instances[u] + 1) .. Def[u].Instances)
               PROVE  FALSE
    BY DEF Scheduled
  <2>1. t = u /\ instances[t] \in (instances[t] + 1) .. Def[t].Instances
    OBVIOUS
  <2> QED
    BY <1>1, <2>1
<1> QED
  BY <1>1, <1>4, <1>5 DEF newTask

(* WattsToConsider is a number for every task and offer, so the totals a   *)
(* policy carries are numbers too.                                         *)
LEMMA UsingType ==
    ASSUME NEW u \in Usage, NEW t \in Task, NEW o \in Offer
    PROVE  Using(u, t, o) \in Usage
<1>1. Def[t] \in TaskDef /\ o \in OfferDef /\ ClassOf[o.agent] \in PowerClass
  BY TaskAssumption, OfferAssumption DEF OfferDef
<1>2. Def[t].CPU \in Nat /\ Def[t].RAM \in Nat /\ Def[t].Watts \in Nat
  BY <1>1 DEF TaskDef
<1>3. UsesClassMap(t) => Def[t].ClassToWatts \in [PowerClass -> Nat]
  BY <1>1 DEF TaskDef, UsesClassMap
<1>4. WattsToConsider(t, o) \in Nat
  BY <1>1, <1>2, <1>3 DEF WattsToConsider
<1> QED
  BY <1>2, <1>4 DEF Using, Usage

(* The totals start as numbers.                                            *)
LEMMA NoUsageType == NoUsage \in Usage
  BY DEF NoUsage, Usage

(* What an offer being scanned is.                                         *)
LEMMA OfferType ==
    ASSUME TypeOK, offers # <<>>
    PROVE  offer \in Offer /\ Tail(offers) \in Seq(Offer)
  BY DEF TypeOK, offer

------------------------------------------------------------------------------
(* The invariants hold when the framework registers with Mesos, whatever   *)
(* the size of the first scheduling window.                                *)
LEMMA InitInv ==
    ASSUME NEW size \in Nat, InitWithWindow(size)
    PROVE  IndInv
<1> USE DEF InitWithWindow
<1>1. Cardinality(Task) \in Nat
  BY TaskAssumption, FS_CardinalityType
<1>2. tasks \in Seq(Task) /\ IsInjective(tasks) /\ Range(tasks) = Task
  BY <1>1
<1>3. instances \in [Task -> Int] /\ \A t \in Task : Def[t].Instances \in Nat \ {0}
  BY TaskAssumption DEF TaskDef
<1>4. tasks # <<>>
  <2>1. Cardinality(Task) # 0
    BY TaskAssumption, FS_EmptySet
  <2> QED
    BY <1>1, <2>1
<1>5. TypeOK
  <2>1. direction \in BOOLEAN /\ start \in BOOLEAN /\ hasReceivedResourceOffers \in BOOLEAN
    BY Zenon
  <2>2. curSchedPolicy \in Policy /\ numTasksScheduled \in [Policy -> Nat]
    BY PolicyAssumption
  <2>3. offers \in Seq(Offer) /\ total \in Usage /\ pc \in Pcs
    BY NoUsageType DEF Pcs
  <2>4. packed \in SUBSET (Task \X Int) /\ launched \in SUBSET (Task \X Int)
    OBVIOUS
  <2> QED
    BY <1>2, <1>3, <2>1, <2>2, <2>3, <2>4 DEF TypeOK
<1>6. QueueHoldsPending
  BY <1>2, <1>3 DEF QueueHoldsPending
<1>7. EachInstanceOnce
  <2>1. \A t \in Task : {t} \X ((instances[t] + 1) .. Def[t].Instances) = {}
    BY <1>3
  <2>2. Scheduled = {}
    BY <2>1 DEF Scheduled
  <2> QED
    BY <2>2 DEF EachInstanceOnce
<1>8. ShutdownWhenDrained
  BY <1>4 DEF ShutdownWhenDrained
<1>9. NeverOverpacked /\ ScanInv /\ PositionInv
  BY DEF NeverOverpacked, ScanInv, PositionInv, MaxMinInv, InScan
<1> QED
  BY <1>5, <1>6, <1>7, <1>8, <1>9 DEF IndInv

(* A step that touches neither the queue nor what was packed or launched.  *)
LEMMA QueueFrame ==
    ASSUME IndInv, UNCHANGED <<queueVars, packed, launched>>
    PROVE  QueueHoldsPending' /\ EachInstanceOnce' /\ ShutdownWhenDrained'
  BY DEF IndInv, queueVars, QueueHoldsPending, EachInstanceOnce, Scheduled,
         ShutdownWhenDrained

(* The steps around the scan of an offer.                                  *)
LEMMA BetweenOffersStep ==
    ASSUME IndInv,
           \/ \E os \in OfferBatch : ResourceOffers(os)
           \/ Return \/ DeclineNoPendingTasks \/ BeginOffer
    PROVE  IndInv'
<1> USE DEF IndInv
<1>1. ASSUME NEW os \in OfferBatch, ResourceOffers(os) PROVE IndInv'
  <2>1. QueueHoldsPending' /\ EachInstanceOnce' /\ ShutdownWhenDrained'
    BY <1>1, QueueFrame DEF ResourceOffers
  <2>2. os \in Seq(Offer)
    BY DEF OfferBatch
  <2>3. TypeOK'
    BY <1>1, <2>2 DEF ResourceOffers, TypeOK, Pcs, queueVars, policyVars, scanVars
  <2>4. NeverOverpacked' /\ ScanInv' /\ PositionInv'
    BY <1>1 DEF ResourceOffers, NeverOverpacked, ScanInv, PositionInv, MaxMinInv,
                InScan, policyVars
  <2> QED
    BY <2>1, <2>3, <2>4
<1>2. CASE Return
  <2>1. QueueHoldsPending' /\ EachInstanceOnce' /\ ShutdownWhenDrained'
    BY <1>2, QueueFrame DEF Return
  <2>2. TypeOK'
    BY <1>2 DEF Return, TypeOK, Pcs, queueVars, scanVars
  <2>3. NeverOverpacked' /\ ScanInv' /\ PositionInv'
    BY <1>2 DEF Return, NeverOverpacked, ScanInv, PositionInv, MaxMinInv, InScan
  <2> QED
    BY <2>1, <2>2, <2>3
<1>3. CASE DeclineNoPendingTasks
  <2>1. QueueHoldsPending' /\ EachInstanceOnce' /\ ShutdownWhenDrained'
    BY <1>3, QueueFrame DEF DeclineNoPendingTasks
  <2>2. TypeOK'
    BY <1>3, OfferType
    DEF DeclineNoPendingTasks, TypeOK, queueVars, policyVars, scanVars
  <2>3. NeverOverpacked' /\ ScanInv' /\ PositionInv'
    BY <1>3 DEF DeclineNoPendingTasks, NeverOverpacked, ScanInv, PositionInv,
                MaxMinInv, InScan, policyVars
  <2> QED
    BY <2>1, <2>2, <2>3
<1>4. CASE BeginOffer
  <2>1. packed = {} /\ UNCHANGED <<queueVars, packed, launched>>
    BY <1>4 DEF BeginOffer, ScanInv
  <2>2. QueueHoldsPending' /\ EachInstanceOnce' /\ ShutdownWhenDrained'
    BY <2>1, QueueFrame
  <2>3. pc' \in {"max", "scan"} /\ (pc' = "max" <=> curSchedPolicy = "max-greedymins")
    BY <1>4 DEF BeginOffer, FirstPc
  <2>4. Len(tasks) \in Nat /\ i' = IF pc' = "max" THEN Len(tasks) ELSE 1
    BY <1>4 DEF BeginOffer, FirstPc, TypeOK
  <2>5. TypeOK'
    <3>1. direction' \in BOOLEAN /\ start' \in BOOLEAN
      BY <1>4, Zenon DEF BeginOffer
    <3> QED
      BY <1>4, <2>1, <2>3, <2>4, <3>1, NoUsageType
      DEF BeginOffer, TypeOK, Pcs, queueVars, policyVars
  <2>6. NeverOverpacked'
    <3>1. offer \in OfferDef
      BY <1>4, OfferType, OfferAssumption DEF BeginOffer
    <3>2. WithinOffer(NoUsage, offer)
      BY <3>1 DEF WithinOffer, NoUsage, OfferDef
    <3> QED
      BY <1>4, <3>2 DEF BeginOffer, NeverOverpacked, WithinOffer, offer
  <2>7. ScanInv'
    BY <1>4, <2>3 DEF BeginOffer, ScanInv, policyVars
  <2>8. PositionInv'
    BY <1>4, <2>3, <2>4 DEF BeginOffer, PositionInv, MaxMinInv, queueVars
  <2> QED
    BY <2>2, <2>5, <2>6, <2>7, <2>8
<1> QED
  BY <1>1, <1>2, <1>3, <1>4

(* Sorting reorders the queue and nothing else.                            *)
LEMMA SortStep ==
    ASSUME IndInv, ConsumeOffers
    PROVE  IndInv' /\ Range(tasks') = Range(tasks)
<1> USE DEF IndInv
<1>1. /\ tasks' \in Seq(Task) /\ Len(tasks') = Len(tasks)
      /\ IsInjective(tasks') /\ Range(tasks') = Range(tasks)
  <2>1. CASE tasks' = tasks
    BY <2>1 DEF TypeOK, QueueHoldsPending
  <2>2. CASE tasks' \in SortNTasks(tasks, SortLength)
    <3>1. /\ tasks' \in [1 .. Len(tasks) -> Range(tasks)]
          /\ IsInjective(tasks') /\ Range(tasks') = Range(tasks)
      BY <2>2 DEF SortNTasks, PermutationsFixingTail
    <3>2. Range(tasks) \subseteq Task
      BY DEF TypeOK, Range
    <3>3. tasks' \in [1 .. Len(tasks) -> Task] /\ Len(tasks) \in Nat
      BY <3>1, <3>2 DEF TypeOK
    <3> QED
      BY <3>1, <3>3
  <2> QED
    BY <2>1, <2>2 DEF ConsumeOffers
<1>2. TypeOK'
  BY <1>1 DEF ConsumeOffers, TypeOK, Pcs, policyVars, scanVars
<1>3. QueueHoldsPending'
  BY <1>1 DEF ConsumeOffers, QueueHoldsPending
<1>4. EachInstanceOnce'
  BY DEF ConsumeOffers, EachInstanceOnce, Scheduled
<1>5. ShutdownWhenDrained'
  BY <1>1 DEF ConsumeOffers, ShutdownWhenDrained, TypeOK
<1>6. NeverOverpacked' /\ ScanInv' /\ PositionInv'
  BY DEF ConsumeOffers, NeverOverpacked, ScanInv, PositionInv, MaxMinInv, InScan,
         policyVars
<1> QED
  BY <1>1, <1>2, <1>3, <1>4, <1>5, <1>6

------------------------------------------------------------------------------
(* The position a policy reads in the queue.                               *)
LEMMA PositionLemma ==
    ASSUME IndInv
    PROVE  PositionInQueue
<1>1. Len(tasks) \in Nat /\ i \in Int /\ index \in Int
  BY DEF IndInv, TypeOK
<1>2. ASSUME Scanning("max-min") PROVE MaxMinIndex \in 1 .. Len(tasks)
  <2>1. pc = "scan" /\ i >= 1 /\ i <= Len(tasks) /\ curSchedPolicy = "max-min"
    BY <1>2 DEF Scanning, IndInv, PositionInv
  <2>2. CASE start
    BY <1>1, <2>1, <2>2 DEF MaxMinIndex
  <2>3. CASE ~start
    BY <1>1, <2>1, <2>3 DEF MaxMinIndex, IndInv, PositionInv, MaxMinInv
  <2> QED
    BY <2>2, <2>3
<1> QED
  BY <1>2 DEF PositionInQueue, IndInv, PositionInv

(* The process exits: nothing changes but pc.                              *)
LEMMA FatalStep ==
    ASSUME IndInv, Fatal, pc \in {"max", "scan"}
    PROVE  IndInv'
<1> USE DEF IndInv
<1>1. QueueHoldsPending' /\ EachInstanceOnce' /\ ShutdownWhenDrained'
  BY QueueFrame DEF Fatal
<1>2. TypeOK'
  BY DEF Fatal, TypeOK, Pcs, queueVars, policyVars, scanVars
<1>3. NeverOverpacked' /\ ScanInv' /\ PositionInv'
  BY DEF Fatal, NeverOverpacked, ScanInv, PositionInv, MaxMinInv, InScan, policyVars
<1> QED
  BY <1>1, <1>2, <1>3

(* An iteration that only moves on keeps all but the position.             *)
LEMMA SkipFrame ==
    ASSUME IndInv, SkipUnchanged, i' \in Int, index' \in Int,
           direction' \in BOOLEAN, start' \in BOOLEAN
    PROVE  /\ TypeOK' /\ QueueHoldsPending' /\ EachInstanceOnce'
           /\ ShutdownWhenDrained' /\ NeverOverpacked' /\ ScanInv'
<1> USE DEF IndInv
<1>1. QueueHoldsPending' /\ EachInstanceOnce' /\ ShutdownWhenDrained'
  BY QueueFrame DEF SkipUnchanged
<1>2. TypeOK'
  BY DEF SkipUnchanged, TypeOK, queueVars, policyVars
<1>3. NeverOverpacked' /\ ScanInv'
  BY DEF SkipUnchanged, NeverOverpacked, WithinOffer, offer, ScanInv, InScan,
         policyVars
<1> QED
  BY <1>1, <1>2, <1>3

(* The iterations that only move on, of all four policies.                 *)
LEMMA SkipStep ==
    ASSUME IndInv,
           \/ FirstFitSkip \/ GreedySkip \/ MaxSkip
           \/ MaxMinMismatch \/ MaxMinNoFit
    PROVE  IndInv'
<1>1. /\ Len(tasks) \in Nat /\ i \in Int /\ index \in Int
      /\ direction \in BOOLEAN /\ start \in BOOLEAN
  BY DEF IndInv, TypeOK
<1>2. CASE FirstFitSkip \/ GreedySkip
  <2>1. /\ SkipUnchanged /\ i' = i + 1 /\ UNCHANGED <<index, direction, start>>
        /\ pc = "scan" /\ curSchedPolicy # "max-min"
    BY <1>2 DEF FirstFitSkip, GreedySkip, Scanning, Packing
  <2>2. PositionInv'
    BY <1>1, <2>1 DEF IndInv, PositionInv, MaxMinInv, SkipUnchanged, policyVars
  <2> QED
    BY <1>1, <2>1, <2>2, SkipFrame DEF IndInv
<1>3. CASE MaxSkip
  <2>1. /\ SkipUnchanged /\ i' = i - 1 /\ UNCHANGED <<index, direction, start>>
        /\ pc = "max" /\ i >= 1
    BY <1>3 DEF MaxSkip
  <2>2. PositionInv'
    BY <1>1, <2>1
    DEF IndInv, PositionInv, MaxMinInv, SkipUnchanged, queueVars
  <2> QED
    BY <1>1, <2>1, <2>2, SkipFrame DEF IndInv
<1>4. CASE MaxMinMismatch
  <2>1. /\ SkipUnchanged /\ i' = i + 1 /\ index' = MaxMinIndex
        /\ UNCHANGED <<direction, start>> /\ Scanning("max-min")
    BY <1>4 DEF MaxMinMismatch, MaxMinScans
  <2>2. MaxMinIndex \in 1 .. Len(tasks)
    BY <2>1, PositionLemma DEF PositionInQueue
  <2>3. PositionInv'
    <3>1. pc' = "scan" /\ i' >= 1 /\ Len(tasks') = Len(tasks)
      BY <1>1, <2>1 DEF IndInv, PositionInv, SkipUnchanged, queueVars, Scanning
    <3>2. ~start => index' = index
      BY <2>1 DEF MaxMinIndex
    <3> QED
      BY <1>1, <2>1, <3>1, <3>2
      DEF IndInv, PositionInv, MaxMinInv, SkipUnchanged, policyVars, Scanning
  <2> QED
    BY <1>1, <2>1, <2>2, <2>3, SkipFrame DEF IndInv
<1>5. CASE MaxMinNoFit
  <2>1. /\ SkipUnchanged /\ i' = i + 1 /\ UNCHANGED direction
        /\ index' = IF direction THEN MaxMinIndex + 1 ELSE MaxMinIndex - 1
        /\ Scanning("max-min")
    BY <1>5 DEF MaxMinNoFit, MaxMinScans
  <2>2. start' \in BOOLEAN
    BY <1>5, Zenon DEF MaxMinNoFit
  <2>3. MaxMinIndex \in 1 .. Len(tasks)
    BY <2>1, PositionLemma DEF PositionInQueue
  <2>4. PositionInv'
    <3>1. /\ pc = "scan" /\ pc' = "scan" /\ i' >= 1 /\ Len(tasks') = Len(tasks)
          /\ i >= 1 /\ i <= Len(tasks) /\ curSchedPolicy = "max-min"
      BY <1>1, <2>1 DEF IndInv, PositionInv, SkipUnchanged, queueVars, Scanning
    <3>2. IF direction THEN MaxMinIndex \in 1 .. i
                       ELSE MaxMinIndex \in (Len(tasks) - i + 1) .. Len(tasks)
      <4>1. CASE start
        BY <1>1, <3>1, <4>1 DEF MaxMinIndex
      <4>2. CASE ~start
        BY <1>1, <3>1, <4>2 DEF MaxMinIndex, IndInv, PositionInv, MaxMinInv
      <4> QED
        BY <4>1, <4>2
    <3>3. IF direction' THEN index' \in 1 .. i'
                        ELSE index' \in (Len(tasks') - i' + 1) .. Len(tasks')
      BY <1>1, <2>1, <3>1, <3>2
    <3> QED
      BY <3>1, <3>3 DEF PositionInv, MaxMinInv
  <2> QED
    BY <1>1, <2>1, <2>2, <2>3, <2>4, SkipFrame DEF IndInv
<1> QED
  BY <1>2, <1>3, <1>4, <1>5

(* max-greedymins goes on to the light tasks without a heavy one.          *)
LEMMA MaxNoneStep ==
    ASSUME IndInv, MaxNone
    PROVE  IndInv'
<1> USE DEF IndInv
<1>1. QueueHoldsPending' /\ EachInstanceOnce' /\ ShutdownWhenDrained'
  BY QueueFrame DEF MaxNone
<1>2. TypeOK'
  BY DEF MaxNone, ToMins, TypeOK, Pcs, queueVars, policyVars
<1>3. NeverOverpacked' /\ ScanInv' /\ PositionInv'
  BY DEF MaxNone, ToMins, NeverOverpacked, WithinOffer, offer, ScanInv,
         PositionInv, MaxMinInv, InScan, policyVars
<1> QED
  BY <1>1, <1>2, <1>3

(* The scan of an offer ends: it is launched on or declined.               *)
LEMMA AnswerStep ==
    ASSUME IndInv, LaunchPacked \/ DeclineInsufficientResources
    PROVE  IndInv'
<1> USE DEF IndInv
<1>1. pc = "scan" /\ offers # <<>>
  BY DEF LaunchPacked, DeclineInsufficientResources, ScanOver, ScanInv, InScan
<1>2. QueueHoldsPending' /\ ShutdownWhenDrained'
  BY DEF LaunchPacked, DeclineInsufficientResources, queueVars,
         QueueHoldsPending, ShutdownWhenDrained
<1>3. EachInstanceOnce' /\ packed' = {} /\ launched' = launched \cup packed
  BY DEF LaunchPacked, DeclineInsufficientResources, queueVars,
         EachInstanceOnce, Scheduled
<1>4. TypeOK'
  BY <1>1, <1>3, OfferType
  DEF LaunchPacked, DeclineInsufficientResources, TypeOK, Pcs, queueVars,
      policyVars, scanVars
<1>5. NeverOverpacked' /\ ScanInv' /\ PositionInv'
  BY <1>3 DEF LaunchPacked, DeclineInsufficientResources, NeverOverpacked,
              ScanInv, PositionInv, MaxMinInv, InScan
<1> QED
  BY <1>2, <1>3, <1>4, <1>5

------------------------------------------------------------------------------
(* first-fit launches the i-th task and is done with the offer.            *)
LEMMA FirstFitTakeStep ==
    ASSUME IndInv, FirstFitTake
    PROVE  IndInv'
<1> USE DEF IndInv
<1>1. /\ i \in 1 .. Len(tasks) /\ Dequeue(i)
      /\ offers # <<>> /\ packed = {} /\ packed' = {}
  BY DEF FirstFitTake, Scanning, PositionInv, ScanInv, InScan, TypeOK
<1>2. /\ tasks' \in Seq(Task) /\ instances' \in [Task -> Int]
      /\ Shutdown' \in {"open", "closed", "panicked"}
      /\ numTasksScheduled' \in [Policy -> Nat]
      /\ QueueHoldsPending' /\ ShutdownWhenDrained'
  BY <1>1, DequeueQueue
<1>3. /\ newTask(tasks[i]) \in Task \X Int
      /\ Scheduled' = Scheduled \cup {newTask(tasks[i])}
  BY <1>1, DequeueScheduled
<1>4. EachInstanceOnce'
  BY <1>1, <1>3 DEF FirstFitTake, EachInstanceOnce
<1>5. TypeOK'
  BY <1>1, <1>2, <1>3, OfferType DEF FirstFitTake, TypeOK, Pcs, policyVars, scanVars
<1>6. NeverOverpacked' /\ ScanInv' /\ PositionInv'
  BY <1>1 DEF FirstFitTake, NeverOverpacked, ScanInv, PositionInv, MaxMinInv, InScan
<1> QED
  BY <1>2, <1>4, <1>5, <1>6

(* What CheckFit keeps when it packs the k-th task, in each of the three   *)
(* policies that pack.                                                     *)
LEMMA PackFrame ==
    ASSUME IndInv, InScan, NEW k \in 1 .. Len(tasks), Eligible(k), Pack(k),
           curSchedPolicy # "first-fit", pc' = "scan",
           i' \in Int, index' \in Int, direction' \in BOOLEAN, start' \in BOOLEAN
    PROVE  /\ TypeOK' /\ QueueHoldsPending' /\ EachInstanceOnce'
           /\ ShutdownWhenDrained' /\ NeverOverpacked' /\ ScanInv'
<1> USE DEF IndInv
<1>1. Dequeue(k) /\ offers # <<>> /\ tasks[k] \in Task
  BY DEF Pack, ScanInv, TypeOK
<1>2. /\ tasks' \in Seq(Task) /\ instances' \in [Task -> Int]
      /\ Shutdown' \in {"open", "closed", "panicked"}
      /\ numTasksScheduled' \in [Policy -> Nat]
      /\ QueueHoldsPending' /\ ShutdownWhenDrained'
  BY <1>1, DequeueQueue
<1>3. /\ newTask(tasks[k]) \in Task \X Int
      /\ newTask(tasks[k]) \notin Scheduled
      /\ Scheduled' = Scheduled \cup {newTask(tasks[k])}
  BY <1>1, DequeueScheduled
<1>4. EachInstanceOnce'
  BY <1>3 DEF Pack, EachInstanceOnce
<1>5. total' \in Usage
  BY <1>1, OfferType, UsingType DEF Pack, TypeOK
<1>6. TypeOK'
  BY <1>2, <1>3, <1>5 DEF Pack, TypeOK, Pcs, policyVars
<1>7. NeverOverpacked'
  BY DEF Pack, Eligible, takeOffer, NeverOverpacked, WithinOffer, offer
<1>8. ScanInv'
  BY <1>1 DEF Pack, ScanInv, InScan, policyVars
<1> QED
  BY <1>2, <1>4, <1>6, <1>7, <1>8

(* The packing iterations of bin-packing, max-greedymins and max-min.      *)
LEMMA PackStep ==
    ASSUME IndInv, GreedyPack \/ MaxPack \/ MaxMinPack
    PROVE  IndInv'
<1>1. /\ Len(tasks) \in Nat /\ i \in Int /\ index \in Int
      /\ direction \in BOOLEAN /\ start \in BOOLEAN
  BY DEF IndInv, TypeOK
<1>2. CASE GreedyPack
  <2>1. /\ InScan /\ i \in 1 .. Len(tasks) /\ Eligible(i) /\ Pack(i)
        /\ curSchedPolicy \in {"bin-packing", "max-greedymins"}
        /\ pc = "scan" /\ pc' = "scan" /\ UNCHANGED <<index, direction, start>>
    BY <1>1, <1>2
    DEF GreedyPack, Packing, MinsFits, InScan, IndInv, PositionInv
  <2>2. i' \in Int /\ i' >= 1
    BY <1>1, <1>2, <2>1 DEF GreedyPack, NextAfterPack
  <2>3. PositionInv'
    BY <2>1, <2>2 DEF PositionInv, MaxMinInv, Pack, policyVars
  <2> QED
    BY <1>1, <2>1, <2>2, <2>3, PackFrame DEF IndInv
<1>3. CASE MaxPack
  <2>1. /\ InScan /\ i \in 1 .. Len(tasks) /\ Eligible(i) /\ Pack(i)
        /\ curSchedPolicy = "max-greedymins"
        /\ pc' = "scan" /\ i' = 1 /\ UNCHANGED <<index, direction, start>>
    BY <1>1, <1>3
    DEF MaxPack, ToMins, InScan, IndInv, ScanInv, PositionInv
  <2>2. PositionInv'
    BY <2>1 DEF PositionInv, MaxMinInv, Pack, policyVars
  <2> QED
    BY <1>1, <2>1, <2>2, PackFrame DEF IndInv
<1>4. CASE MaxMinPack
  <2>1. /\ Scanning("max-min") /\ InScan /\ Eligible(MaxMinIndex)
        /\ Pack(MaxMinIndex) /\ curSchedPolicy = "max-min"
        /\ pc = "scan" /\ pc' = "scan" /\ i' = i /\ index' = MaxMinIndex /\ start'
    BY <1>4 DEF MaxMinPack, MaxMinScans, Scanning, InScan
  <2>2. MaxMinIndex \in 1 .. Len(tasks)
    BY <2>1, PositionLemma DEF PositionInQueue
  <2>3. direction' \in BOOLEAN /\ start' \in BOOLEAN
    BY <1>4, Zenon DEF MaxMinPack
  <2>4. PositionInv'
    BY <2>1 DEF IndInv, PositionInv, MaxMinInv
  <2> QED
    BY <1>1, <2>1, <2>2, <2>3, <2>4, PackFrame DEF IndInv
<1> QED
  BY <1>2, <1>3, <1>4

(* Every step of the policies keeps the invariant.                         *)
LEMMA ConsumeStep ==
    ASSUME IndInv, Consume
    PROVE  IndInv'
<1>1. CASE GreedyFatal \/ MaxFatal \/ MaxMinFatal
  BY <1>1, FatalStep
  DEF GreedyFatal, MaxFatal, MaxMinFatal, Packing, MaxMinScans, Scanning
<1> QED
  BY <1>1, BetweenOffersStep, SortStep, SkipStep, MaxNoneStep, AnswerStep,
     FirstFitTakeStep, PackStep
  DEF Consume

(* Every reachable state of SchedPolicies satisfies the inductive          *)
(* invariant.                                                              *)
THEOREM Invariance == Spec => []IndInv
<1>1. Init => IndInv
  BY InitInv DEF Init
<1>2. ASSUME IndInv, [Next]_vars PROVE IndInv'
  <2>1. CASE Next
    BY <1>2, <2>1, ConsumeStep, BetweenOffersStep DEF Next
  <2>2. CASE UNCHANGED vars
    BY <1>2, <2>2
    DEF vars, queueVars, policyVars, scanVars, IndInv, TypeOK, QueueHoldsPending,
        EachInstanceOnce, Scheduled, ShutdownWhenDrained, NeverOverpacked,
        WithinOffer, offer, InScan, ScanInv, PositionInv, MaxMinInv
  <2> QED
    BY <1>2, <2>1, <2>2
<1> QED
  BY <1>1, <1>2, PTL DEF Spec

(* For every workload and cluster, whatever offers Mesos makes: every      *)
(* variable keeps its type.                                                *)
THEOREM TypeCorrect == Spec => []TypeOK
<1>1. IndInv => TypeOK
  BY DEF IndInv
<1> QED
  BY <1>1, Invariance, PTL

(* The removals by position in the four policies never remove the wrong    *)
(* task: the queue holds exactly the tasks with instances left.            *)
THEOREM QueueCorrect == Spec => []QueueHoldsPending
<1>1. IndInv => QueueHoldsPending
  BY DEF IndInv
<1> QED
  BY <1>1, Invariance, PTL

(* No instance is lost and none is launched or packed under a name twice.  *)
THEOREM InstanceCorrect == Spec => []EachInstanceOnce
<1>1. IndInv => EachInstanceOnce
  BY DEF IndInv
<1> QED
  BY <1>1, Invariance, PTL

(* Shutdown is closed exactly when the queue is empty, and never twice.    *)
THEOREM ShutdownCorrect == Spec => []ShutdownWhenDrained
<1>1. IndInv => ShutdownWhenDrained
  BY DEF IndInv
<1> QED
  BY <1>1, Invariance, PTL

(* No offer is given more than it has.                                     *)
THEOREM OffersRespected == Spec => []NeverOverpacked
<1>1. IndInv => NeverOverpacked
  BY DEF IndInv
<1> QED
  BY <1>1, Invariance, PTL

(* No policy reads the queue outside its bounds.                           *)
THEOREM PositionCorrect == Spec => []PositionInQueue
  BY PositionLemma, Invariance, PTL

------------------------------------------------------------------------------
(* REFINEMENT: whatever a policy does with an offer is, for the rest of    *)
(* the program, reserving instances one by one and launching what is       *)
(* reserved.                                                               *)

(* The pending instances of a task are numbered 1 to *Instances.           *)
PendingIs ==
    /\ \A x : x \in Pending <=>
         \E t \in Task, n \in Int : x = <<t, n>> /\ n \in 1 .. instances[t]
    /\ Pending = {} <=> tasks = <<>>

(* The queue holds the instances that the counters say are left.           *)
LEMMA PendingMembers == TypeOK /\ QueueHoldsPending => PendingIs
<1> SUFFICES ASSUME TypeOK, QueueHoldsPending PROVE PendingIs
  OBVIOUS
<1>1. ASSUME NEW x \in Pending
      PROVE  \E t \in Task, n \in Int : x = <<t, n>> /\ n \in 1 .. instances[t]
  BY <1>1 DEF Pending, TypeOK, QueueHoldsPending
<1>2. ASSUME NEW t \in Task, NEW n \in Int, n \in 1 .. instances[t]
      PROVE  <<t, n>> \in Pending
  <2>1. t \in Range(tasks)
    BY <1>2 DEF TypeOK, QueueHoldsPending
  <2> QED
    BY <1>2, <2>1 DEF Pending
<1>3. ASSUME tasks # <<>> PROVE Pending # {}
  <2>1. 1 \in DOMAIN tasks /\ tasks[1] \in Task
    BY <1>3 DEF TypeOK
  <2>2. tasks[1] \in Range(tasks)
    BY <2>1 DEF Range
  <2>3. 1 \in 1 .. instances[tasks[1]]
    BY <2>1, <2>2 DEF TypeOK, QueueHoldsPending
  <2>4. <<tasks[1], 1>> \in Pending
    BY <1>2, <2>1, <2>3
  <2> QED
    BY <2>4
<1>4. ASSUME tasks = <<>> PROVE Pending = {}
  BY <1>4 DEF Pending, Range
<1> QED
  BY <1>1, <1>2, <1>3, <1>4 DEF PendingIs

(* Dequeue takes exactly the instance that newTask named.                  *)
LEMMA DequeueTakes ==
    ASSUME IndInv, NEW k \in 1 .. Len(tasks), Dequeue(k), TypeOK',
           QueueHoldsPending', ShutdownWhenDrained'
    PROVE  D!Take(newTask(tasks[k]))
<1> DEFINE t == tasks[k]
           x == <<t, instances[t]>>
<1>1. TypeOK /\ QueueHoldsPending /\ ShutdownWhenDrained
  BY DEF IndInv
<1>0. PendingIs /\ PendingIs'
  BY <1>1, PendingMembers, PTL
<1>2. t \in Task /\ instances[t] \in Int /\ instances[t] >= 1
  <2>1. t \in Task /\ t \in Range(tasks)
    BY <1>1 DEF TypeOK, Range
  <2> QED
    BY <1>1, <2>1 DEF TypeOK, QueueHoldsPending
<1>3. /\ instances'[t] = instances[t] - 1
      /\ \A u \in Task : u # t => instances'[u] = instances[u]
  BY <1>1, <1>2 DEF TypeOK, Dequeue
<1>4. x \in Pending
  BY <1>1, <1>2, <1>0 DEF PendingIs
<1>5. Pending' = Pending \ {x}
  <2>1. \A y : y \in Pending <=>
          \E u \in Task, n \in Int : y = <<u, n>> /\ n \in 1 .. instances[u]
    BY <1>0 DEF PendingIs
  <2>2. \A y : y \in Pending' <=>
          \E u \in Task, n \in Int : y = <<u, n>> /\ n \in 1 .. instances'[u]
    BY <1>0 DEF PendingIs
  <2>3. ASSUME NEW u \in Task, NEW n \in Int
        PROVE  n \in 1 .. instances'[u] <=> n \in 1 .. instances[u] /\ <<u, n>> # x
    <3>1. <<u, n>> = x <=> u = t /\ n = instances[t]
      OBVIOUS
    <3>2. CASE u = t
      BY <1>2, <1>3, <3>1, <3>2
    <3>3. CASE u # t
      BY <1>3, <3>1, <3>3
    <3> QED
      BY <3>2, <3>3
  <2>4. ASSUME NEW y \in Pending' PROVE y \in Pending \ {x}
    <3>1. PICK u \in Task, n \in Int : y = <<u, n>> /\ n \in 1 .. instances'[u]
      BY <2>2, <2>4
    <3> QED
      BY <2>1, <2>3, <3>1
  <2>5. ASSUME NEW y \in Pending \ {x} PROVE y \in Pending'
    <3>1. PICK u \in Task, n \in Int : y = <<u, n>> /\ n \in 1 .. instances[u]
      BY <2>1, <2>5
    <3> QED
      BY <2>2, <2>3, <2>5, <3>1
  <2> QED
    BY <2>4, <2>5
<1>6. Pending' = {} <=> tasks' = <<>>
  BY <1>0 DEF PendingIs
<1>7. tasks # <<>>
  BY <1>1 DEF TypeOK
<1>8. Shutdown' = IF Pending' = {} THEN "closed" ELSE Shutdown
  BY <1>1, <1>6, <1>7 DEF ShutdownWhenDrained
<1> QED
  BY <1>4, <1>5, <1>8 DEF D!Take, newTask

(* A step that leaves the set of queued tasks, their counters and what was *)
(* packed and launched alone is no step of Dispatch.                       *)
LEMMA DispatchFrame ==
    ASSUME UNCHANGED <<instances, Shutdown, packed, launched>>,
           Range(tasks') = Range(tasks)
    PROVE  UNCHANGED D!dispatchVars
  BY DEF D!dispatchVars, Pending

(* Every step of a policy is a step of Dispatch or leaves it alone.        *)
LEMMA StepRefines ==
    ASSUME IndInv, IndInv', [Next]_vars
    PROVE  [D!DispatchNext]_(D!dispatchVars)
<1>1. TypeOK' /\ QueueHoldsPending' /\ ShutdownWhenDrained'
  BY DEF IndInv
<1>2. CASE ConsumeOffers
  BY <1>2, SortStep, DispatchFrame DEF ConsumeOffers
<1>3. CASE FirstFitTake
  <2>1. /\ i \in 1 .. Len(tasks) /\ Dequeue(i) /\ packed = {} /\ packed' = packed
        /\ launched' = launched \cup {newTask(tasks[i])}
    BY <1>3 DEF FirstFitTake, Scanning, IndInv, PositionInv, ScanInv, TypeOK
  <2>2. D!Take(newTask(tasks[i]))
    BY <1>1, <2>1, DequeueTakes
  <2>3. D!TakeAndLaunch(newTask(tasks[i])) /\ newTask(tasks[i]) \in Pending
    BY <2>1, <2>2 DEF D!TakeAndLaunch, D!Take
  <2> QED
    BY <2>3 DEF D!DispatchNext
<1>4. ASSUME NEW k \in 1 .. Len(tasks), Pack(k) PROVE D!DispatchNext
  <2>1. D!Take(newTask(tasks[k]))
    BY <1>1, <1>4, DequeueTakes DEF Pack
  <2>2. D!Reserve(newTask(tasks[k])) /\ newTask(tasks[k]) \in Pending
    BY <1>4, <2>1 DEF Pack, D!Reserve, D!Take
  <2> QED
    BY <2>2 DEF D!DispatchNext
<1>5. CASE GreedyPack
  <2>1. i \in 1 .. Len(tasks) /\ Pack(i)
    BY <1>5 DEF GreedyPack, Packing, IndInv, PositionInv, TypeOK
  <2> QED
    BY <1>4, <2>1
<1>6. CASE MaxPack
  <2>1. i \in 1 .. Len(tasks) /\ Pack(i)
    BY <1>6 DEF MaxPack, IndInv, PositionInv, TypeOK
  <2> QED
    BY <1>4, <2>1
<1>7. CASE MaxMinPack
  <2>1. MaxMinIndex \in 1 .. Len(tasks) /\ Pack(MaxMinIndex)
    BY <1>7, PositionLemma DEF MaxMinPack, MaxMinScans, PositionInQueue
  <2> QED
    BY <1>4, <2>1
<1>8. CASE LaunchPacked
  <2>1. UNCHANGED <<Pending, Shutdown>>
    BY <1>8 DEF LaunchPacked, queueVars, Pending
  <2>2. D!LaunchReserved
    BY <1>8, <2>1 DEF LaunchPacked, D!LaunchReserved
  <2> QED
    BY <2>2 DEF D!DispatchNext
<1>9. CASE UNCHANGED <<queueVars, packed, launched>>
  BY <1>9, DispatchFrame DEF queueVars
<1>10. CASE BeginOffer
  <2>1. packed = {} /\ UNCHANGED <<queueVars, packed, launched>>
    BY <1>10 DEF BeginOffer, IndInv, ScanInv
  <2> QED
    BY <1>9, <2>1
<1>11. ASSUME \/ \E os \in OfferBatch : ResourceOffers(os)
              \/ Return \/ DeclineNoPendingTasks
              \/ FirstFitSkip \/ GreedySkip \/ MaxSkip \/ MaxMinMismatch \/ MaxMinNoFit
              \/ GreedyFatal \/ MaxFatal \/ MaxMinFatal
              \/ MaxNone \/ DeclineInsufficientResources
              \/ UNCHANGED vars
       PROVE  UNCHANGED <<queueVars, packed, launched>>
  BY <1>11
  DEF ResourceOffers, Return, DeclineNoPendingTasks, FirstFitSkip, GreedySkip,
      MaxSkip, MaxMinMismatch, MaxMinNoFit, SkipUnchanged, GreedyFatal, MaxFatal,
      MaxMinFatal, Fatal, MaxNone, DeclineInsufficientResources, vars
<1> QED
  BY <1>2, <1>3, <1>5, <1>6, <1>7, <1>8, <1>9, <1>10, <1>11 DEF Next, Consume

(* The workload is pending when the framework registers.                   *)
LEMMA InitRefines ==
    ASSUME NEW size, InitWithWindow(size)
    PROVE  D!DispatchInit
<1>1. Range(tasks) = Task /\ \A t \in Task : instances[t] = Def[t].Instances
  BY DEF InitWithWindow
<1>2. Pending = Instances
  BY <1>1 DEF Pending, Instances
<1> QED
  BY <1>2 DEF InitWithWindow, D!DispatchInit

(* The four policies implement Dispatch, for every workload: what each     *)
(* promises main and the status updates is the same.                       *)
THEOREM Refinement == Spec => DispatchRefined
<1>1. Init => D!DispatchInit
  BY InitRefines DEF Init
<1>2. IndInv /\ IndInv' /\ [Next]_vars => [D!DispatchNext]_(D!dispatchVars)
  BY StepRefines
<1> QED
  BY <1>1, <1>2, Invariance, PTL DEF Spec, DispatchRefined, D!DispatchSpec
------------------------------------------------------------------------------
(* THE CHOICE OF TASKS.  What a scan has passed over could not have been   *)
(* launched on the offer.                                                  *)
PassedInv ==
    /\ pc = "scan" /\ curSchedPolicy = "first-fit" =>
         \A j \in 1 .. Len(tasks) : j < i => ~Eligible(j)
    /\ pc = "scan" /\ curSchedPolicy \in {"bin-packing", "max-greedymins"} /\ packed = {} =>
         WindowFull \/ \A j \in 1 .. Len(tasks) : j < i => ~Eligible(j)

(* A task fits as before while the queue, the offer and the totals stay.   *)
LEMMA EligibleFrame ==
    ASSUME UNCHANGED <<tasks, offers, total>>, NEW j
    PROVE  Eligible(j)' = Eligible(j)
BY DEF Eligible, offer

(* The iterations that pass a task over, which did not fit.                *)
LEMMA PassedSkip ==
    ASSUME IndInv, PassedInv, FirstFitSkip \/ GreedySkip
    PROVE  PassedInv'
<1>1. /\ pc = "scan" /\ i' = i + 1 /\ i \in Int /\ i \in 1 .. Len(tasks)
      /\ UNCHANGED <<tasks, instances, offers, total, packed, curSchedPolicy>>
      /\ UNCHANGED <<numTasksScheduled, schedWindowSize>>
      /\ curSchedPolicy \in {"first-fit", "bin-packing", "max-greedymins"}
  BY DEF FirstFitSkip, GreedySkip, Scanning, Packing, SkipUnchanged, queueVars, policyVars,
         IndInv, TypeOK, PositionInv
<1>2. \A j \in 1 .. Len(tasks) : Eligible(j)' = Eligible(j)
  BY <1>1, EligibleFrame
<1>3. WindowFull' = WindowFull
  BY <1>1 DEF WindowFull
<1>4. curSchedPolicy = "first-fit" => ~Eligible(i)
  BY DEF FirstFitSkip, GreedySkip, Packing
<1>5. curSchedPolicy # "first-fit" => WindowFull \/ ~Eligible(i)
  <2>1. instances[tasks[i]] > 0
    <3>1. tasks[i] \in Range(tasks)
      BY <1>1 DEF Range, IndInv, TypeOK
    <3> QED
      BY <3>1 DEF IndInv, QueueHoldsPending
  <2> QED
    BY <2>1 DEF FirstFitSkip, Scanning, GreedySkip, MinsFits
<1>6. \A j \in 1 .. Len(tasks) : j < i + 1 => j < i \/ j = i
  BY <1>1
<1> QED
  BY <1>1, <1>2, <1>3, <1>4, <1>5, <1>6 DEF PassedInv

(* Every step of the policies keeps it.                                    *)
LEMMA PassedStep ==
    ASSUME IndInv, PassedInv, Consume
    PROVE  PassedInv'
<1>1. CASE \/ ConsumeOffers \/ Return \/ DeclineNoPendingTasks \/ FirstFitTake
           \/ GreedyFatal \/ MaxFatal \/ MaxMinFatal \/ MaxSkip
           \/ LaunchPacked \/ DeclineInsufficientResources
  <2>1. pc' # "scan"
    BY <1>1 DEF ConsumeOffers, Return, DeclineNoPendingTasks, FirstFitTake, GreedyFatal,
       MaxFatal, MaxMinFatal, Fatal, MaxSkip, SkipUnchanged, LaunchPacked,
       DeclineInsufficientResources
  <2> QED
    BY <2>1 DEF PassedInv
<1>2. CASE BeginOffer \/ MaxNone
  <2>1. pc' = "scan" => i' = 1
    BY <1>2 DEF BeginOffer, MaxNone, ToMins
  <2> QED
    BY <2>1 DEF PassedInv
<1>3. CASE GreedyPack \/ MaxPack
  <2>1. packed' # {} /\ curSchedPolicy' # "first-fit"
    BY <1>3 DEF GreedyPack, MaxPack, Packing, Pack, policyVars, IndInv, ScanInv
  <2> QED
    BY <2>1 DEF PassedInv
<1>4. CASE MaxMinMismatch \/ MaxMinNoFit \/ MaxMinPack
  <2>1. curSchedPolicy' = "max-min"
    BY <1>4 DEF MaxMinMismatch, MaxMinNoFit, MaxMinPack, MaxMinScans, Scanning,
       SkipUnchanged, Pack, policyVars
  <2> QED
    BY <2>1 DEF PassedInv
<1> QED
  BY <1>1, <1>2, <1>3, <1>4, PassedSkip DEF Consume

(* Neither launching step is taken for a refusal: what they launch is new. *)
LEMMA LaunchIsNew ==
    ASSUME IndInv, FirstFitTake \/ LaunchPacked
    PROVE  launched' # launched
<1>1. CASE FirstFitTake
  <2>1. i \in 1 .. Len(tasks) /\ Dequeue(i)
    BY <1>1 DEF FirstFitTake, Scanning, IndInv, PositionInv, TypeOK
  <2>2. newTask(tasks[i]) \notin Scheduled
    BY <2>1, DequeueScheduled DEF IndInv
  <2> QED
    BY <1>1, <2>2 DEF FirstFitTake, IndInv, EachInstanceOnce
<1>2. CASE LaunchPacked
  BY <1>2 DEF LaunchPacked, IndInv, EachInstanceOnce
<1> QED
  BY <1>1, <1>2

(* A step by which an offer is given up.                                   *)
LEMMA DeclineStep ==
    ASSUME IndInv, PassedInv, Consume, Declines, curSchedPolicy # "max-min"
    PROVE  NothingFits \/ WindowFull
<1>1. DeclineInsufficientResources
  BY LaunchIsNew DEF Declines, Consume, ConsumeOffers, Return, DeclineNoPendingTasks, BeginOffer,
     FirstFitSkip, GreedyFatal, GreedySkip, GreedyPack, MaxFatal, MaxSkip, MaxPack, MaxNone,
     MaxMinFatal, MaxMinMismatch, MaxMinNoFit, MaxMinPack, Fatal, SkipUnchanged
<1>2. /\ pc = "scan" /\ packed = {} /\ (i > Len(tasks) \/ WindowFull)
      /\ Len(tasks) \in Nat /\ i \in Int
      /\ curSchedPolicy \in {"first-fit", "bin-packing", "max-greedymins"}
  BY <1>1 DEF DeclineInsufficientResources, ScanOver, IndInv, TypeOK, Policy
<1>3. i > Len(tasks) => \A j \in 1 .. Len(tasks) : j < i
  BY <1>2
<1> QED
  BY <1>2, <1>3 DEF PassedInv, NothingFits

(* A step by which first-fit launches.                                     *)
LEMMA FirstFitStep ==
    ASSUME IndInv, PassedInv, Consume, NEW k \in 1 .. Len(tasks),
           pc = "scan", curSchedPolicy = "first-fit", launched' # launched,
           launched' = launched \cup {newTask(tasks[k])}
    PROVE  \A j \in 1 .. k - 1 : ~Eligible(j)
<1>1. FirstFitTake
  BY DEF Consume, ConsumeOffers, Return, DeclineNoPendingTasks, BeginOffer,
     FirstFitSkip, GreedyFatal, GreedySkip, GreedyPack, MaxFatal, MaxSkip, MaxPack, MaxNone,
     MaxMinFatal, MaxMinMismatch, MaxMinNoFit, MaxMinPack, Fatal, SkipUnchanged, Pack,
     LaunchPacked, DeclineInsufficientResources, IndInv, ScanInv
<1>2. i \in 1 .. Len(tasks) /\ launched' = launched \cup {newTask(tasks[i])}
  BY <1>1 DEF FirstFitTake, Scanning, IndInv, PositionInv, TypeOK
<1>3. newTask(tasks[k]) = newTask(tasks[i])
  BY <1>2
<1>4. tasks[k] = tasks[i]
  BY <1>3 DEF newTask
<1>5. k = i
  BY <1>2, <1>4 DEF IndInv, QueueHoldsPending, IsInjective, TypeOK
<1> QED
  BY <1>2, <1>5 DEF PassedInv

(* What a scan has passed over could not have been launched, in every      *)
(* state.                                                                  *)
LEMMA PassedAlways == Spec => []PassedInv
<1>1. Init => PassedInv
  BY DEF Init, InitWithWindow, PassedInv
<1>2. IndInv /\ PassedInv /\ [Next]_vars => PassedInv'
  <2> SUFFICES ASSUME IndInv, PassedInv, [Next]_vars PROVE PassedInv'
    OBVIOUS
  <2>1. ASSUME NEW os \in OfferBatch, ResourceOffers(os) PROVE PassedInv'
    BY <2>1 DEF ResourceOffers, PassedInv
  <2>2. CASE UNCHANGED vars
    <3>1. \A j \in 1 .. Len(tasks) : Eligible(j)' = Eligible(j)
      BY <2>2, EligibleFrame DEF vars, queueVars
    <3> QED
      BY <2>2, <3>1 DEF PassedInv, WindowFull, vars, queueVars, policyVars, scanVars
  <2> QED
    BY <2>1, <2>2, PassedStep DEF Next
<1> QED
  BY <1>1, <1>2, Invariance, PTL DEF Spec

(* An offer is declined as too small only when it is, for every workload   *)
(* and every offer: bin-packing's and max-greedymins' jumps over the task  *)
(* after one they removed come only after they have packed something.      *)
THEOREM DeclineCorrect == Spec => DeclineOnlyIfNothingFits
<1>1. IndInv /\ PassedInv /\ [Next]_vars =>
        [Declines /\ curSchedPolicy # "max-min" => NothingFits \/ WindowFull]_vars
  <2> SUFFICES ASSUME IndInv, PassedInv, Next, Declines, curSchedPolicy # "max-min"
               PROVE  NothingFits \/ WindowFull
    OBVIOUS
  <2>1. Consume
    BY DEF Next, ResourceOffers, Declines
  <2> QED
    BY <2>1, DeclineStep
<1> QED
  BY <1>1, Invariance, PassedAlways, PTL DEF Spec, DeclineOnlyIfNothingFits

(* first-fit is first fit, for every workload and every offer.             *)
THEOREM FirstFitCorrect == Spec => FirstFitInOrder
<1>1. IndInv /\ PassedInv /\ [Next]_vars =>
        [\A k \in 1 .. Len(tasks) :
          (pc = "scan" /\ launched' = launched \cup {newTask(tasks[k])}
                      /\ launched' # launched /\ curSchedPolicy = "first-fit")
             => \A j \in 1 .. k - 1 : ~Eligible(j)]_vars
  <2> SUFFICES ASSUME IndInv, PassedInv, Next, NEW k \in 1 .. Len(tasks),
                      pc = "scan", launched' = launched \cup {newTask(tasks[k])},
                      launched' # launched, curSchedPolicy = "first-fit"
               PROVE  \A j \in 1 .. k - 1 : ~Eligible(j)
    OBVIOUS
  <2>1. Consume
    BY DEF Next, ResourceOffers
  <2> QED
    BY <2>1, FirstFitStep
<1> QED
  BY <1>1, Invariance, PassedAlways, PTL DEF Spec, FirstFitInOrder

------------------------------------------------------------------------------
(* THE FIRST PICK OF AN OFFER, without switching.  All of the queue is     *)
(* sorted, and stays so when tasks are removed.                            *)
SortedInv ==
    pc \in {"offer", "max", "scan"} /\ curSchedPolicy # "first-fit" =>
        InWattsOrder(tasks, Len(tasks))

(* Until something is packed, what lies on the far side of the position is *)
(* what the policy would rather have had, and does not fit; max-greedymins *)
(* comes to the light tasks empty-handed only if nothing fits at all.      *)
FirstPickInv ==
    /\ pc = "max" => packed = {} /\ \A j \in 1 .. Len(tasks) : j > i => ~Eligible(j)
    /\ pc = "scan" /\ curSchedPolicy = "max-greedymins" /\ packed = {} => NothingFits
    /\ pc = "scan" /\ curSchedPolicy = "max-min" /\ packed = {} =>
         /\ ~direction
         /\ \A j \in 1 .. Len(tasks) :
              j > (IF start THEN Len(tasks) - i + 1 ELSE index) => ~Eligible(j)

(* A sorted queue stays sorted without its k-th task.                      *)
LEMMA WithoutOrder ==
    ASSUME NEW q \in Seq(Task), NEW k \in 1 .. Len(q), InWattsOrder(q, Len(q))
    PROVE  InWattsOrder(Without(q, k), Len(Without(q, k)))
<1>1. /\ Len(q) \in Nat /\ Len(Without(q, k)) = Len(q) - 1
      /\ \A j \in 1 .. Len(q) - 1 : Without(q, k)[j] = IF j < k THEN q[j] ELSE q[j + 1]
  <2>1. Len(q) \in Nat
    OBVIOUS
  <2> QED
    BY <2>1, WithoutType
<1> SUFFICES ASSUME NEW a \in 1 .. Len(q) - 1, NEW b \in 1 .. Len(q) - 1, a < b
             PROVE  Def[Without(q, k)[a]].Watts <= Def[Without(q, k)[b]].Watts
  BY <1>1 DEF InWattsOrder
<1> DEFINE fa == IF a < k THEN a ELSE a + 1
           fb == IF b < k THEN b ELSE b + 1
<1>2. fa \in 1 .. Len(q) /\ fb \in 1 .. Len(q) /\ fa < fb
  BY <1>1
<1>3. Without(q, k)[a] = q[fa] /\ Without(q, k)[b] = q[fb]
  BY <1>1
<1> QED
  BY <1>2, <1>3 DEF InWattsOrder

(* Taking the k-th task leaves a sorted queue sorted.                      *)
LEMMA DequeueSorted ==
    ASSUME TypeOK, NEW k \in 1 .. Len(tasks), Dequeue(k), InWattsOrder(tasks, Len(tasks))
    PROVE  InWattsOrder(tasks', Len(tasks'))
<1>1. CASE LastInstance(k)
  BY <1>1, WithoutOrder DEF Dequeue, QueueAfter, TypeOK
<1>2. CASE ~LastInstance(k)
  BY <1>2 DEF Dequeue, QueueAfter
<1> QED
  BY <1>1, <1>2

(* Every step of the policies keeps the queue sorted.                      *)
LEMMA SortedStep ==
    ASSUME ~schedPolSwitchEnabled, IndInv, SortedInv, Consume
    PROVE  SortedInv'
<1>1. CASE ConsumeOffers
  <2>1. Len(tasks') = Len(tasks) /\ (curSchedPolicy # "first-fit" => InWattsOrder(tasks', Len(tasks)))
    <3>1. CASE curSchedPolicy = "first-fit"
      BY <1>1, <3>1 DEF ConsumeOffers
    <3>2. CASE curSchedPolicy # "first-fit"
      <4>1. /\ tasks' \in [1 .. Len(tasks) -> Range(tasks)]
            /\ InWattsOrder(tasks', Len(tasks)) /\ Len(tasks) \in Nat
        BY <1>1, <3>2 DEF ConsumeOffers, SortLength, SortNTasks, PermutationsFixingTail,
                          IndInv, TypeOK
      <4> QED
        BY <4>1
    <3> QED
      BY <3>1, <3>2
  <2> QED
    BY <1>1, <2>1 DEF SortedInv, ConsumeOffers, policyVars
<1>2. CASE Return \/ GreedyFatal \/ MaxFatal \/ MaxMinFatal
  BY <1>2 DEF Return, GreedyFatal, MaxFatal, MaxMinFatal, Fatal, SortedInv
<1>3. CASE \/ DeclineNoPendingTasks \/ BeginOffer
           \/ FirstFitSkip \/ GreedySkip \/ MaxSkip \/ MaxNone \/ MaxMinMismatch \/ MaxMinNoFit
           \/ LaunchPacked \/ DeclineInsufficientResources
  <2>1. UNCHANGED <<tasks, curSchedPolicy>> /\ pc \in {"offer", "max", "scan"}
    BY <1>3 DEF DeclineNoPendingTasks, BeginOffer, FirstFitSkip, GreedySkip,
       MaxSkip, MaxNone, MaxMinMismatch, MaxMinNoFit, LaunchPacked,
       DeclineInsufficientResources, SkipUnchanged, queueVars, policyVars, Scanning, Packing,
       MaxMinScans, ScanOver
  <2> QED
    BY <2>1 DEF SortedInv
<1>4. CASE FirstFitTake
  BY <1>4 DEF FirstFitTake, Scanning, policyVars, SortedInv
<1>5. CASE GreedyPack \/ MaxPack \/ MaxMinPack
  <2>1. PICK k \in 1 .. Len(tasks) : Pack(k) /\ pc \in {"max", "scan"}
    <3>1. CASE GreedyPack
      BY <3>1 DEF GreedyPack, Packing, IndInv, PositionInv, TypeOK
    <3>2. CASE MaxPack
      BY <3>2 DEF MaxPack, IndInv, PositionInv, TypeOK
    <3>3. CASE MaxMinPack
      BY <3>3, PositionLemma DEF MaxMinPack, MaxMinScans, PositionInQueue, Scanning
    <3> QED
      BY <1>5, <3>1, <3>2, <3>3
  <2>2. curSchedPolicy' = curSchedPolicy /\ Dequeue(k)
    BY <2>1 DEF Pack, policyVars
  <2> QED
    BY <2>1, <2>2, DequeueSorted DEF SortedInv, IndInv
<1> QED
  BY <1>1, <1>2, <1>3, <1>4, <1>5 DEF Consume

(* Nothing changes but the position.                                       *)
LEMMA FirstPickSkip ==
    ASSUME IndInv, FirstPickInv,
           FirstFitSkip \/ GreedySkip \/ MaxSkip \/ MaxMinMismatch \/ MaxMinNoFit
    PROVE  FirstPickInv'
<1>1. /\ UNCHANGED <<tasks, offers, total, packed, curSchedPolicy, pc>>
      /\ Len(tasks) \in Nat /\ i \in Int /\ index \in Int
      /\ direction \in BOOLEAN /\ start \in BOOLEAN
  BY DEF FirstFitSkip, GreedySkip, MaxSkip, MaxMinMismatch, MaxMinNoFit, SkipUnchanged,
         queueVars, policyVars, IndInv, TypeOK
<1>2. \A j \in 1 .. Len(tasks) : Eligible(j)' = Eligible(j)
  BY <1>1, EligibleFrame
<1>3. NothingFits' = NothingFits
  BY <1>1, <1>2 DEF NothingFits
<1>4. CASE FirstFitSkip \/ GreedySkip
  <2>1. pc = "scan" /\ curSchedPolicy # "max-min"
    BY <1>4 DEF FirstFitSkip, GreedySkip, Scanning, Packing
  <2> QED
    BY <1>1, <1>3, <2>1 DEF FirstPickInv
<1>5. CASE MaxSkip
  <2>1. pc = "max" /\ i' = i - 1 /\ ~Eligible(i)
    BY <1>5 DEF MaxSkip
  <2>2. \A j \in 1 .. Len(tasks) : j > i - 1 => j > i \/ j = i
    BY <1>1
  <2> QED
    BY <1>1, <1>2, <2>1, <2>2 DEF FirstPickInv
<1>6. ASSUME MaxMinMismatch \/ MaxMinNoFit, packed = {}
      PROVE  /\ pc = "scan" /\ curSchedPolicy = "max-min" /\ ~direction' /\ ~Eligible(MaxMinIndex)
             /\ \A j \in 1 .. Len(tasks) : j > MaxMinIndex => ~Eligible(j)
             /\ (IF start' THEN Len(tasks) - i' + 1 ELSE index') \in {MaxMinIndex, MaxMinIndex - 1}
  <2>1. /\ pc = "scan" /\ curSchedPolicy = "max-min" /\ i' = i + 1 /\ direction' = direction
    BY <1>6 DEF MaxMinMismatch, MaxMinNoFit, MaxMinScans, Scanning
  <2>2. ~Eligible(MaxMinIndex)
    BY <1>6 DEF MaxMinMismatch, MaxMinNoFit, Eligible, MaxMinTask
  <2>3. ~direction /\ MaxMinIndex = IF start THEN Len(tasks) - i + 1 ELSE index
    BY <1>6, <2>1 DEF FirstPickInv, MaxMinIndex
  <2>4. \A j \in 1 .. Len(tasks) : j > MaxMinIndex => ~Eligible(j)
    BY <1>6, <2>1, <2>3 DEF FirstPickInv
  <2>5. CASE MaxMinMismatch
    <3>1. start' = start /\ index' = MaxMinIndex
      BY <2>5 DEF MaxMinMismatch
    <3> QED
      BY <1>1, <2>1, <2>2, <2>3, <2>4, <3>1
  <2>6. CASE MaxMinNoFit
    <3>1. ~start' /\ index' = MaxMinIndex - 1
      BY <2>3, <2>6 DEF MaxMinNoFit
    <3> QED
      BY <2>1, <2>2, <2>3, <2>4, <3>1
  <2> QED
    BY <1>6, <2>5, <2>6
<1>7. CASE MaxMinMismatch \/ MaxMinNoFit
  <2>1. pc = "scan" /\ curSchedPolicy = "max-min"
    BY <1>7 DEF MaxMinMismatch, MaxMinNoFit, MaxMinScans, Scanning
  <2>2. ASSUME packed = {}, NEW j \in 1 .. Len(tasks),
               j > (IF start' THEN Len(tasks) - i' + 1 ELSE index')
        PROVE  ~Eligible(j)
    <3>1. MaxMinIndex \in Int
      BY <1>1 DEF MaxMinIndex
    <3>2. j > MaxMinIndex \/ j = MaxMinIndex
      BY <1>6, <1>7, <2>2, <3>1
    <3> QED
      BY <1>6, <1>7, <2>2, <3>2
  <2> QED
    BY <1>1, <1>2, <1>6, <1>7, <2>1, <2>2 DEF FirstPickInv
<1> QED
  BY <1>4, <1>5, <1>7

(* Every step of the policies keeps the positions.                         *)
LEMMA FirstPickStep ==
    ASSUME ~schedPolSwitchEnabled, IndInv, FirstPickInv, Consume
    PROVE  FirstPickInv'
<1>1. CASE \/ ConsumeOffers \/ Return \/ DeclineNoPendingTasks \/ FirstFitTake
           \/ GreedyFatal \/ MaxFatal \/ MaxMinFatal
           \/ LaunchPacked \/ DeclineInsufficientResources
  <2>1. pc' \notin {"max", "scan"}
    BY <1>1 DEF ConsumeOffers, Return, DeclineNoPendingTasks, FirstFitTake, GreedyFatal,
       MaxFatal, MaxMinFatal, Fatal, LaunchPacked, DeclineInsufficientResources
  <2> QED
    BY <2>1 DEF FirstPickInv
<1>2. CASE BeginOffer
  <2>1. /\ packed' = {} /\ ~direction' /\ start' /\ Len(tasks) \in Nat
        /\ UNCHANGED <<tasks, curSchedPolicy>>
        /\ pc' = IF curSchedPolicy = "max-greedymins" THEN "max" ELSE "scan"
        /\ i' = IF pc' = "max" THEN Len(tasks) ELSE 1
    BY <1>2 DEF BeginOffer, FirstPc, queueVars, policyVars, IndInv, TypeOK
  <2>2. \A j \in 1 .. Len(tasks) : ~(j > Len(tasks)) /\ ~(j > Len(tasks) - 1 + 1)
    BY <2>1
  <2> QED
    BY <2>1, <2>2 DEF FirstPickInv
<1>3. CASE GreedyPack \/ MaxPack \/ MaxMinPack
  <2>1. packed' # {} /\ pc' = "scan"
    BY <1>3 DEF GreedyPack, MaxPack, MaxMinPack, ToMins, Packing, MaxMinScans, Scanning, Pack
  <2> QED
    BY <2>1 DEF FirstPickInv
<1>4. CASE MaxNone
  <2>1. /\ pc = "max" /\ i < 1 /\ pc' = "scan" /\ curSchedPolicy' = "max-greedymins"
        /\ UNCHANGED <<tasks, offers, total, packed>>
    BY <1>4 DEF MaxNone, ToMins, WindowFull, queueVars, policyVars, IndInv, ScanInv
  <2>2. \A j \in 1 .. Len(tasks) : j > i
    BY <2>1 DEF IndInv, TypeOK
  <2>3. \A j \in 1 .. Len(tasks) : Eligible(j)' = Eligible(j)
    BY <2>1, EligibleFrame
  <2> QED
    BY <2>1, <2>2, <2>3 DEF FirstPickInv, NothingFits
<1> QED
  BY <1>1, <1>2, <1>3, <1>4, FirstPickSkip DEF Consume

(* A step by which the first instance is packed into an offer.             *)
LEMMA ExtremeStep ==
    ASSUME ~schedPolSwitchEnabled, IndInv, PassedInv, SortedInv, FirstPickInv, Consume,
           NEW t \in Task, Packs(t), NEW k \in 1 .. Len(tasks), Eligible(k)
    PROVE  IF curSchedPolicy = "bin-packing" THEN Def[t].Watts <= Def[tasks[k]].Watts
                                             ELSE Def[t].Watts >= Def[tasks[k]].Watts
<1>1. /\ packed = {} /\ packed' = {newTask(t)} /\ pc \in {"max", "scan"}
      /\ Len(tasks) \in Nat /\ i \in Int /\ index \in Int
  BY DEF Packs, InScan, IndInv, TypeOK
<1>2. GreedyPack \/ MaxPack \/ MaxMinPack
  BY <1>1 DEF Consume, ConsumeOffers, Return, DeclineNoPendingTasks, BeginOffer, FirstFitSkip,
     FirstFitTake, GreedyFatal, GreedySkip, MaxFatal, MaxSkip, MaxNone, MaxMinFatal,
     MaxMinMismatch, MaxMinNoFit, Fatal, SkipUnchanged, LaunchPacked,
     DeclineInsufficientResources
<1>3. ASSUME NEW p, Pack(p) PROVE tasks[p] = t
  <2>1. packed' = packed \cup {newTask(tasks[p])}
    BY <1>3 DEF Pack
  <2>2. newTask(tasks[p]) = newTask(t)
    BY <1>1, <2>1
  <2>3. <<tasks[p], instances[tasks[p]]>> = <<t, instances[t]>>
    BY <2>2 DEF newTask
  <2> QED
    BY <2>3
<1>4. \A a, b \in 1 .. Len(tasks) : a <= b /\ curSchedPolicy # "first-fit" =>
        Def[tasks[a]].Watts <= Def[tasks[b]].Watts
  <2>1. \A a \in 1 .. Len(tasks) : Def[tasks[a]].Watts \in Nat
    <3> TAKE a \in 1 .. Len(tasks)
    <3>1. tasks[a] \in Task
      BY DEF IndInv, TypeOK
    <3> QED
      BY <3>1, TaskAssumption DEF TaskDef
  <2>2. \A a, b \in 1 .. Len(tasks) : a <= b => a < b \/ a = b
    BY <1>1
  <2>3. curSchedPolicy # "first-fit" => InWattsOrder(tasks, Len(tasks))
    BY <1>1 DEF SortedInv
  <2> QED
    BY <2>1, <2>2, <2>3 DEF InWattsOrder
<1>5. CASE GreedyPack
  <2>1. /\ i \in 1 .. Len(tasks) /\ Eligible(i) /\ Pack(i) /\ pc = "scan"
        /\ curSchedPolicy \in {"bin-packing", "max-greedymins"}
    BY <1>5 DEF GreedyPack, Packing, MinsFits, IndInv, PositionInv, TypeOK
  <2>2. curSchedPolicy = "bin-packing"
    BY <1>1, <2>1 DEF FirstPickInv, NothingFits
  <2>3. ~(k < i)
    BY <1>1, <2>1 DEF PassedInv, WindowFull
  <2> QED
    BY <1>1, <1>3, <1>4, <2>1, <2>2, <2>3
<1>6. CASE MaxPack
  <2>1. i \in 1 .. Len(tasks) /\ Pack(i) /\ pc = "max" /\ curSchedPolicy = "max-greedymins"
    BY <1>6 DEF MaxPack, IndInv, PositionInv, ScanInv, TypeOK
  <2>2. ~(k > i)
    BY <2>1 DEF FirstPickInv
  <2> QED
    BY <1>1, <1>3, <1>4, <2>1, <2>2
<1>7. CASE MaxMinPack
  <2>1. /\ MaxMinIndex \in 1 .. Len(tasks) /\ Pack(MaxMinIndex) /\ pc = "scan"
        /\ curSchedPolicy = "max-min"
    BY <1>7, PositionLemma DEF MaxMinPack, MaxMinScans, Scanning, PositionInQueue
  <2>2. MaxMinIndex = IF start THEN Len(tasks) - i + 1 ELSE index
    BY <1>1, <2>1 DEF MaxMinIndex, FirstPickInv
  <2>3. ~(k > MaxMinIndex)
    BY <1>1, <2>1, <2>2 DEF FirstPickInv
  <2> QED
    BY <1>1, <1>3, <1>4, <2>1, <2>3
<1> QED
  BY <1>2, <1>5, <1>6, <1>7

(* Without switching, max-greedymins and max-min give an offer first to a  *)
(* heaviest task that fits it, bin-packing to a lightest, for every        *)
(* workload and every offer.  With switching only the window is sorted and *)
(* this is false of the policies that start from the back.                 *)
THEOREM FirstPickCorrect == ~schedPolSwitchEnabled /\ Spec => FirstPickIsExtreme
<1> SUFFICES ASSUME ~schedPolSwitchEnabled PROVE Spec => FirstPickIsExtreme
  OBVIOUS
<1> DEFINE Inv == SortedInv /\ FirstPickInv
           Extreme == \A t \in Task : Packs(t) =>
             \A k \in 1 .. Len(tasks) : Eligible(k) =>
                IF curSchedPolicy = "bin-packing"
                THEN Def[t].Watts <= Def[tasks[k]].Watts
                ELSE Def[t].Watts >= Def[tasks[k]].Watts
<1>1. Init => Inv
  BY DEF Init, InitWithWindow, SortedInv, FirstPickInv
<1>2. IndInv /\ Inv /\ [Next]_vars => Inv'
  <2> SUFFICES ASSUME IndInv, Inv, [Next]_vars PROVE Inv'
    OBVIOUS
  <2>1. ASSUME NEW os \in OfferBatch, ResourceOffers(os) PROVE Inv'
    BY <2>1 DEF ResourceOffers, SortedInv, FirstPickInv
  <2>2. CASE UNCHANGED vars
    <3>1. \A j \in 1 .. Len(tasks) : Eligible(j)' = Eligible(j)
      BY <2>2, EligibleFrame DEF vars, queueVars
    <3>2. SortedInv'
      BY <2>2 DEF SortedInv, vars, queueVars, policyVars
    <3>3. FirstPickInv'
      BY <2>2, <3>1 DEF FirstPickInv, NothingFits, vars, queueVars, policyVars, scanVars
    <3> QED
      BY <3>2, <3>3
  <2> QED
    BY <2>1, <2>2, SortedStep, FirstPickStep DEF Next
<1>3. IndInv /\ PassedInv /\ Inv /\ [Next]_vars => [Extreme]_vars
  <2> SUFFICES ASSUME IndInv, PassedInv, Inv, Next, NEW t \in Task, Packs(t),
                      NEW k \in 1 .. Len(tasks), Eligible(k)
               PROVE  IF curSchedPolicy = "bin-packing"
                      THEN Def[t].Watts <= Def[tasks[k]].Watts
                      ELSE Def[t].Watts >= Def[tasks[k]].Watts
    OBVIOUS
  <2>1. Consume
    BY DEF Next, ResourceOffers, Packs, InScan
  <2> QED
    BY <2>1, ExtremeStep
<1> QED
  BY <1>1, <1>2, <1>3, Invariance, PassedAlways, PTL DEF Spec, FirstPickIsExtreme
==============================================================================
