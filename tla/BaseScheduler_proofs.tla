------------------------ MODULE BaseScheduler_proofs -------------------------
(***************************************************************************)
(* Proofs about BaseScheduler, for every workload, cluster, configuration  *)
(* of the switching and behaviour of Mesos.                                *)
(***************************************************************************)
EXTENDS BaseScheduler, SchedPolicies_proofs, Sums_proofs

(* What the instances ids need of agent a, as sums of constant functions.  *)
CPUOf == [x \in Task \X Int |-> Def[x[1]].CPU]
RAMOf == [x \in Task \X Int |-> Def[x[1]].RAM]
WattsOf(a) == [x \in Task \X Int |-> WattsToConsider(x[1], [agent |-> a])]

UsedCPU(ids) == SumFunctionOnSet(CPUOf, ids)
UsedRAM(ids) == SumFunctionOnSet(RAMOf, ids)
UsedPower(ids, a) == SumFunctionOnSet(WattsOf(a), ids)

Known(a) == perHostResourceAvailability[a] # nil

(* The instances of which agent a was told the end twice.                  *)
Twice(a) == {u[1] : u \in {v \in redelivered : v[2] = a}}

------------------------------------------------------------------------------
(* The inductive invariant, parts of which hold only until a switch leaves *)
(* no policy.                                                              *)

(* The agent of an instance that runs, or of which an update is repeated,  *)
(* has been recorded; an update is repeated for an instance that is gone,  *)
(* and once.                                                               *)
PlacedInv ==
    /\ placed \in [Agent -> SUBSET launched]
    /\ \A a \in Agent : IsFiniteSet(placed[a])
    /\ IsFiniteSet(packed) /\ IsFiniteSet(redelivered)
    /\ unacknowledged \cup redelivered \subseteq launched \X Agent
    /\ unacknowledged \cap redelivered = {}
    /\ \A u \in unacknowledged \cup redelivered : u[1] \notin placed[u[2]]
    /\ \A a \in Agent : ~Known(a) =>
         placed[a] = {} /\ \A u \in unacknowledged \cup redelivered : u[2] # a

(* Mesos never has more on an agent than the agent has.                    *)
WithinCapacity ==
    \A a \in Agent :
      /\ UsedCPU(placed[a]) <= Capacity[a].cpu
      /\ UsedRAM(placed[a]) <= Capacity[a].ram
      /\ wattsAsAResource => UsedPower(placed[a], a) <= Capacity[a].watts

(* An offer still to be answered is what its agent has left: the offers of *)
(* one callback come from different agents.                                *)
OffersInv ==
    /\ pc = "idle" => offers = <<>>
    /\ \A j \in 1 .. Len(offers) : offers[j].agent \in Agent
    /\ \A j \in 1 .. Len(offers), a \in Agent :
         offers[j].agent = a => Known(a) /\ offers[j] = FreeOffer(a)
    /\ \A j, k \in 1 .. Len(offers) : offers[j].agent = offers[k].agent => j = k

(* The totals a policy carries are what the packed instances need.         *)
TotalInv ==
    InScan => /\ total.cpu = UsedCPU(packed)
              /\ total.ram = UsedRAM(packed)
              /\ total.watts = UsedPower(packed, offer.agent)

AgreeInv ==
    \A a \in Agent : Known(a) =>
      /\ perHostResourceAvailability[a].unused.cpu =
           Capacity[a].cpu - UsedCPU(placed[a]) + UsedCPU(Twice(a))
      /\ perHostResourceAvailability[a].unused.ram =
           Capacity[a].ram - UsedRAM(placed[a]) + UsedRAM(Twice(a))

WindowInv ==
    /\ IdlePoliciesReset
    /\ WindowRespected
    /\ WindowWithinQueue
    /\ toFixSchedWindow => numTasksInSchedWindow = 0

BaseTypes ==
    /\ perHostResourceAvailability \in [Agent -> ResourceCount \cup {nil}]
    /\ schedPolSwitchCriteria \in SwitchCriteria
    /\ toFixSchedWindow \in WindowModes

BaseInv ==
    /\ IndInv
    /\ BaseTypes
    /\ PlacedInv
    /\ WithinCapacity
    /\ OffersInv
    /\ TotalInv
    /\ AgreeInv
    /\ WindowInv

------------------------------------------------------------------------------
(* The requirements of an instance are numbers.                            *)
LEMMA RequirementType ==
    ASSUME NEW a \in Agent
    PROVE  /\ CPUOf \in [Task \X Int -> Nat]
           /\ RAMOf \in [Task \X Int -> Nat]
           /\ WattsOf(a) \in [Task \X Int -> Nat]
<1>1. ASSUME NEW x \in Task \X Int
      PROVE  Def[x[1]].CPU \in Nat /\ Def[x[1]].RAM \in Nat /\ Def[x[1]].Watts \in Nat
  BY TaskAssumption DEF TaskDef
<1>2. ASSUME NEW x \in Task \X Int
      PROVE  WattsToConsider(x[1], [agent |-> a]) \in Nat
  <2>1. x[1] \in Task /\ ClassOf[a] \in PowerClass
    BY OfferAssumption
  <2>2. UsesClassMap(x[1]) => Def[x[1]].ClassToWatts \in [PowerClass -> Nat]
    BY <2>1, TaskAssumption DEF TaskDef, UsesClassMap
  <2> QED
    BY <1>1, <2>1, <2>2 DEF WattsToConsider
<1> QED
  BY <1>1, <1>2 DEF CPUOf, RAMOf, WattsOf

(* What instances use, and what two sets of them use together.             *)
LEMMA UsedUnion ==
    ASSUME NEW a \in Agent,
           NEW ids \in SUBSET (Task \X Int), IsFiniteSet(ids),
           NEW new \in SUBSET (Task \X Int), IsFiniteSet(new), ids \cap new = {}
    PROVE  /\ UsedCPU(ids) \in Nat /\ UsedRAM(ids) \in Nat /\ UsedPower(ids, a) \in Nat
           /\ UsedCPU(new) \in Nat /\ UsedRAM(new) \in Nat /\ UsedPower(new, a) \in Nat
           /\ UsedCPU(ids \cup new) = UsedCPU(ids) + UsedCPU(new)
           /\ UsedRAM(ids \cup new) = UsedRAM(ids) + UsedRAM(new)
           /\ UsedPower(ids \cup new, a) = UsedPower(ids, a) + UsedPower(new, a)
<1>1. ASSUME NEW fun \in [Task \X Int -> Nat]
      PROVE  /\ SumFunctionOnSet(fun, ids) \in Nat /\ SumFunctionOnSet(fun, new) \in Nat
             /\ SumFunctionOnSet(fun, ids \cup new) =
                  SumFunctionOnSet(fun, ids) + SumFunctionOnSet(fun, new)
  <2>1. /\ \A x \in ids \cup new : fun[x] \in Int
        /\ \A x \in ids : fun[x] \in Nat
        /\ \A x \in new : fun[x] \in Nat
    OBVIOUS
  <2> QED
    BY <2>1, SumNat, SumUnion
<1> QED
  BY <1>1, RequirementType DEF UsedCPU, UsedRAM, UsedPower

(* What one instance uses.                                                 *)
LEMMA UsedByOne ==
    ASSUME NEW a \in Agent, NEW x \in Task \X Int
    PROVE  /\ UsedCPU({x}) = Def[x[1]].CPU
           /\ UsedRAM({x}) = Def[x[1]].RAM
           /\ UsedPower({x}, a) = WattsToConsider(x[1], [agent |-> a])
<1>1. ASSUME NEW fun \in [Task \X Int -> Nat]
      PROVE  SumFunctionOnSet(fun, {x}) = fun[x]
  <2>1. fun[x] \in Int
    OBVIOUS
  <2> QED
    BY <2>1, SumOne
<1>2. /\ CPUOf[x] = Def[x[1]].CPU /\ RAMOf[x] = Def[x[1]].RAM
      /\ WattsOf(a)[x] = WattsToConsider(x[1], [agent |-> a])
  BY DEF CPUOf, RAMOf, WattsOf
<1> QED
  BY <1>1, <1>2, RequirementType DEF UsedCPU, UsedRAM, UsedPower

(* SumOf adds the same numbers up.                                         *)
LEMMA SumOfIs ==
    ASSUME NEW ids \in SUBSET (Task \X Int), IsFiniteSet(ids)
    PROVE  /\ SumOf(ids).cpu = UsedCPU(ids) /\ SumOf(ids).ram = UsedRAM(ids)
           /\ SumOf(ids).watts \in Int
           /\ SumOf(ids) = [cpu |-> UsedCPU(ids), ram |-> UsedRAM(ids),
                            watts |-> SumOf(ids).watts]
<1>1. PICK a \in Agent : TRUE
  BY SwitchAssumption
<1> DEFINE cpu == [x \in ids |-> GetResourceRequirement(x).cpu]
           ram == [x \in ids |-> GetResourceRequirement(x).ram]
           watts == [x \in ids |-> GetResourceRequirement(x).watts]
<1>2. \A x \in ids : /\ cpu[x] = CPUOf[x] /\ cpu[x] \in Int
                     /\ ram[x] = RAMOf[x] /\ ram[x] \in Int
                     /\ watts[x] \in Int
  BY TaskAssumption DEF GetResourceRequirement, CPUOf, RAMOf, TaskDef
<1>3. DOMAIN cpu = ids /\ DOMAIN ram = ids /\ DOMAIN watts = ids
  OBVIOUS
<1>4. /\ SumOf(ids) = [cpu |-> SumFunction(cpu), ram |-> SumFunction(ram),
                       watts |-> SumFunction(watts)]
  BY DEF SumOf
<1> HIDE DEF cpu, ram, watts
<1>5. SumFunction(cpu) = UsedCPU(ids) /\ SumFunction(ram) = UsedRAM(ids)
  BY <1>2, <1>3, SumIs DEF UsedCPU, UsedRAM
<1>6. SumFunction(watts) \in Int
  BY <1>2, <1>3, SumType DEF SumFunction
<1> QED
  BY <1>4, <1>5, <1>6

(* What Mesos has left to offer of an agent.                               *)
LEMMA FreeIs ==
    ASSUME NEW a \in Agent, placed[a] \in SUBSET (Task \X Int), IsFiniteSet(placed[a])
    PROVE  /\ Free(a).cpu = Capacity[a].cpu - UsedCPU(placed[a])
           /\ Free(a).ram = Capacity[a].ram - UsedRAM(placed[a])
           /\ Free(a).watts = Capacity[a].watts -
                (IF wattsAsAResource THEN UsedPower(placed[a], a) ELSE 0)
           /\ FreeOffer(a) = [agent |-> a, cpus |-> Free(a).cpu, mem |-> Free(a).ram,
                              watts |-> Free(a).watts]
<1> DEFINE fun == [x \in placed[a] |-> WattsToConsider(x[1], [agent |-> a])]
<1>1. \A x \in placed[a] : fun[x] = WattsOf(a)[x] /\ fun[x] \in Int
  BY RequirementType DEF WattsOf
<1>2. DOMAIN fun = placed[a]
  OBVIOUS
<1>3. UsedWatts(a) = IF wattsAsAResource THEN SumFunction(fun) ELSE 0
  BY DEF UsedWatts
<1> HIDE DEF fun
<1>4. SumFunction(fun) = UsedPower(placed[a], a)
  BY <1>1, <1>2, SumIs DEF UsedPower
<1>5. [SumOf(placed[a]) EXCEPT !.watts = UsedWatts(a)] =
        [cpu |-> UsedCPU(placed[a]), ram |-> UsedRAM(placed[a]), watts |-> UsedWatts(a)]
  BY SumOfIs
<1>6. Free(a) = [cpu |-> Capacity[a].cpu - UsedCPU(placed[a]),
                 ram |-> Capacity[a].ram - UsedRAM(placed[a]),
                 watts |-> Capacity[a].watts - UsedWatts(a)]
  BY <1>5 DEF Free, Minus
<1> QED
  BY <1>3, <1>4, <1>6 DEF FreeOffer

(* The instances on an agent are instances, finitely many.                 *)
LEMMA PlacedType ==
    ASSUME TypeOK, PlacedInv, NEW a \in Agent
    PROVE  /\ placed[a] \in SUBSET (Task \X Int) /\ IsFiniteSet(placed[a])
           /\ Twice(a) \in SUBSET (Task \X Int) /\ IsFiniteSet(Twice(a))
           /\ Capacity[a] \in Usage
<1>1. placed[a] \in SUBSET launched /\ launched \in SUBSET (Task \X Int)
  BY DEF PlacedInv, TypeOK
<1> DEFINE R == {v \in redelivered : v[2] = a}
           f == [u \in R |-> u[1]]
<1>2. R \subseteq redelivered /\ IsFiniteSet(R)
  BY FS_Subset DEF PlacedInv
<1>3. Twice(a) \in SUBSET launched
  BY DEF Twice, PlacedInv
<1>4. f \in Surjection(R, Twice(a))
  BY DEF Surjection, Twice
<1>5. IsFiniteSet(Twice(a))
  <2> HIDE DEF f, R
  <2> QED
    BY <1>2, <1>4, FS_Surjection
<1> QED
  BY <1>1, <1>3, <1>5, SwitchAssumption DEF PlacedInv

(* What Mesos offers of an agent is an offer.                              *)
LEMMA FreeOfferType ==
    ASSUME TypeOK, PlacedInv, WithinCapacity, NEW a \in Agent
    PROVE  FreeOffer(a) \in Offer /\ FreeOffer(a).agent = a
<1>1. /\ placed[a] \in SUBSET (Task \X Int) /\ IsFiniteSet(placed[a])
      /\ Capacity[a].cpu \in Nat /\ Capacity[a].ram \in Nat /\ Capacity[a].watts \in Nat
  BY PlacedType DEF Usage
<1>2. /\ UsedCPU(placed[a]) \in Nat /\ UsedRAM(placed[a]) \in Nat
      /\ UsedPower(placed[a], a) \in Nat
  <2>1. {} \in SUBSET (Task \X Int) /\ IsFiniteSet({}) /\ placed[a] \cap {} = {}
    BY FS_EmptySet
  <2> QED
    BY <1>1, <2>1, UsedUnion
<1>3. /\ Free(a).cpu = Capacity[a].cpu - UsedCPU(placed[a])
      /\ Free(a).ram = Capacity[a].ram - UsedRAM(placed[a])
      /\ Free(a).watts = Capacity[a].watts -
           (IF wattsAsAResource THEN UsedPower(placed[a], a) ELSE 0)
      /\ FreeOffer(a) = [agent |-> a, cpus |-> Free(a).cpu, mem |-> Free(a).ram,
                         watts |-> Free(a).watts]
  BY <1>1, FreeIs
<1>4. /\ Free(a).cpu \in 0 .. Capacity[a].cpu
      /\ Free(a).ram \in 0 .. Capacity[a].ram
      /\ Free(a).watts \in 0 .. Capacity[a].watts
  <2>1. /\ UsedCPU(placed[a]) <= Capacity[a].cpu /\ UsedRAM(placed[a]) <= Capacity[a].ram
        /\ wattsAsAResource => UsedPower(placed[a], a) <= Capacity[a].watts
    BY DEF WithinCapacity
  <2> QED
    BY <1>1, <1>2, <1>3, <2>1
<1>5. FreeOffer(a) \in [agent: {a}, cpus: 0 .. Capacity[a].cpu, mem: 0 .. Capacity[a].ram,
                        watts: 0 .. Capacity[a].watts]
  BY <1>3, <1>4
<1>6. [agent: {a}, cpus: 0 .. Capacity[a].cpu, mem: 0 .. Capacity[a].ram,
       watts: 0 .. Capacity[a].watts] \subseteq Offer
  BY SwitchAssumption
<1> QED
  BY <1>3, <1>5, <1>6

(* The tracker's entry of one agent is changed.                            *)
LEMMA TrackerUpdate ==
    ASSUME BaseTypes, NEW a \in Agent, Known(a), NEW v \in Resources,
           perHostResourceAvailability' =
             [perHostResourceAvailability EXCEPT ![a].unused = v]
    PROVE  /\ perHostResourceAvailability' \in [Agent -> ResourceCount \cup {nil}]
           /\ Known(a)' /\ perHostResourceAvailability'[a].unused = v
           /\ \A b \in Agent : b # a =>
                perHostResourceAvailability'[b] = perHostResourceAvailability[b]
           /\ \A b \in Agent : Known(b)' = Known(b)
<1>1. /\ perHostResourceAvailability \in [Agent -> ResourceCount \cup {nil}]
      /\ perHostResourceAvailability[a] \in ResourceCount
  BY DEF BaseTypes, Known
<1>2. /\ perHostResourceAvailability' =
           [perHostResourceAvailability EXCEPT
              ![a] = [perHostResourceAvailability[a] EXCEPT !.unused = v]]
  OBVIOUS
<1>3. [perHostResourceAvailability[a] EXCEPT !.unused = v] \in ResourceCount
  BY <1>1 DEF ResourceCount
<1>4. /\ perHostResourceAvailability'[a] =
           [perHostResourceAvailability[a] EXCEPT !.unused = v]
      /\ \A b \in Agent : b # a =>
           perHostResourceAvailability'[b] = perHostResourceAvailability[b]
  BY <1>1, <1>2
<1>5. nil \notin ResourceCount
  BY SwitchAssumption
<1>6. perHostResourceAvailability' \in [Agent -> ResourceCount \cup {nil}]
  BY <1>1, <1>2, <1>3
<1>7. perHostResourceAvailability'[a].unused = v
  BY <1>1, <1>4 DEF ResourceCount
<1>8. \A b \in Agent : Known(b)' = (perHostResourceAvailability'[b] # nil)
  BY DEF Known
<1>9. Known(a)'
  BY <1>3, <1>4, <1>5, <1>8
<1> QED
  BY <1>4, <1>6, <1>7, <1>8, <1>9 DEF Known

(* A step that leaves the queue and the policies alone.                    *)
LEMMA IndFrame ==
    ASSUME IndInv, UNCHANGED vars
    PROVE  IndInv'
BY DEF vars, queueVars, policyVars, scanVars, IndInv, TypeOK, QueueHoldsPending,
       EachInstanceOnce, Scheduled, ShutdownWhenDrained, NeverOverpacked,
       WithinOffer, offer, InScan, ScanInv, PositionInv, MaxMinInv

(* A step between two callbacks that leaves the queue alone.               *)
LEMMA IdleFrame ==
    ASSUME BaseInv, pc = "idle", UNCHANGED <<vars, flagVars>>
    PROVE  IndInv' /\ OffersInv' /\ TotalInv' /\ WindowInv'
<1>1. IndInv'
  BY IndFrame DEF BaseInv
<1>2. OffersInv' /\ TotalInv'
  <2>1. offers' = <<>> /\ pc' = "idle"
    BY DEF BaseInv, OffersInv, vars
  <2> QED
    BY <2>1 DEF OffersInv, TotalInv, InScan
<1>3. WindowInv'
  BY DEF vars, queueVars, policyVars, flagVars, BaseInv, WindowInv, IdlePoliciesReset,
     WindowRespected, WindowWithinQueue, SortLength
<1> QED
  BY <1>1, <1>2, <1>3

(* One instance less on an agent.                                          *)
LEMMA UsedLess ==
    ASSUME NEW a \in Agent, NEW ids \in SUBSET (Task \X Int), IsFiniteSet(ids), NEW x \in ids
    PROVE  /\ UsedCPU(ids) = UsedCPU(ids \ {x}) + Def[x[1]].CPU
           /\ UsedRAM(ids) = UsedRAM(ids \ {x}) + Def[x[1]].RAM
           /\ UsedPower(ids, a) = UsedPower(ids \ {x}, a) + WattsToConsider(x[1], [agent |-> a])
           /\ UsedCPU(ids \ {x}) \in Nat /\ UsedRAM(ids \ {x}) \in Nat
           /\ UsedPower(ids \ {x}, a) \in Nat
           /\ Def[x[1]].CPU \in Nat /\ Def[x[1]].RAM \in Nat /\ Def[x[1]].Watts \in Nat
           /\ WattsToConsider(x[1], [agent |-> a]) \in Nat
<1>1. /\ ids \ {x} \in SUBSET (Task \X Int) /\ IsFiniteSet(ids \ {x})
      /\ {x} \in SUBSET (Task \X Int) /\ IsFiniteSet({x})
      /\ (ids \ {x}) \cap {x} = {} /\ (ids \ {x}) \cup {x} = ids
  <2>1. IsFiniteSet(ids \ {x}) /\ IsFiniteSet({x})
    BY FS_RemoveElement, FS_Singleton
  <2>2. (ids \ {x}) \cup {x} = ids
    OBVIOUS
  <2> QED
    BY <2>1, <2>2
<1>2. x[1] \in Task
  OBVIOUS
<1>3. Def[x[1]].CPU \in Nat /\ Def[x[1]].RAM \in Nat /\ Def[x[1]].Watts \in Nat
  BY <1>2, TaskAssumption DEF TaskDef
<1> DEFINE r == ids \ {x}
<1>4. /\ UsedCPU(r) \in Nat /\ UsedRAM(r) \in Nat /\ UsedPower(r, a) \in Nat
      /\ UsedPower({x}, a) \in Nat
      /\ UsedCPU(r \cup {x}) = UsedCPU(r) + UsedCPU({x})
      /\ UsedRAM(r \cup {x}) = UsedRAM(r) + UsedRAM({x})
      /\ UsedPower(r \cup {x}, a) = UsedPower(r, a) + UsedPower({x}, a)
  <2>1. PICK old \in SUBSET (Task \X Int), new \in SUBSET (Task \X Int) :
          old = r /\ new = {x}
    BY <1>1
  <2>2. IsFiniteSet(old) /\ IsFiniteSet(new) /\ old \cap new = {}
    BY <1>1, <2>1
  <2>3. /\ UsedCPU(old) \in Nat /\ UsedRAM(old) \in Nat /\ UsedPower(old, a) \in Nat
        /\ UsedPower(new, a) \in Nat
        /\ UsedCPU(old \cup new) = UsedCPU(old) + UsedCPU(new)
        /\ UsedRAM(old \cup new) = UsedRAM(old) + UsedRAM(new)
        /\ UsedPower(old \cup new, a) = UsedPower(old, a) + UsedPower(new, a)
    BY <2>2, UsedUnion
  <2> QED
    BY <2>1, <2>3
<1>5. /\ UsedCPU({x}) = Def[x[1]].CPU /\ UsedRAM({x}) = Def[x[1]].RAM
      /\ UsedPower({x}, a) = WattsToConsider(x[1], [agent |-> a])
  BY UsedByOne
<1> QED
  BY <1>1, <1>3, <1>4, <1>5

(* An instance ends: Mesos and the tracker give back the same.             *)
LEMMA StatusTerminalStep ==
    ASSUME BaseInv, NEW a \in Agent, NEW lost \in BOOLEAN, NEW x \in placed[a],
           StatusTerminal(x, a, lost)
    PROVE  BaseInv'
<1> DEFINE avail == perHostResourceAvailability
           req == GetResourceRequirement(x)
           v == Plus(avail[a].unused, req)
<1>1. /\ TypeOK /\ PlacedInv /\ AgreeInv /\ WithinCapacity /\ BaseTypes
      /\ pc = "idle" /\ UNCHANGED <<vars, redelivered, flagVars>>
      /\ placed' = [placed EXCEPT ![a] = placed[a] \ {x}]
      /\ unacknowledged' = unacknowledged \cup (IF lost THEN {<<x, a>>} ELSE {})
  BY DEF StatusTerminal, BaseInv, IndInv
<1>2. IndInv' /\ OffersInv' /\ TotalInv' /\ WindowInv'
  BY <1>1, IdleFrame
<1>3. /\ placed[a] \in SUBSET (Task \X Int) /\ IsFiniteSet(placed[a])
      /\ Twice(a) \in SUBSET (Task \X Int) /\ IsFiniteSet(Twice(a))
      /\ Capacity[a].cpu \in Nat /\ Capacity[a].ram \in Nat /\ Capacity[a].watts \in Nat
  BY <1>1, PlacedType DEF Usage
<1>4. Known(a)
  BY <1>1 DEF PlacedInv
<1>5. /\ UsedCPU(placed[a]) = UsedCPU(placed[a] \ {x}) + Def[x[1]].CPU
      /\ UsedRAM(placed[a]) = UsedRAM(placed[a] \ {x}) + Def[x[1]].RAM
      /\ UsedPower(placed[a], a) =
           UsedPower(placed[a] \ {x}, a) + WattsToConsider(x[1], [agent |-> a])
      /\ UsedCPU(placed[a] \ {x}) \in Nat /\ UsedRAM(placed[a] \ {x}) \in Nat
      /\ UsedPower(placed[a] \ {x}, a) \in Nat
      /\ Def[x[1]].CPU \in Nat /\ Def[x[1]].RAM \in Nat /\ Def[x[1]].Watts \in Nat
      /\ WattsToConsider(x[1], [agent |-> a]) \in Nat
  BY <1>3, UsedLess
<1>6. avail[a].unused.cpu \in Int /\ avail[a].unused.ram \in Int /\ avail[a].unused.watts \in Int
  BY <1>1, <1>4 DEF BaseTypes, Known, ResourceCount, Resources
<1>7. /\ v \in Resources /\ v.cpu = avail[a].unused.cpu + Def[x[1]].CPU
      /\ v.ram = avail[a].unused.ram + Def[x[1]].RAM
  BY <1>5, <1>6 DEF Plus, GetResourceRequirement, Resources
<1>8. avail' = [avail EXCEPT ![a].unused = v]
  BY <1>4 DEF StatusTerminal, OnTaskTerminal, Known
<1>9. /\ avail' \in [Agent -> ResourceCount \cup {nil}]
      /\ avail'[a].unused = v
      /\ \A b \in Agent : b # a => avail'[b] = avail[b]
      /\ \A b \in Agent : Known(b)' = Known(b)
  <2> HIDE DEF v
  <2> QED
    BY <1>1, <1>4, <1>7, <1>8, TrackerUpdate
<1> HIDE DEF v
<1>10. BaseTypes'
  BY <1>1, <1>9 DEF BaseTypes, flagVars
<1>11. \A b \in Agent : placed'[b] = IF b = a THEN placed[a] \ {x} ELSE placed[b]
  BY <1>1 DEF PlacedInv
<1>12. PlacedInv'
  <2>1. placed' \in [Agent -> SUBSET launched'] /\ x \in launched
    BY <1>1 DEF PlacedInv, vars
  <2>2. \A b \in Agent : IsFiniteSet(placed'[b])
    BY <1>1, <1>11, FS_RemoveElement DEF PlacedInv
  <2>3. IsFiniteSet(packed') /\ IsFiniteSet(redelivered')
    BY <1>1 DEF PlacedInv, vars
  <2>4. unacknowledged' \cup redelivered' \subseteq launched' \X Agent
    BY <1>1, <2>1 DEF PlacedInv, vars
  <2>5. <<x, a>> \notin redelivered
    BY <1>1 DEF PlacedInv
  <2>6. unacknowledged' \cap redelivered' = {}
    BY <1>1, <2>5 DEF PlacedInv
  <2>7. ASSUME NEW u \in unacknowledged' \cup redelivered'
        PROVE  u[1] \notin placed'[u[2]]
    <3>1. u = <<x, a>> \/ u \in unacknowledged \cup redelivered
      BY <1>1
    <3>2. u[2] \in Agent
      BY <2>4
    <3> QED
      BY <1>1, <1>11, <3>1, <3>2 DEF PlacedInv
  <2>8. ASSUME NEW b \in Agent, ~Known(b)'
        PROVE  placed'[b] = {} /\ \A u \in unacknowledged' \cup redelivered' : u[2] # b
    <3>1. b # a /\ ~Known(b)
      BY <1>4, <1>9, <2>8
    <3>2. placed[b] = {} /\ \A u \in unacknowledged \cup redelivered : u[2] # b
      BY <1>1, <3>1 DEF PlacedInv
    <3> QED
      BY <1>1, <1>11, <3>1, <3>2
  <2> QED
    BY <2>1, <2>2, <2>3, <2>4, <2>6, <2>7, <2>8 DEF PlacedInv
<1>13. WithinCapacity'
  <2> SUFFICES ASSUME NEW b \in Agent
               PROVE  /\ UsedCPU(placed'[b]) <= Capacity[b].cpu
                      /\ UsedRAM(placed'[b]) <= Capacity[b].ram
                      /\ wattsAsAResource => UsedPower(placed'[b], b) <= Capacity[b].watts
    BY DEF WithinCapacity
  <2>1. CASE b = a
    <3>1. /\ UsedCPU(placed[a]) <= Capacity[a].cpu /\ UsedRAM(placed[a]) <= Capacity[a].ram
          /\ wattsAsAResource => UsedPower(placed[a], a) <= Capacity[a].watts
      BY <1>1 DEF WithinCapacity
    <3>2. placed'[b] = placed[a] \ {x}
      BY <1>11, <2>1
    <3> QED
      BY <1>3, <1>5, <2>1, <3>1, <3>2
  <2>2. CASE b # a
    BY <1>1, <1>11, <2>2 DEF WithinCapacity
  <2> QED
    BY <2>1, <2>2
<1>14. AgreeInv'
  <2>1. \A b : Twice(b)' = Twice(b)
    BY <1>1 DEF Twice
  <2> SUFFICES ASSUME NEW b \in Agent, Known(b)'
               PROVE  /\ avail'[b].unused.cpu =
                           Capacity[b].cpu - UsedCPU(placed'[b]) + UsedCPU(Twice(b))
                      /\ avail'[b].unused.ram =
                           Capacity[b].ram - UsedRAM(placed'[b]) + UsedRAM(Twice(b))
    BY <2>1 DEF AgreeInv
  <2>2. CASE b = a
    <3>1. /\ avail[a].unused.cpu =
               Capacity[a].cpu - UsedCPU(placed[a]) + UsedCPU(Twice(a))
          /\ avail[a].unused.ram =
               Capacity[a].ram - UsedRAM(placed[a]) + UsedRAM(Twice(a))
      BY <1>1, <1>4 DEF AgreeInv
    <3>2. UsedCPU(Twice(a)) \in Nat /\ UsedRAM(Twice(a)) \in Nat
      <4>1. {} \in SUBSET (Task \X Int) /\ IsFiniteSet({}) /\ Twice(a) \cap {} = {}
        BY FS_EmptySet
      <4> QED
        BY <1>3, <4>1, UsedUnion
    <3>3. placed'[b] = placed[a] \ {x} /\ avail'[b].unused = v
      BY <1>9, <1>11, <2>2
    <3> QED
      BY <1>3, <1>5, <1>6, <1>7, <2>2, <3>1, <3>2, <3>3
  <2>3. CASE b # a
    BY <1>1, <1>9, <1>11, <2>3 DEF AgreeInv
  <2> QED
    BY <2>2, <2>3
<1> QED
  BY <1>2, <1>10, <1>12, <1>13, <1>14 DEF BaseInv

(* The update again: the tracker gives back once more.                     *)
LEMMA RedeliveredStep ==
    ASSUME BaseInv, NEW w \in unacknowledged, StatusRedelivered(w[1], w[2])
    PROVE  BaseInv'
<1>0. PICK x \in launched, a \in Agent : w = <<x, a>>
  BY DEF BaseInv, PlacedInv
<1> DEFINE avail == perHostResourceAvailability
           req == GetResourceRequirement(x)
           v == Plus(avail[a].unused, req)
<1>1. /\ TypeOK /\ PlacedInv /\ AgreeInv /\ WithinCapacity /\ BaseTypes
      /\ pc = "idle" /\ UNCHANGED <<vars, placed, flagVars>>
      /\ unacknowledged' = unacknowledged \ {<<x, a>>}
      /\ redelivered' = redelivered \cup {<<x, a>>}
      /\ OnTaskTerminal(x, a)
  BY <1>0 DEF StatusRedelivered, BaseInv, IndInv
<1>2. IndInv' /\ OffersInv' /\ TotalInv' /\ WindowInv'
  BY <1>1, IdleFrame
<1>3. /\ Twice(a) \in SUBSET (Task \X Int) /\ IsFiniteSet(Twice(a))
      /\ placed[a] \in SUBSET (Task \X Int) /\ IsFiniteSet(placed[a])
      /\ Capacity[a].cpu \in Nat /\ Capacity[a].ram \in Nat
      /\ x \in Task \X Int
  BY <1>1, PlacedType DEF Usage, TypeOK
<1>4. Known(a)
  BY <1>0, <1>1 DEF PlacedInv
<1>5. Twice(a)' = Twice(a) \cup {x} /\ \A b \in Agent : b # a => Twice(b)' = Twice(b)
  <2>1. ASSUME NEW b \in Agent
        PROVE  Twice(b)' = Twice(b) \cup (IF b = a THEN {x} ELSE {})
    <3>1. \A y : y \in Twice(b)' <=> \E u \in redelivered' : u[2] = b /\ y = u[1]
      BY DEF Twice
    <3>2. \A y : y \in Twice(b) <=> \E u \in redelivered : u[2] = b /\ y = u[1]
      BY DEF Twice
    <3>3. redelivered' = redelivered \cup {<<x, a>>}
      BY <1>1
    <3>4. <<x, a>>[1] = x /\ <<x, a>>[2] = a
      OBVIOUS
    <3>5. ASSUME NEW y
          PROVE  y \in Twice(b)' <=> y \in Twice(b) \/ (b = a /\ y = x)
      <4>1. ASSUME y \in Twice(b)' PROVE y \in Twice(b) \/ (b = a /\ y = x)
        <5>1. PICK u \in redelivered' : u[2] = b /\ y = u[1]
          BY <3>1, <4>1
        <5>2. u \in redelivered \/ u = <<x, a>>
          BY <3>3
        <5> QED
          BY <3>2, <3>4, <5>1, <5>2
      <4>2. ASSUME y \in Twice(b) PROVE y \in Twice(b)'
        <5>1. PICK u \in redelivered : u[2] = b /\ y = u[1]
          BY <3>2, <4>2
        <5>2. u \in redelivered'
          BY <3>3
        <5> QED
          BY <3>1, <5>1, <5>2
      <4>3. ASSUME b = a, y = x PROVE y \in Twice(b)'
        <5>1. <<x, a>> \in redelivered'
          BY <3>3
        <5> QED
          BY <3>1, <3>4, <4>3, <5>1
      <4> QED
        BY <4>1, <4>2, <4>3
    <3>6. CASE b = a
      BY <3>5, <3>6
    <3>7. CASE b # a
      BY <3>5, <3>7
    <3> QED
      BY <3>6, <3>7
  <2> QED
    BY <2>1
<1>6. x \notin Twice(a)
  <2>1. <<x, a>> \notin redelivered
    BY <1>0, <1>1 DEF PlacedInv
  <2>2. \A u \in redelivered : u = <<u[1], u[2]>>
    BY <1>1 DEF PlacedInv
  <2> QED
    BY <2>1, <2>2 DEF Twice
<1>7. /\ UsedCPU(Twice(a)') = UsedCPU(Twice(a)) + Def[x[1]].CPU
      /\ UsedRAM(Twice(a)') = UsedRAM(Twice(a)) + Def[x[1]].RAM
      /\ UsedCPU(Twice(a)) \in Nat /\ UsedRAM(Twice(a)) \in Nat
      /\ Def[x[1]].CPU \in Nat /\ Def[x[1]].RAM \in Nat /\ Def[x[1]].Watts \in Nat
  <2>1. /\ Twice(a) \cup {x} \in SUBSET (Task \X Int) /\ IsFiniteSet(Twice(a) \cup {x})
        /\ (Twice(a) \cup {x}) \ {x} = Twice(a)
    BY <1>3, <1>6, FS_AddElement
  <2> DEFINE ids == Twice(a) \cup {x}
  <2>2. /\ UsedCPU(ids) = UsedCPU(ids \ {x}) + Def[x[1]].CPU
        /\ UsedRAM(ids) = UsedRAM(ids \ {x}) + Def[x[1]].RAM
        /\ UsedCPU(ids \ {x}) \in Nat /\ UsedRAM(ids \ {x}) \in Nat
        /\ Def[x[1]].CPU \in Nat /\ Def[x[1]].RAM \in Nat /\ Def[x[1]].Watts \in Nat
    <3>1. x \in ids /\ ids \in SUBSET (Task \X Int) /\ IsFiniteSet(ids)
      BY <2>1
    <3> HIDE DEF ids
    <3> QED
      BY <3>1, UsedLess
  <2> QED
    BY <1>5, <2>1, <2>2
<1>8. avail[a].unused.cpu \in Int /\ avail[a].unused.ram \in Int /\ avail[a].unused.watts \in Int
  BY <1>1, <1>4 DEF BaseTypes, Known, ResourceCount, Resources
<1>9. /\ v \in Resources /\ v.cpu = avail[a].unused.cpu + Def[x[1]].CPU
      /\ v.ram = avail[a].unused.ram + Def[x[1]].RAM
  BY <1>7, <1>8 DEF Plus, GetResourceRequirement, Resources
<1>10. avail' = [avail EXCEPT ![a].unused = v]
  BY <1>1, <1>4 DEF OnTaskTerminal, Known
<1>11. /\ avail' \in [Agent -> ResourceCount \cup {nil}]
       /\ avail'[a].unused = v
       /\ \A b \in Agent : b # a => avail'[b] = avail[b]
       /\ \A b \in Agent : Known(b)' = Known(b)
  <2> HIDE DEF v
  <2> QED
    BY <1>1, <1>4, <1>9, <1>10, TrackerUpdate
<1> HIDE DEF v
<1>12. BaseTypes'
  BY <1>1, <1>11 DEF BaseTypes, flagVars
<1>13. PlacedInv'
  <2>1. IsFiniteSet(redelivered') /\ IsFiniteSet(packed')
    BY <1>1, FS_AddElement DEF PlacedInv, vars
  <2>2. /\ unacknowledged' \cup redelivered' = unacknowledged \cup redelivered
        /\ unacknowledged' \cap redelivered' = {}
    BY <1>0, <1>1 DEF PlacedInv
  <2>3. launched' = launched
    BY <1>1 DEF vars
  <2> QED
    BY <1>1, <1>11, <2>1, <2>2, <2>3 DEF PlacedInv
<1>14. WithinCapacity'
  BY <1>1 DEF WithinCapacity
<1>15. AgreeInv'
  <2> SUFFICES ASSUME NEW b \in Agent, Known(b)'
               PROVE  /\ avail'[b].unused.cpu =
                           Capacity[b].cpu - UsedCPU(placed[b]) + UsedCPU(Twice(b)')
                      /\ avail'[b].unused.ram =
                           Capacity[b].ram - UsedRAM(placed[b]) + UsedRAM(Twice(b)')
    BY <1>1 DEF AgreeInv
  <2>1. CASE b = a
    <3>1. /\ avail[a].unused.cpu =
               Capacity[a].cpu - UsedCPU(placed[a]) + UsedCPU(Twice(a))
          /\ avail[a].unused.ram =
               Capacity[a].ram - UsedRAM(placed[a]) + UsedRAM(Twice(a))
      BY <1>1, <1>4 DEF AgreeInv
    <3>2. UsedCPU(placed[a]) \in Nat /\ UsedRAM(placed[a]) \in Nat
      <4>1. {} \in SUBSET (Task \X Int) /\ IsFiniteSet({}) /\ placed[a] \cap {} = {}
        BY FS_EmptySet
      <4> QED
        BY <1>3, <4>1, UsedUnion
    <3>3. avail'[b].unused = v
      BY <1>11, <2>1
    <3> QED
      BY <1>3, <1>7, <1>8, <1>9, <2>1, <3>1, <3>2, <3>3
  <2>2. CASE b # a
    BY <1>1, <1>5, <1>11, <2>2 DEF AgreeInv
  <2> QED
    BY <2>1, <2>2
<1> QED
  BY <1>2, <1>12, <1>13, <1>14, <1>15 DEF BaseInv

------------------------------------------------------------------------------
(* The rest of the offers, once the first is answered.                     *)
LEMMA RestOfOffers ==
    ASSUME TypeOK, offers # <<>>, offers' = Tail(offers)
    PROVE  /\ Len(offers) \in Nat /\ Len(offers') = Len(offers) - 1
           /\ offer = offers[1] /\ 1 \in 1 .. Len(offers)
           /\ \A j \in 1 .. Len(offers') : offers'[j] = offers[j + 1] /\ j + 1 \in 1 .. Len(offers)
BY DEF TypeOK, offer

(* What Mesos has left is as before while the same instances are placed.   *)
LEMMA FreeFrame ==
    ASSUME NEW a, placed'[a] = placed[a]
    PROVE  FreeOffer(a)' = FreeOffer(a)
BY DEF FreeOffer, Free, UsedWatts

(* The step launches the instances ids on the agent that made the current  *)
(* offer: they fit the offer, and the tracker is told of them.             *)
Launches(ids) ==
    /\ offers # <<>> /\ ids # {} /\ IsFiniteSet(ids) /\ ids \cap launched = {}
    /\ launched' = launched \cup ids
    /\ UsedCPU(ids) <= offer.cpus /\ UsedRAM(ids) <= offer.mem
    /\ wattsAsAResource => UsedPower(ids, offer.agent) <= offer.watts
    /\ offers' = Tail(offers) /\ pc' = "offer" /\ IsFiniteSet(packed')
    /\ UNCHANGED <<mesosVars, flagVars>>
    /\ OnTaskActive(ids, offer.agent)
    /\ placed' = [placed EXCEPT ![offer.agent] = placed[offer.agent] \cup ids]

(* Instances are launched on the agent that made the current offer.        *)
LEMMA LaunchOn ==
    ASSUME BaseInv, NEW ids \in SUBSET (Task \X Int), Launches(ids)
    PROVE  BaseTypes' /\ PlacedInv' /\ WithinCapacity' /\ OffersInv' /\ TotalInv' /\ AgreeInv'
<1> DEFINE avail == perHostResourceAvailability
<1>1. /\ TypeOK /\ PlacedInv /\ AgreeInv /\ WithinCapacity /\ BaseTypes /\ OffersInv
      /\ UNCHANGED <<unacknowledged, redelivered>>
  BY DEF BaseInv, IndInv, mesosVars, Launches
<1>0. /\ offers # <<>> /\ IsFiniteSet(ids) /\ ids \cap launched = {}
      /\ launched' = launched \cup ids /\ offers' = Tail(offers) /\ pc' = "offer"
      /\ IsFiniteSet(packed') /\ UNCHANGED flagVars
      /\ placed' = [placed EXCEPT ![offer.agent] = placed[offer.agent] \cup ids]
  BY DEF Launches
<1>2. /\ Len(offers) \in Nat /\ Len(offers') = Len(offers) - 1
      /\ offer = offers[1] /\ 1 \in 1 .. Len(offers)
      /\ \A j \in 1 .. Len(offers') : offers'[j] = offers[j + 1] /\ j + 1 \in 1 .. Len(offers)
  BY <1>0, <1>1, RestOfOffers
<1>3. PICK a \in Agent : a = offer.agent
  BY <1>1, <1>2 DEF OffersInv
<1>4. Known(a) /\ offer = FreeOffer(a)
  BY <1>1, <1>2, <1>3 DEF OffersInv
<1>5. /\ placed[a] \in SUBSET (Task \X Int) /\ IsFiniteSet(placed[a])
      /\ Twice(a) \in SUBSET (Task \X Int) /\ IsFiniteSet(Twice(a))
      /\ Capacity[a].cpu \in Nat /\ Capacity[a].ram \in Nat /\ Capacity[a].watts \in Nat
  BY <1>1, PlacedType DEF Usage
<1>6. placed[a] \cap ids = {}
  BY <1>0, <1>1 DEF PlacedInv
<1>7. /\ UsedCPU(placed[a]) \in Nat /\ UsedRAM(placed[a]) \in Nat
      /\ UsedPower(placed[a], a) \in Nat
      /\ UsedCPU(ids) \in Nat /\ UsedRAM(ids) \in Nat /\ UsedPower(ids, a) \in Nat
      /\ UsedCPU(placed[a] \cup ids) = UsedCPU(placed[a]) + UsedCPU(ids)
      /\ UsedRAM(placed[a] \cup ids) = UsedRAM(placed[a]) + UsedRAM(ids)
      /\ UsedPower(placed[a] \cup ids, a) = UsedPower(placed[a], a) + UsedPower(ids, a)
  <2>1. PICK old \in SUBSET (Task \X Int) : old = placed[a]
    BY <1>5
  <2>2. IsFiniteSet(old) /\ IsFiniteSet(ids) /\ old \cap ids = {}
    BY <1>0, <1>5, <1>6, <2>1
  <2>3. /\ UsedCPU(old) \in Nat /\ UsedRAM(old) \in Nat /\ UsedPower(old, a) \in Nat
        /\ UsedCPU(ids) \in Nat /\ UsedRAM(ids) \in Nat /\ UsedPower(ids, a) \in Nat
        /\ UsedCPU(old \cup ids) = UsedCPU(old) + UsedCPU(ids)
        /\ UsedRAM(old \cup ids) = UsedRAM(old) + UsedRAM(ids)
        /\ UsedPower(old \cup ids, a) = UsedPower(old, a) + UsedPower(ids, a)
    BY <2>2, UsedUnion
  <2> QED
    BY <2>1, <2>3
<1>8. /\ offer.cpus = Capacity[a].cpu - UsedCPU(placed[a])
      /\ offer.mem = Capacity[a].ram - UsedRAM(placed[a])
      /\ wattsAsAResource => offer.watts = Capacity[a].watts - UsedPower(placed[a], a)
  <2>1. /\ Free(a).cpu = Capacity[a].cpu - UsedCPU(placed[a])
        /\ Free(a).ram = Capacity[a].ram - UsedRAM(placed[a])
        /\ Free(a).watts = Capacity[a].watts -
             (IF wattsAsAResource THEN UsedPower(placed[a], a) ELSE 0)
        /\ FreeOffer(a) = [agent |-> a, cpus |-> Free(a).cpu, mem |-> Free(a).ram,
                           watts |-> Free(a).watts]
    BY <1>5, FreeIs
  <2> QED
    BY <1>4, <2>1
<1>9. \A b \in Agent : placed'[b] = IF b = a THEN placed[a] \cup ids ELSE placed[b]
  BY <1>0, <1>1, <1>3 DEF PlacedInv
<1> DEFINE v == Minus(avail[a].unused, SumOf(ids))
<1>10. avail[a].unused.cpu \in Int /\ avail[a].unused.ram \in Int /\ avail[a].unused.watts \in Int
  BY <1>1, <1>4 DEF BaseTypes, Known, ResourceCount, Resources
<1>11. /\ v \in Resources /\ v.cpu = avail[a].unused.cpu - UsedCPU(ids)
       /\ v.ram = avail[a].unused.ram - UsedRAM(ids)
  <2>1. /\ SumOf(ids).cpu = UsedCPU(ids) /\ SumOf(ids).ram = UsedRAM(ids)
        /\ SumOf(ids).watts \in Int
    BY <1>0, SumOfIs
  <2>2. UsedCPU(ids) \in Nat /\ UsedRAM(ids) \in Nat
    BY <1>7
  <2> QED
    BY <1>10, <2>1, <2>2 DEF Minus, Resources
<1>12. avail' = [avail EXCEPT ![a].unused = v]
  BY <1>3, <1>4 DEF OnTaskActive, Known, Launches
<1>13. /\ avail' \in [Agent -> ResourceCount \cup {nil}]
       /\ avail'[a].unused = v
       /\ \A b \in Agent : b # a => avail'[b] = avail[b]
       /\ \A b \in Agent : Known(b)' = Known(b)
  <2> HIDE DEF v
  <2> QED
    BY <1>1, <1>4, <1>11, <1>12, TrackerUpdate
<1> HIDE DEF v
<1>14. BaseTypes'
  BY <1>0, <1>1, <1>13 DEF BaseTypes, flagVars
<1>15. PlacedInv'
  <2>1. placed' \in [Agent -> SUBSET launched']
    BY <1>0, <1>1, <1>3 DEF PlacedInv
  <2>2. \A b \in Agent : IsFiniteSet(placed'[b])
    BY <1>0, <1>1, <1>5, <1>9, FS_Union DEF PlacedInv
  <2>3. unacknowledged' \cup redelivered' \subseteq launched' \X Agent
    BY <1>0, <1>1 DEF PlacedInv
  <2>4. ASSUME NEW u \in unacknowledged \cup redelivered
        PROVE  u[1] \notin placed'[u[2]]
    <3>1. u[1] \in launched /\ u[2] \in Agent /\ u[1] \notin placed[u[2]]
      BY <1>0, <1>1 DEF PlacedInv
    <3> QED
      BY <1>0, <1>9, <3>1
  <2>5. ASSUME NEW b \in Agent, ~Known(b)'
        PROVE  placed'[b] = {} /\ \A u \in unacknowledged \cup redelivered : u[2] # b
    <3>1. b # a /\ ~Known(b)
      BY <1>4, <1>13, <2>5
    <3> QED
      BY <1>0, <1>1, <1>9, <3>1 DEF PlacedInv
  <2> QED
    BY <1>0, <1>1, <2>1, <2>2, <2>3, <2>4, <2>5 DEF PlacedInv
<1>16. WithinCapacity'
  <2> SUFFICES ASSUME NEW b \in Agent
               PROVE  /\ UsedCPU(placed'[b]) <= Capacity[b].cpu
                      /\ UsedRAM(placed'[b]) <= Capacity[b].ram
                      /\ wattsAsAResource => UsedPower(placed'[b], b) <= Capacity[b].watts
    BY DEF WithinCapacity
  <2>1. CASE b = a
    <3>1. placed'[b] = placed[a] \cup ids
      BY <1>9, <2>1
    <3>2. /\ UsedCPU(ids) <= Capacity[a].cpu - UsedCPU(placed[a])
          /\ UsedRAM(ids) <= Capacity[a].ram - UsedRAM(placed[a])
          /\ wattsAsAResource => UsedPower(ids, a) <= Capacity[a].watts - UsedPower(placed[a], a)
      BY <1>3, <1>8 DEF Launches
    <3>3. /\ UsedCPU(placed'[b]) = UsedCPU(placed[a]) + UsedCPU(ids)
          /\ UsedRAM(placed'[b]) = UsedRAM(placed[a]) + UsedRAM(ids)
          /\ UsedPower(placed'[b], b) = UsedPower(placed[a], a) + UsedPower(ids, a)
      BY <1>7, <2>1, <3>1
    <3>4. /\ UsedCPU(placed[a]) \in Nat /\ UsedRAM(placed[a]) \in Nat
          /\ UsedPower(placed[a], a) \in Nat
          /\ UsedCPU(ids) \in Nat /\ UsedRAM(ids) \in Nat /\ UsedPower(ids, a) \in Nat
      BY <1>7
    <3>5. ASSUME NEW c \in Int, NEW p \in Int, NEW u \in Int, u <= c - p
          PROVE  p + u <= c
      BY <3>5
    <3>6. UsedCPU(placed'[b]) <= Capacity[b].cpu
      BY <1>5, <2>1, <3>2, <3>3, <3>4, <3>5
    <3>7. UsedRAM(placed'[b]) <= Capacity[b].ram
      BY <1>5, <2>1, <3>2, <3>3, <3>4, <3>5
    <3>8. wattsAsAResource => UsedPower(placed'[b], b) <= Capacity[b].watts
      BY <1>5, <2>1, <3>2, <3>3, <3>4, <3>5
    <3> QED
      BY <3>6, <3>7, <3>8
  <2>2. CASE b # a
    BY <1>1, <1>9, <2>2 DEF WithinCapacity
  <2> QED
    BY <2>1, <2>2
<1>17. AgreeInv'
  <2>1. \A b : Twice(b)' = Twice(b)
    BY <1>1 DEF Twice
  <2> SUFFICES ASSUME NEW b \in Agent, Known(b)'
               PROVE  /\ avail'[b].unused.cpu =
                           Capacity[b].cpu - UsedCPU(placed'[b]) + UsedCPU(Twice(b))
                      /\ avail'[b].unused.ram =
                           Capacity[b].ram - UsedRAM(placed'[b]) + UsedRAM(Twice(b))
    BY <2>1 DEF AgreeInv
  <2>2. CASE b = a
    <3>1. /\ avail[a].unused.cpu =
               Capacity[a].cpu - UsedCPU(placed[a]) + UsedCPU(Twice(a))
          /\ avail[a].unused.ram =
               Capacity[a].ram - UsedRAM(placed[a]) + UsedRAM(Twice(a))
      BY <1>1, <1>4 DEF AgreeInv
    <3>2. UsedCPU(Twice(a)) \in Nat /\ UsedRAM(Twice(a)) \in Nat
      <4>1. {} \in SUBSET (Task \X Int) /\ IsFiniteSet({}) /\ Twice(a) \cap {} = {}
        BY FS_EmptySet
      <4> QED
        BY <1>5, <4>1, UsedUnion
    <3>3. placed'[b] = placed[a] \cup ids /\ avail'[b].unused = v
      BY <1>9, <1>13, <2>2
    <3>4. /\ UsedCPU(placed'[b]) = UsedCPU(placed[a]) + UsedCPU(ids)
          /\ UsedRAM(placed'[b]) = UsedRAM(placed[a]) + UsedRAM(ids)
          /\ UsedCPU(placed[a]) \in Nat /\ UsedRAM(placed[a]) \in Nat
          /\ UsedCPU(ids) \in Nat /\ UsedRAM(ids) \in Nat
      BY <1>7, <3>3
    <3>5. /\ avail'[b].unused.cpu = avail[a].unused.cpu - UsedCPU(ids)
          /\ avail'[b].unused.ram = avail[a].unused.ram - UsedRAM(ids)
      BY <1>11, <3>3
    <3>6. ASSUME NEW c \in Int, NEW p \in Int, NEW u \in Int, NEW w \in Int
          PROVE  (c - p + w) - u = c - (p + u) + w
      OBVIOUS
    <3>7. avail'[b].unused.cpu = Capacity[b].cpu - UsedCPU(placed'[b]) + UsedCPU(Twice(b))
      BY <1>5, <2>2, <3>1, <3>2, <3>4, <3>5, <3>6
    <3>8. avail'[b].unused.ram = Capacity[b].ram - UsedRAM(placed'[b]) + UsedRAM(Twice(b))
      BY <1>5, <2>2, <3>1, <3>2, <3>4, <3>5, <3>6
    <3> QED
      BY <3>7, <3>8
  <2>3. CASE b # a
    BY <1>1, <1>9, <1>13, <2>3 DEF AgreeInv
  <2> QED
    BY <2>2, <2>3
<1>18. OffersInv'
  <2>1. \A j \in 1 .. Len(offers') : offers'[j].agent \in Agent
    BY <1>1, <1>2 DEF OffersInv
  <2>3. ASSUME NEW j \in 1 .. Len(offers'), NEW b \in Agent, offers'[j].agent = b
        PROVE  Known(b)' /\ offers'[j] = FreeOffer(b)'
    <3>1. Known(b) /\ offers[j + 1] = FreeOffer(b) /\ offers[j + 1].agent = b
      BY <1>1, <1>2, <2>3 DEF OffersInv
    <3>2. j + 1 # 1
      BY <1>2
    <3>3. b # a
      BY <1>1, <1>2, <1>3, <3>1, <3>2 DEF OffersInv
    <3>4. FreeOffer(b)' = FreeOffer(b)
      BY <1>9, <3>3, FreeFrame
    <3> QED
      BY <1>2, <1>13, <3>1, <3>4
  <2>2. ASSUME NEW j \in 1 .. Len(offers'), NEW k \in 1 .. Len(offers'),
               offers'[j].agent = offers'[k].agent
        PROVE  j = k
    <3>1. j + 1 = k + 1
      BY <1>1, <1>2, <2>2 DEF OffersInv
    <3> QED
      BY <1>2, <3>1
  <2> QED
    BY <1>0, <2>1, <2>2, <2>3 DEF OffersInv
<1>19. TotalInv'
  BY <1>0 DEF TotalInv, InScan
<1> QED
  BY <1>14, <1>15, <1>16, <1>17, <1>18, <1>19

(* CheckFit adds to the totals what the instance it packs needs.           *)
LEMMA PackTotal ==
    ASSUME BaseInv, InScan, NEW k \in 1 .. Len(tasks), Pack(k), pc' = "scan"
    PROVE  TotalInv' /\ IsFiniteSet(packed') /\ UNCHANGED <<offers, launched>>
<1>1. /\ TypeOK /\ QueueHoldsPending /\ EachInstanceOnce /\ offers # <<>>
      /\ OffersInv /\ TotalInv /\ PlacedInv
  BY DEF BaseInv, IndInv, ScanInv
<1>2. PICK t \in Task : t = tasks[k]
  BY <1>1 DEF TypeOK
<1>3. PICK x \in Task \X Int : x = newTask(tasks[k]) /\ x[1] = t /\ x \notin Scheduled
  <2>1. newTask(tasks[k]) \in Task \X Int /\ newTask(tasks[k]) \notin Scheduled
    BY <1>1, DequeueScheduled DEF Pack
  <2>2. newTask(tasks[k])[1] = t
    BY <1>2 DEF newTask
  <2> QED
    BY <2>1, <2>2
<1>4. PICK a \in Agent : a = offer.agent
  <2>1. offer = offers[1] /\ 1 \in 1 .. Len(offers)
    BY <1>1 DEF offer, TypeOK
  <2> QED
    BY <1>1, <2>1 DEF OffersInv
<1>5. /\ packed' = packed \cup {x} /\ total' = Using(total, t, offer)
      /\ UNCHANGED <<offers, launched>>
  BY <1>2, <1>3 DEF Pack
<1>6. /\ packed \in SUBSET (Task \X Int) /\ IsFiniteSet(packed) /\ packed \cap {x} = {}
      /\ IsFiniteSet({x})
  <2>1. IsFiniteSet({x})
    BY FS_Singleton
  <2>2. packed \in SUBSET (Task \X Int) /\ IsFiniteSet(packed) /\ packed \subseteq Scheduled
    BY <1>1 DEF TypeOK, EachInstanceOnce, PlacedInv
  <2> QED
    BY <1>3, <2>1, <2>2
<1>7. /\ UsedCPU(packed \cup {x}) = UsedCPU(packed) + UsedCPU({x})
      /\ UsedRAM(packed \cup {x}) = UsedRAM(packed) + UsedRAM({x})
      /\ UsedPower(packed \cup {x}, a) = UsedPower(packed, a) + UsedPower({x}, a)
  <2>1. PICK old \in SUBSET (Task \X Int), new \in SUBSET (Task \X Int) :
          old = packed /\ new = {x}
    BY <1>6
  <2>2. IsFiniteSet(old) /\ IsFiniteSet(new) /\ old \cap new = {}
    BY <1>6, <2>1
  <2>3. /\ UsedCPU(old \cup new) = UsedCPU(old) + UsedCPU(new)
        /\ UsedRAM(old \cup new) = UsedRAM(old) + UsedRAM(new)
        /\ UsedPower(old \cup new, a) = UsedPower(old, a) + UsedPower(new, a)
    BY <2>2, UsedUnion
  <2> QED
    BY <2>1, <2>3
<1>8. /\ UsedCPU({x}) = Def[t].CPU /\ UsedRAM({x}) = Def[t].RAM
      /\ UsedPower({x}, a) = WattsToConsider(t, [agent |-> a])
  BY <1>3, UsedByOne
<1>9. WattsToConsider(t, offer) = WattsToConsider(t, [agent |-> a])
  BY <1>4 DEF WattsToConsider
<1>10. /\ total'.cpu = total.cpu + Def[t].CPU /\ total'.ram = total.ram + Def[t].RAM
       /\ total'.watts = total.watts + WattsToConsider(t, offer)
  BY <1>5 DEF Using
<1>11. offer'.agent = a
  BY <1>4, <1>5 DEF offer
<1>12. /\ total.cpu = UsedCPU(packed) /\ total.ram = UsedRAM(packed)
       /\ total.watts = UsedPower(packed, a)
  BY <1>1, <1>4 DEF TotalInv
<1>13. /\ total'.cpu = UsedCPU(packed') /\ total'.ram = UsedRAM(packed')
       /\ total'.watts = UsedPower(packed', a)
  BY <1>5, <1>7, <1>8, <1>9, <1>10, <1>12
<1>14. UsedPower(packed', a) = UsedPower(packed', offer'.agent)
  BY <1>11
<1>15. IsFiniteSet(packed')
  BY <1>5, <1>6, FS_AddElement
<1> QED
  BY <1>5, <1>13, <1>14, <1>15 DEF TotalInv

(* The offers that are left after one has been dealt with.                 *)
LEMMA OffersLeft ==
    ASSUME TypeOK, OffersInv, offers # <<>>, offers' = Tail(offers),
           pc' = "idle" => offers' = <<>>,
           \A a \in Agent : Known(a)' = Known(a) /\ FreeOffer(a)' = FreeOffer(a)
    PROVE  OffersInv'
<1>1. /\ Len(offers) \in Nat /\ Len(offers') = Len(offers) - 1
      /\ \A j \in 1 .. Len(offers') : offers'[j] = offers[j + 1] /\ j + 1 \in 1 .. Len(offers)
  BY RestOfOffers
<1>2. \A j \in 1 .. Len(offers') : offers'[j].agent \in Agent
  BY <1>1 DEF OffersInv
<1>3. ASSUME NEW j \in 1 .. Len(offers'), NEW a \in Agent, offers'[j].agent = a
      PROVE  Known(a)' /\ offers'[j] = FreeOffer(a)'
  <2>1. Known(a) /\ offers[j + 1] = FreeOffer(a)
    BY <1>1, <1>3 DEF OffersInv
  <2> QED
    BY <1>1, <2>1
<1>4. ASSUME NEW j \in 1 .. Len(offers'), NEW k \in 1 .. Len(offers'),
             offers'[j].agent = offers'[k].agent
      PROVE  j = k
  <2>1. j + 1 = k + 1
    BY <1>1, <1>4 DEF OffersInv
  <2> QED
    BY <1>1, <2>1
<1> QED
  BY <1>2, <1>3, <1>4 DEF OffersInv

(* A step that launches nothing.                                           *)
LEMMA QuietStep ==
    ASSUME BaseInv, UNCHANGED <<trackerVars, mesosVars, flagVars, launched>>,
           offers' = offers \/ (offers # <<>> /\ offers' = Tail(offers)),
           pc' = "idle" => offers' = <<>>, IsFiniteSet(packed')
    PROVE  BaseTypes' /\ PlacedInv' /\ WithinCapacity' /\ OffersInv' /\ AgreeInv'
<1>1. /\ TypeOK /\ PlacedInv /\ AgreeInv /\ WithinCapacity /\ BaseTypes /\ OffersInv
      /\ UNCHANGED <<perHostResourceAvailability, placed, unacknowledged, redelivered,
                     schedPolSwitchCriteria, toFixSchedWindow, launched>>
  BY DEF BaseInv, IndInv, trackerVars, mesosVars, flagVars
<1>2. \A a : Known(a)' = Known(a) /\ Twice(a)' = Twice(a) /\ FreeOffer(a)' = FreeOffer(a)
  BY <1>1, FreeFrame DEF Known, Twice
<1>3. BaseTypes' /\ WithinCapacity' /\ AgreeInv'
  BY <1>1, <1>2 DEF BaseTypes, WithinCapacity, AgreeInv
<1>4. PlacedInv'
  BY <1>1, <1>2 DEF PlacedInv
<1>5. OffersInv'
  <2>1. CASE offers' = offers
    BY <1>1, <1>2, <2>1 DEF OffersInv
  <2>2. CASE offers # <<>> /\ offers' = Tail(offers)
    BY <1>1, <1>2, <2>2, OffersLeft
  <2> QED
    BY <2>1, <2>2
<1> QED
  BY <1>3, <1>4, <1>5

(* Only the deployed policy counts, and only while its window lasts.       *)
LEMMA ConsumeWindow ==
    ASSUME IndInv, WindowInv, Consume, UNCHANGED flagVars
    PROVE  WindowInv'
<1>1. /\ pc' # "consume"
      /\ UNCHANGED <<curSchedPolicy, schedWindowSize, numTasksInSchedWindow, toFixSchedWindow>>
  BY DEF Consume, ConsumeOffers, Return, DeclineNoPendingTasks, BeginOffer, FirstPc,
     FirstFitSkip, FirstFitTake, GreedyFatal, GreedySkip, GreedyPack, MaxFatal, MaxSkip,
     MaxPack, MaxNone, ToMins, MaxMinFatal, MaxMinMismatch, MaxMinNoFit, MaxMinPack,
     Packing, MaxMinScans, Scanning, Fatal, SkipUnchanged, Pack, LaunchPacked,
     DeclineInsufficientResources, ScanOver, policyVars, flagVars
<1>2. \/ numTasksScheduled' = numTasksScheduled
      \/ /\ ~WindowFull
         /\ numTasksScheduled' = [numTasksScheduled EXCEPT ![curSchedPolicy] = @ + 1]
  BY DEF Consume, ConsumeOffers, Return, DeclineNoPendingTasks, BeginOffer,
     FirstFitSkip, FirstFitTake, GreedyFatal, GreedySkip, GreedyPack, MinsFits, MaxFatal,
     MaxSkip, MaxPack, MaxNone, MaxMinFatal, MaxMinMismatch, MaxMinNoFit, MaxMinPack,
     MaxMinScans, Fatal, SkipUnchanged, Pack, Dequeue, LaunchPacked,
     DeclineInsufficientResources
<1>3. curSchedPolicy \in Policy /\ numTasksScheduled \in [Policy -> Nat] /\ schedWindowSize \in Nat
  BY DEF IndInv, TypeOK
<1>4. IdlePoliciesReset'
  BY <1>1, <1>2, <1>3 DEF IdlePoliciesReset, WindowInv
<1>5. WindowRespected'
  <2>1. CASE numTasksScheduled' = numTasksScheduled
    BY <1>1, <2>1 DEF WindowRespected, WindowInv
  <2>2. CASE /\ ~WindowFull
             /\ numTasksScheduled' = [numTasksScheduled EXCEPT ![curSchedPolicy] = @ + 1]
    <3>1. numTasksScheduled'[curSchedPolicy] = numTasksScheduled[curSchedPolicy] + 1
      BY <1>3, <2>2
    <3>2. schedPolSwitchEnabled => ~(numTasksScheduled[curSchedPolicy] >= schedWindowSize)
      BY <2>2 DEF WindowFull
    <3>3. numTasksScheduled[curSchedPolicy] \in Nat
      BY <1>3
    <3> QED
      BY <1>1, <1>3, <3>1, <3>2, <3>3 DEF WindowRespected
  <2> QED
    BY <1>2, <2>1, <2>2
<1> QED
  BY <1>1, <1>4, <1>5 DEF WindowInv, WindowWithinQueue

(* first-fit launches an instance that its offer has room for.             *)
LEMMA FirstFitLaunches ==
    ASSUME BaseInv, TrackedConsume, FirstFitTake
    PROVE  BaseTypes' /\ PlacedInv' /\ WithinCapacity' /\ OffersInv' /\ TotalInv' /\ AgreeInv'
<1>1. /\ IndInv /\ TypeOK /\ QueueHoldsPending /\ EachInstanceOnce /\ TotalInv /\ OffersInv
      /\ i \in 1 .. Len(tasks) /\ Dequeue(i) /\ Eligible(i) /\ InScan
      /\ offers # <<>> /\ packed = {} /\ packed' = {}
      /\ offers' = Tail(offers) /\ pc' = "offer"
      /\ launched' = launched \cup {newTask(tasks[i])}
  <2>1. /\ IndInv /\ TypeOK /\ QueueHoldsPending /\ EachInstanceOnce /\ TotalInv /\ OffersInv
        /\ PositionInv /\ ScanInv
    BY DEF BaseInv, IndInv
  <2>2. /\ pc = "scan" /\ curSchedPolicy = "first-fit" /\ i <= Len(tasks)
        /\ Dequeue(i) /\ Eligible(i) /\ offers' = Tail(offers) /\ pc' = "offer"
        /\ launched' = launched \cup {newTask(tasks[i])}
    BY DEF FirstFitTake, Scanning
  <2>3. InScan /\ offers # <<>> /\ packed = {} /\ packed' = {}
    BY <2>1, <2>2 DEF FirstFitTake, ScanInv, InScan
  <2>4. i \in 1 .. Len(tasks)
    BY <2>1, <2>2 DEF PositionInv, TypeOK
  <2> QED
    BY <2>1, <2>2, <2>3, <2>4
<1>2. PICK t \in Task : t = tasks[i]
  BY <1>1 DEF TypeOK
<1>3. PICK x \in Task \X Int : x = newTask(tasks[i]) /\ x[1] = t /\ x \notin launched
  <2>1. newTask(tasks[i]) \in Task \X Int /\ newTask(tasks[i]) \notin Scheduled
    BY <1>1, DequeueScheduled
  <2>2. newTask(tasks[i])[1] = t
    BY <1>2 DEF newTask
  <2> QED
    BY <1>1, <2>1, <2>2 DEF EachInstanceOnce
<1>4. PICK a \in Agent : a = offer.agent
  <2>1. offer = offers[1] /\ 1 \in 1 .. Len(offers)
    BY <1>1 DEF offer, TypeOK
  <2> QED
    BY <1>1, <2>1 DEF OffersInv
<1>5. total.cpu = 0 /\ total.ram = 0 /\ total.watts = 0
  <2>1. UsedCPU({}) = 0 /\ UsedRAM({}) = 0 /\ UsedPower({}, offer.agent) = 0
    BY SumEmpty DEF UsedCPU, UsedRAM, UsedPower
  <2> QED
    BY <1>1, <2>1 DEF TotalInv
<1>6. /\ UsedCPU({x}) = Def[t].CPU /\ UsedRAM({x}) = Def[t].RAM
      /\ UsedPower({x}, a) = WattsToConsider(t, [agent |-> a])
  BY <1>3, UsedByOne
<1>7. /\ Def[t].CPU \in Nat /\ Def[t].RAM \in Nat
      /\ WattsToConsider(t, [agent |-> a]) \in Nat
  <2>1. PICK ids \in SUBSET (Task \X Int) : ids = {x}
    OBVIOUS
  <2>2. IsFiniteSet(ids) /\ x \in ids
    BY <2>1, FS_Singleton
  <2>3. /\ Def[x[1]].CPU \in Nat /\ Def[x[1]].RAM \in Nat
        /\ WattsToConsider(x[1], [agent |-> a]) \in Nat
    BY <2>2, UsedLess
  <2> QED
    BY <1>3, <2>3
<1>8. WattsToConsider(t, offer) = WattsToConsider(t, [agent |-> a])
  BY <1>4 DEF WattsToConsider
<1>9. /\ Def[t].CPU <= offer.cpus /\ Def[t].RAM <= offer.mem
      /\ wattsAsAResource => WattsToConsider(t, offer) <= offer.watts
  BY <1>1, <1>2, <1>5, <1>7, <1>8 DEF Eligible, takeOffer, WithinOffer, Using
<1>10. /\ UsedCPU({x}) <= offer.cpus /\ UsedRAM({x}) <= offer.mem
       /\ wattsAsAResource => UsedPower({x}, offer.agent) <= offer.watts
  BY <1>4, <1>6, <1>8, <1>9
<1>11. PICK ids : ids = {x}
  OBVIOUS
<1>12. /\ launched' = launched \cup ids /\ launched' \ launched = ids
       /\ ids # {} /\ ids \cap launched = {} /\ ids \in SUBSET (Task \X Int)
  BY <1>1, <1>3, <1>11
<1>13. IsFiniteSet(ids) /\ IsFiniteSet(packed')
  BY <1>1, <1>11, FS_Singleton, FS_EmptySet
<1>14. /\ UNCHANGED <<mesosVars, flagVars>>
       /\ OnTaskActive(ids, offer.agent)
       /\ placed' = [placed EXCEPT ![offer.agent] = placed[offer.agent] \cup ids]
  BY <1>12 DEF TrackedConsume
<1>15. Launches(ids)
  BY <1>1, <1>10, <1>11, <1>12, <1>13, <1>14 DEF Launches
<1> QED
  BY <1>12, <1>15, LaunchOn

(* What was packed into an offer is launched on its agent.                 *)
LEMMA PackedLaunches ==
    ASSUME BaseInv, TrackedConsume, LaunchPacked
    PROVE  BaseTypes' /\ PlacedInv' /\ WithinCapacity' /\ OffersInv' /\ TotalInv' /\ AgreeInv'
<1>1. /\ TypeOK /\ EachInstanceOnce /\ TotalInv /\ NeverOverpacked /\ PlacedInv /\ InScan
      /\ offers # <<>> /\ packed # {} /\ packed' = {}
      /\ offers' = Tail(offers) /\ pc' = "offer"
      /\ launched' = launched \cup packed
  BY DEF BaseInv, IndInv, LaunchPacked, ScanOver, ScanInv, InScan
<1>2. PICK ids : ids = packed
  OBVIOUS
<1>3. /\ ids \in SUBSET (Task \X Int) /\ ids # {} /\ ids \cap launched = {}
      /\ launched' = launched \cup ids /\ launched' \ launched = ids
  BY <1>1, <1>2 DEF TypeOK, EachInstanceOnce
<1>4. IsFiniteSet(ids) /\ IsFiniteSet(packed')
  BY <1>1, <1>2, FS_EmptySet DEF PlacedInv
<1>5. /\ UsedCPU(ids) <= offer.cpus /\ UsedRAM(ids) <= offer.mem
      /\ wattsAsAResource => UsedPower(ids, offer.agent) <= offer.watts
  BY <1>1, <1>2 DEF TotalInv, NeverOverpacked, WithinOffer
<1>6. /\ UNCHANGED <<mesosVars, flagVars>>
      /\ OnTaskActive(ids, offer.agent)
      /\ placed' = [placed EXCEPT ![offer.agent] = placed[offer.agent] \cup ids]
  BY <1>3 DEF TrackedConsume
<1>7. Launches(ids)
  BY <1>1, <1>3, <1>4, <1>5, <1>6 DEF Launches
<1> QED
  BY <1>3, <1>7, LaunchOn

(* The totals after a step that launches nothing.                          *)
LEMMA QuietTotals ==
    ASSUME BaseInv, Consume, ~FirstFitTake, ~LaunchPacked
    PROVE  /\ launched' = launched /\ TotalInv' /\ IsFiniteSet(packed')
           /\ offers' = offers \/ (offers # <<>> /\ offers' = Tail(offers))
           /\ pc' = "idle" => offers' = <<>>
<1>1. /\ TypeOK /\ IndInv /\ PlacedInv /\ TotalInv /\ OffersInv
      /\ i \in Int /\ Len(tasks) \in Nat
  BY DEF BaseInv, IndInv, TypeOK
<1>2. CASE \/ FirstFitSkip \/ GreedySkip \/ MaxSkip \/ MaxMinMismatch \/ MaxMinNoFit \/ MaxNone
  <2>1. /\ UNCHANGED <<offers, total, packed, launched>> /\ InScan /\ pc' # "idle"
    BY <1>2 DEF FirstFitSkip, GreedySkip, MaxSkip, MaxMinMismatch, MaxMinNoFit, MaxNone, ToMins,
       SkipUnchanged, Scanning, Packing, MaxMinScans, InScan
  <2> QED
    BY <1>1, <2>1 DEF TotalInv, PlacedInv, offer
<1>3. CASE \/ ConsumeOffers \/ Return \/ DeclineNoPendingTasks \/ DeclineInsufficientResources
           \/ GreedyFatal \/ MaxFatal \/ MaxMinFatal
  <2>1. /\ UNCHANGED <<packed, launched>> /\ pc' \notin {"max", "scan"}
        /\ offers' = offers \/ (offers # <<>> /\ offers' = Tail(offers))
        /\ pc' = "idle" => offers' = <<>>
    BY <1>1, <1>3 DEF ConsumeOffers, Return, DeclineNoPendingTasks,
       DeclineInsufficientResources, ScanOver, GreedyFatal, MaxFatal, MaxMinFatal, Fatal,
       IndInv, ScanInv, InScan
  <2> QED
    BY <1>1, <2>1 DEF TotalInv, PlacedInv, InScan
<1>4. CASE BeginOffer
  <2>1. /\ UNCHANGED <<offers, launched>> /\ packed' = {} /\ total' = NoUsage /\ pc' # "idle"
    BY <1>4 DEF BeginOffer, FirstPc
  <2>2. UsedCPU({}) = 0 /\ UsedRAM({}) = 0 /\ UsedPower({}, offer'.agent) = 0
    BY SumEmpty DEF UsedCPU, UsedRAM, UsedPower
  <2>3. IsFiniteSet(packed')
    BY <2>1, FS_EmptySet
  <2>4. total'.cpu = 0 /\ total'.ram = 0 /\ total'.watts = 0
    BY <2>1 DEF NoUsage
  <2>5. /\ total'.cpu = UsedCPU(packed') /\ total'.ram = UsedRAM(packed')
        /\ total'.watts = UsedPower(packed', offer'.agent)
    BY <2>1, <2>2, <2>4
  <2> QED
    BY <2>1, <2>3, <2>5 DEF TotalInv
<1>5. ASSUME NEW k \in 1 .. Len(tasks), InScan, Pack(k), pc' = "scan"
      PROVE  /\ launched' = launched /\ TotalInv' /\ IsFiniteSet(packed')
             /\ offers' = offers /\ pc' # "idle"
  BY <1>5, PackTotal
<1>6. CASE GreedyPack \/ MaxPack
  <2>1. i \in 1 .. Len(tasks) /\ InScan /\ Pack(i) /\ pc' = "scan"
    BY <1>1, <1>6 DEF GreedyPack, MaxPack, Packing, ToMins, InScan, IndInv, PositionInv
  <2> QED
    BY <1>5, <2>1
<1>7. CASE MaxMinPack
  <2>1. MaxMinIndex \in 1 .. Len(tasks) /\ InScan /\ Pack(MaxMinIndex) /\ pc' = "scan"
    BY <1>1, <1>7, PositionLemma DEF MaxMinPack, MaxMinScans, Scanning, PositionInQueue, InScan
  <2> QED
    BY <1>5, <2>1
<1> QED
  BY <1>2, <1>3, <1>4, <1>6, <1>7 DEF Consume

(* Every step of a policy keeps the invariant, what it tells the driver    *)
(* and the tracker included.                                               *)
LEMMA TrackedStep ==
    ASSUME BaseInv, TrackedConsume
    PROVE  BaseInv'
<1>1. IndInv /\ WindowInv /\ Consume /\ UNCHANGED <<mesosVars, flagVars>>
  BY DEF BaseInv, TrackedConsume
<1>2. IndInv' /\ WindowInv'
  BY <1>1, ConsumeStep, ConsumeWindow
<1>3. CASE ~FirstFitTake /\ ~LaunchPacked
  <2>1. /\ launched' = launched /\ TotalInv' /\ IsFiniteSet(packed')
        /\ offers' = offers \/ (offers # <<>> /\ offers' = Tail(offers))
        /\ pc' = "idle" => offers' = <<>>
    BY <1>1, <1>3, QuietTotals
  <2>2. UNCHANGED trackerVars
    <3>1. launched' \ launched = {}
      BY <2>1
    <3> QED
      BY <3>1 DEF TrackedConsume
  <2>3. BaseTypes' /\ PlacedInv' /\ WithinCapacity' /\ OffersInv' /\ AgreeInv'
    BY <1>1, <2>1, <2>2, QuietStep
  <2> QED
    BY <1>2, <2>1, <2>3 DEF BaseInv
<1> QED
  BY <1>2, <1>3, FirstFitLaunches, PackedLaunches DEF BaseInv

------------------------------------------------------------------------------
(* THE WINDOW AND ITS CLASSIFICATION                                       *)

(* The least element of a set of numbers.                                  *)
LEMMA MinOf ==
    ASSUME NEW S \in SUBSET Nat, S # {}
    PROVE  Min(S) \in S /\ \A y \in S : Min(S) <= y
<1>1. \E x \in S : \A y \in S : x <= y
  BY LeastNat
<1> QED
  BY <1>1 DEF Min

(* The greatest element of a bounded set of numbers.                       *)
LEMMA MaxOf ==
    ASSUME NEW S \in SUBSET Nat, S # {}, NEW n \in Nat, \A x \in S : x <= n
    PROVE  Max(S) \in S /\ \A y \in S : y <= Max(S)
<1> DEFINE B == {m \in Nat : \A x \in S : x <= m}
<1>1. PICK m \in B : \A k \in B : m <= k
  <2>1. n \in B /\ B \in SUBSET Nat
    OBVIOUS
  <2> HIDE DEF B
  <2> QED
    BY <2>1, LeastNat
<1>2. m \in S
  <2> SUFFICES ASSUME m \notin S PROVE FALSE
    OBVIOUS
  <2>1. PICK z \in S : TRUE
    OBVIOUS
  <2>2. \A x \in S : x \in Nat /\ x <= m /\ x # m
    OBVIOUS
  <2>3. m \in Nat /\ m - 1 \in Nat /\ \A x \in S : x <= m - 1
    BY <2>1, <2>2
  <2>4. m - 1 \in B
    BY <2>3
  <2> HIDE DEF B
  <2>5. m <= m - 1
    BY <1>1, <2>4
  <2> QED
    BY <2>3, <2>5
<1>3. \E x \in S : \A y \in S : x >= y
  BY <1>2
<1> QED
  BY <1>3 DEF Max

(* The instances left of the task at each position of the queue.           *)
InstOf == [j \in 1 .. Len(tasks) |-> instances[tasks[j]]]

(* Every queued task has instances left.                                   *)
LEMMA InstType ==
    ASSUME TypeOK, QueueHoldsPending
    PROVE  /\ Len(tasks) \in Nat
           /\ \A j \in 1 .. Len(tasks) : /\ tasks[j] \in Task /\ InstOf[j] = instances[tasks[j]]
                                         /\ InstOf[j] \in Nat \ {0}
<1>1. Len(tasks) \in Nat
  BY DEF TypeOK
<1>2. ASSUME NEW j \in 1 .. Len(tasks)
      PROVE  tasks[j] \in Task /\ InstOf[j] = instances[tasks[j]] /\ InstOf[j] \in Nat \ {0}
  <2>1. tasks[j] \in Task /\ tasks[j] \in Range(tasks)
    BY DEF TypeOK, Range
  <2>2. instances[tasks[j]] \in Int /\ instances[tasks[j]] > 0
    BY <2>1 DEF TypeOK, QueueHoldsPending
  <2> QED
    BY <2>1, <2>2 DEF InstOf
<1> QED
  BY <1>1, <1>2

(* The instances of the tasks at the positions ks, as SumFunction has them.*)
LEMMA InstSum ==
    ASSUME TypeOK, QueueHoldsPending, NEW ks \in SUBSET (1 .. Len(tasks))
    PROVE  /\ IsFiniteSet(ks)
           /\ SumFunction([j \in ks |-> instances[tasks[j]]]) = SumFunctionOnSet(InstOf, ks)
           /\ SumFunctionOnSet(InstOf, ks) \in Nat
<1>1. Len(tasks) \in Nat /\ \A j \in ks : InstOf[j] = instances[tasks[j]] /\ InstOf[j] \in Nat
  BY InstType
<1>2. IsFiniteSet(ks)
  <2>1. IsFiniteSet(1 .. Len(tasks))
    BY <1>1, FS_Interval
  <2> QED
    BY <2>1, FS_Subset
<1> DEFINE f == [j \in ks |-> instances[tasks[j]]]
<1>3. DOMAIN f = ks /\ \A j \in ks : f[j] = InstOf[j] /\ f[j] \in Int
  BY <1>1
<1>4. PICK fun, gun : fun = f /\ gun = InstOf
  OBVIOUS
<1> HIDE DEF f
<1>5. SumFunction(fun) = SumFunctionOnSet(gun, ks)
  BY <1>2, <1>3, <1>4, SumIs
<1>6. SumFunctionOnSet(gun, ks) \in Nat
  BY <1>1, <1>2, <1>4, SumNat
<1> QED
  BY <1>2, <1>4, <1>5, <1>6 DEF f

(* Need counts the instances of the first k tasks.                         *)
LEMMA NeedInst ==
    ASSUME TypeOK, QueueHoldsPending, NEW k \in 0 .. Len(tasks)
    PROVE  /\ Need[k].inst = SumFunctionOnSet(InstOf, 1 .. k)
           /\ Need[k].inst \in Nat
<1>1. Len(tasks) \in Nat
  BY DEF TypeOK
<1>2. 1 .. k \in SUBSET (1 .. Len(tasks))
  BY <1>1
<1>3. Need[k].inst = SumFunction([j \in 1 .. k |-> instances[tasks[j]]])
  BY DEF Need
<1> QED
  BY <1>2, <1>3, InstSum

(* It starts at zero and grows with every task.                            *)
LEMMA NeedGrows ==
    ASSUME TypeOK, QueueHoldsPending
    PROVE  /\ Need[0].inst = 0
           /\ \A k \in 1 .. Len(tasks) : Need[k].inst = Need[k - 1].inst + InstOf[k]
           /\ \A j, k \in 0 .. Len(tasks) : j <= k => Need[j].inst <= Need[k].inst
<1>1. Len(tasks) \in Nat
  BY DEF TypeOK
<1>2. PICK fun : fun = InstOf
  OBVIOUS
<1>3. \A k \in 0 .. Len(tasks) : /\ Need[k].inst = SumFunctionOnSet(fun, 1 .. k)
                                 /\ Need[k].inst \in Nat
  BY <1>2, NeedInst
<1>4. \A j \in 1 .. Len(tasks) : fun[j] \in Nat
  BY <1>2, InstType
<1>5. Need[0].inst = 0
  <2>1. 1 .. 0 = {}
    OBVIOUS
  <2> QED
    BY <1>1, <1>3, <2>1, SumEmpty
<1>6. ASSUME NEW j \in 0 .. Len(tasks), NEW k \in 0 .. Len(tasks), j <= k
      PROVE  /\ Need[k].inst = Need[j].inst + SumFunctionOnSet(fun, (j + 1) .. k)
             /\ SumFunctionOnSet(fun, (j + 1) .. k) \in Nat
  <2>1. /\ (1 .. j) \cup ((j + 1) .. k) = 1 .. k
        /\ (1 .. j) \cap ((j + 1) .. k) = {}
        /\ (1 .. k) \subseteq 1 .. Len(tasks) /\ ((j + 1) .. k) \subseteq 1 .. Len(tasks)
    BY <1>1, <1>6
  <2>2. IsFiniteSet(1 .. j) /\ IsFiniteSet((j + 1) .. k)
    BY FS_Interval
  <2>3. /\ \A x \in (1 .. j) \cup ((j + 1) .. k) : fun[x] \in Int
        /\ \A x \in (j + 1) .. k : fun[x] \in Nat
    BY <1>4, <2>1
  <2>4. SumFunctionOnSet(fun, (1 .. j) \cup ((j + 1) .. k)) =
          SumFunctionOnSet(fun, 1 .. j) + SumFunctionOnSet(fun, (j + 1) .. k)
    BY <2>1, <2>2, <2>3, SumUnion
  <2>5. SumFunctionOnSet(fun, (j + 1) .. k) \in Nat
    BY <2>2, <2>3, SumNat
  <2> QED
    BY <1>3, <2>1, <2>4, <2>5
<1>7. ASSUME NEW k \in 1 .. Len(tasks)
      PROVE  Need[k].inst = Need[k - 1].inst + InstOf[k]
  <2>1. k - 1 \in 0 .. Len(tasks) /\ k \in 0 .. Len(tasks) /\ k - 1 <= k
    BY <1>1
  <2>2. Need[k].inst = Need[k - 1].inst + SumFunctionOnSet(fun, ((k - 1) + 1) .. k)
    BY <1>6, <2>1
  <2>3. ((k - 1) + 1) .. k = {k} /\ fun[k] \in Int
    BY <1>1, <1>4
  <2>4. SumFunctionOnSet(fun, {k}) = fun[k]
    BY <2>3, SumOne
  <2> QED
    BY <1>2, <2>2, <2>3, <2>4
<1>8. ASSUME NEW j \in 0 .. Len(tasks), NEW k \in 0 .. Len(tasks), j <= k
      PROVE  Need[j].inst <= Need[k].inst
  <2>1. /\ Need[k].inst = Need[j].inst + SumFunctionOnSet(fun, (j + 1) .. k)
        /\ SumFunctionOnSet(fun, (j + 1) .. k) \in Nat
    BY <1>6, <1>8
  <2>2. Need[j].inst \in Nat
    BY <1>3
  <2> QED
    BY <2>1, <2>2
<1> QED
  BY <1>5, <1>7, <1>8

(* The tasks that hold a window: the last of them is needed, and they hold *)
(* it unless the queue is too short.                                       *)
LEMMA WindowTasks ==
    ASSUME TypeOK, QueueHoldsPending, NEW size \in Nat \ {0}, tasks # <<>>
    PROVE  LET n == TasksInWindow(size) IN
           /\ n \in 1 .. Len(tasks)
           /\ Need[n - 1].inst < size
           /\ Need[n].inst >= size \/ n = Len(tasks)
<1> DEFINE S == {Len(tasks)} \cup {k \in 1 .. Len(tasks) : Need[k].inst >= size}
           n == TasksInWindow(size)
<1>1. Len(tasks) \in Nat \ {0}
  BY DEF TypeOK
<1>2. S \in SUBSET Nat /\ S # {} /\ S \subseteq 1 .. Len(tasks)
  BY <1>1
<1>3. n = Min(S)
  BY DEF TasksInWindow
<1>4. n \in S /\ \A y \in S : n <= y
  <2>1. PICK T : T = S
    OBVIOUS
  <2> HIDE DEF S
  <2>2. Min(T) \in T /\ \A y \in T : Min(T) <= y
    BY <1>2, <2>1, MinOf
  <2> QED
    BY <1>3, <2>1, <2>2
<1> HIDE DEF n
<1>5. n \in 1 .. Len(tasks) /\ (Need[n].inst >= size \/ n = Len(tasks))
  BY <1>1, <1>4
<1>6. Need[n - 1].inst < size
  <2>1. n - 1 \in 0 .. Len(tasks)
    BY <1>1, <1>5
  <2>2. Need[n - 1].inst \in Nat
    BY <2>1, NeedInst
  <2>3. CASE n = 1
    <3>1. Need[0].inst = 0 /\ n - 1 = 0
      BY <2>3, NeedGrows
    <3> QED
      BY <3>1
  <2>4. CASE n # 1
    <3>1. n - 1 \notin S
      <4> HIDE DEF S
      <4> QED
        BY <1>1, <1>4, <1>5
    <3>2. n - 1 \in 1 .. Len(tasks)
      BY <1>1, <1>5, <2>4
    <3>3. ~(Need[n - 1].inst >= size)
      BY <3>1, <3>2
    <3> QED
      BY <2>2, <3>3
  <2> QED
    BY <2>3, <2>4
<1> QED
  BY <1>5, <1>6 DEF n

(* The greater and the lesser of two numbers.                              *)
LEMMA OfTwo ==
    ASSUME NEW x \in Int, NEW y \in Int
    PROVE  /\ Max({x, y}) = IF x <= y THEN y ELSE x
           /\ Min({x, y}) = IF x <= y THEN x ELSE y
<1>1. \E m \in {x, y} : \A z \in {x, y} : m >= z
  OBVIOUS
<1>2. \E m \in {x, y} : \A z \in {x, y} : m <= z
  OBVIOUS
<1>3. Max({x, y}) \in {x, y} /\ Max({x, y}) >= x /\ Max({x, y}) >= y
  BY <1>1 DEF Max
<1>4. Min({x, y}) \in {x, y} /\ Min({x, y}) <= x /\ Min({x, y}) <= y
  BY <1>2 DEF Min
<1> QED
  BY <1>3, <1>4

(* getTotalInstances counts at least one instance for a cluster that is    *)
(* not empty: what lies beyond the window is less than the last task has.  *)
LEMMA ClusterCount ==
    ASSUME TypeOK, QueueHoldsPending, NEW size \in Nat \ {0}, tasks # <<>>,
           NEW n, n = TasksInWindow(size), NEW ks \in SUBSET (1 .. n)
    PROVE  /\ getTotalInstances(ks, n, size) = SumFunctionOnSet(InstOf, ks) -
                (IF n \in ks /\ Need[n].inst > size THEN Need[n].inst - size ELSE 0)
           /\ getTotalInstances(ks, n, size) \in Nat
           /\ ks # {} => getTotalInstances(ks, n, size) > 0
           /\ SumFunctionOnSet(InstOf, ks) \in Nat
<1> DEFINE beyond == Max({0, Need[n].inst - size})
<1>1. n \in 1 .. Len(tasks) /\ Need[n - 1].inst < size /\ Len(tasks) \in Nat
  BY WindowTasks, InstType
<1>2. /\ Need[n].inst \in Nat /\ Need[n - 1].inst \in Nat /\ InstOf[n] \in Nat \ {0}
      /\ Need[n].inst = Need[n - 1].inst + InstOf[n]
  <2>1. n \in 0 .. Len(tasks) /\ n - 1 \in 0 .. Len(tasks)
    BY <1>1
  <2> QED
    BY <1>1, <2>1, NeedInst, NeedGrows, InstType
<1>3. beyond = IF Need[n].inst <= size THEN 0 ELSE Need[n].inst - size
  <2>1. Need[n].inst - size \in Int
    BY <1>2
  <2>2. PICK e \in Int : e = Need[n].inst - size
    BY <2>1
  <2>3. Max({0, e}) = IF 0 <= e THEN e ELSE 0
    BY OfTwo
  <2> QED
    BY <1>2, <2>2, <2>3
<1>4. beyond \in Nat /\ beyond < InstOf[n]
  BY <1>1, <1>2, <1>3
<1> HIDE DEF beyond
<1>5. ks \in SUBSET (1 .. Len(tasks))
  BY <1>1
<1>6. /\ IsFiniteSet(ks) /\ SumFunctionOnSet(InstOf, ks) \in Nat
      /\ SumFunction([j \in ks |-> instances[tasks[j]]]) = SumFunctionOnSet(InstOf, ks)
  BY <1>5, InstSum
<1>7. getTotalInstances(ks, n, size) =
        SumFunctionOnSet(InstOf, ks) - (IF n \in ks THEN beyond ELSE 0)
  BY <1>6 DEF getTotalInstances, beyond
<1>8. ASSUME NEW k \in ks
      PROVE  SumFunctionOnSet(InstOf, ks) >= InstOf[k] /\ InstOf[k] \in Nat \ {0}
  <2>1. PICK fun : fun = InstOf
    OBVIOUS
  <2>2. \A j \in ks : fun[j] \in Int /\ fun[j] \in Nat \ {0}
    BY <1>5, <2>1, InstType
  <2>3. SumFunctionOnSet(fun, ks) = fun[k] + SumFunctionOnSet(fun, ks \ {k})
    BY <1>6, <2>2, SumRemove
  <2>4. SumFunctionOnSet(fun, ks \ {k}) \in Nat
    <3>1. IsFiniteSet(ks \ {k}) /\ \A j \in ks \ {k} : fun[j] \in Nat
      BY <1>6, <2>2, FS_RemoveElement
    <3> QED
      BY <3>1, SumNat
  <2>5. fun[k] \in Nat \ {0}
    BY <2>2
  <2>6. SumFunctionOnSet(fun, ks) >= fun[k]
    BY <2>3, <2>4, <2>5
  <2> QED
    BY <2>1, <2>5, <2>6
<1>9. CASE n \in ks
  <2>1. SumFunctionOnSet(InstOf, ks) >= InstOf[n]
    BY <1>8, <1>9
  <2>2. getTotalInstances(ks, n, size) = SumFunctionOnSet(InstOf, ks) - beyond
    BY <1>7, <1>9
  <2>3. getTotalInstances(ks, n, size) \in Nat /\ getTotalInstances(ks, n, size) > 0
    BY <1>2, <1>4, <1>6, <2>1, <2>2
  <2> QED
    BY <1>1, <1>2, <1>3, <1>6, <1>9, <2>2, <2>3
<1>10. CASE n \notin ks
  <2>1. getTotalInstances(ks, n, size) = SumFunctionOnSet(InstOf, ks)
    BY <1>6, <1>7, <1>10
  <2>2. ks # {} => SumFunctionOnSet(InstOf, ks) > 0
    <3> SUFFICES ASSUME ks # {} PROVE SumFunctionOnSet(InstOf, ks) > 0
      OBVIOUS
    <3>1. PICK k \in ks : TRUE
      OBVIOUS
    <3>2. SumFunctionOnSet(InstOf, ks) >= InstOf[k] /\ InstOf[k] \in Nat \ {0}
      BY <1>8
    <3> QED
      BY <1>6, <3>2
  <2> QED
    BY <1>6, <1>10, <2>1, <2>2
<1> QED
  BY <1>9, <1>10

(* The clusters of a window are the two parts of its tasks.                *)
LEMMA ClusterParts ==
    ASSUME NEW n, NEW clusters \in ClassifyTasks(n)
    PROVE  /\ ~(n < 2)
           /\ clusters.light \cup clusters.heavy = 1 .. n
           /\ clusters.light \cap clusters.heavy = {}
           /\ \E c \in Clusterings(n) : clusters = labelAndOrder(c)
<1>1. PICK c \in Clusterings(n) : clusters = labelAndOrder(c)
  BY DEF ClassifyTasks
<1>2. ~(n < 2) /\ c \in [1 .. n -> {0, 1}]
  BY DEF Clusterings
<1>3. /\ Cluster(c, 0) \cup Cluster(c, 1) = 1 .. n
      /\ Cluster(c, 0) \cap Cluster(c, 1) = {}
  BY <1>2 DEF Cluster
<1>4. \/ clusters.light = Cluster(c, 1) /\ clusters.heavy = Cluster(c, 0)
      \/ clusters.light = Cluster(c, 0) /\ clusters.heavy = Cluster(c, 1)
  BY <1>1 DEF labelAndOrder
<1> QED
  BY <1>1, <1>2, <1>3, <1>4

(* Together the two clusters hold the instances of the window.             *)
LEMMA ClusterInstances ==
    ASSUME TypeOK, QueueHoldsPending, NEW size \in Nat \ {0},
           NEW n, n = TasksInWindow(size), NEW clusters \in ClassifyTasks(n)
    PROVE  LET light == getTotalInstances(clusters.light, n, size)
               heavy == getTotalInstances(clusters.heavy, n, size)
           IN /\ light \in Nat /\ heavy \in Nat
              /\ clusters.heavy # {} => heavy > 0
              /\ light + heavy = Min({size, Need[Len(tasks)].inst})
              /\ n \in 1 .. Len(tasks)
<1>1. PICK L, H : L = clusters.light /\ H = clusters.heavy
  OBVIOUS
<1>0. L \cup H = 1 .. n /\ L \cap H = {} /\ ~(n < 2)
  BY <1>1, ClusterParts
<1>2. tasks # <<>>
  <2> SUFFICES ASSUME tasks = <<>> PROVE FALSE
    OBVIOUS
  <2>1. {Len(tasks)} \cup {k \in 1 .. Len(tasks) : Need[k].inst >= size} = {0}
    OBVIOUS
  <2>2. Min({0}) = 0
    BY DEF Min
  <2>3. n = 0
    BY <2>1, <2>2 DEF TasksInWindow
  <2> QED
    BY <1>0, <2>3
<1>3. /\ n \in 1 .. Len(tasks) /\ Len(tasks) \in Nat
      /\ Need[n].inst >= size \/ n = Len(tasks)
  BY <1>2, WindowTasks, InstType
<1>4. /\ Need[n].inst \in Nat /\ Need[Len(tasks)].inst \in Nat
      /\ Need[n].inst <= Need[Len(tasks)].inst
      /\ Need[n].inst = SumFunctionOnSet(InstOf, 1 .. n)
  <2>1. n \in 0 .. Len(tasks) /\ Len(tasks) \in 0 .. Len(tasks) /\ n <= Len(tasks)
    BY <1>3
  <2> QED
    BY <2>1, NeedInst, NeedGrows
<1> DEFINE beyond == IF Need[n].inst > size THEN Need[n].inst - size ELSE 0
           light == getTotalInstances(L, n, size)
           heavy == getTotalInstances(H, n, size)
<1>5. L \in SUBSET (1 .. n) /\ H \in SUBSET (1 .. n)
  BY <1>0
<1>6. /\ light = SumFunctionOnSet(InstOf, L) - (IF n \in L THEN beyond ELSE 0)
      /\ heavy = SumFunctionOnSet(InstOf, H) - (IF n \in H THEN beyond ELSE 0)
      /\ light \in Nat /\ heavy \in Nat /\ (H # {} => heavy > 0)
      /\ SumFunctionOnSet(InstOf, L) \in Nat /\ SumFunctionOnSet(InstOf, H) \in Nat
  <2>1. ASSUME NEW ks \in SUBSET (1 .. n)
        PROVE  /\ getTotalInstances(ks, n, size) = SumFunctionOnSet(InstOf, ks) -
                    (IF n \in ks /\ Need[n].inst > size THEN Need[n].inst - size ELSE 0)
               /\ getTotalInstances(ks, n, size) \in Nat
               /\ ks # {} => getTotalInstances(ks, n, size) > 0
               /\ SumFunctionOnSet(InstOf, ks) \in Nat
    BY <1>2, ClusterCount
  <2> QED
    BY <1>5, <2>1
<1>7. SumFunctionOnSet(InstOf, 1 .. n) = SumFunctionOnSet(InstOf, L) + SumFunctionOnSet(InstOf, H)
  <2>1. PICK fun : fun = InstOf
    OBVIOUS
  <2>2. L \in SUBSET (1 .. Len(tasks)) /\ H \in SUBSET (1 .. Len(tasks))
    BY <1>3, <1>5
  <2>3. IsFiniteSet(L) /\ IsFiniteSet(H)
    BY <2>2, InstSum
  <2>4. \A x \in L \cup H : fun[x] \in Int
    <3>1. \A j \in 1 .. Len(tasks) : InstOf[j] \in Int
      BY InstType
    <3> QED
      BY <2>1, <2>2, <3>1
  <2>5. SumFunctionOnSet(fun, L \cup H) = SumFunctionOnSet(fun, L) + SumFunctionOnSet(fun, H)
    BY <1>0, <2>3, <2>4, SumUnion
  <2> QED
    BY <1>0, <2>1, <2>5
<1>8. (n \in L /\ n \notin H) \/ (n \notin L /\ n \in H)
  <2>1. n \in 1 .. n
    BY <1>3
  <2> QED
    BY <1>0, <2>1
<1> HIDE DEF beyond, light, heavy
<1>9. light + heavy = Need[n].inst - beyond
  <2>1. beyond \in Int
    BY <1>4 DEF beyond
  <2>2. CASE n \in L /\ n \notin H
    BY <1>4, <1>6, <1>7, <2>1, <2>2
  <2>3. CASE n \notin L /\ n \in H
    BY <1>4, <1>6, <1>7, <2>1, <2>3
  <2> QED
    BY <1>8, <2>2, <2>3
<1>10. Min({size, Need[Len(tasks)].inst}) =
         IF size <= Need[Len(tasks)].inst THEN size ELSE Need[Len(tasks)].inst
  <2>1. PICK e \in Int : e = Need[Len(tasks)].inst
    BY <1>4
  <2>2. size \in Int
    OBVIOUS
  <2>3. Min({size, e}) = IF size <= e THEN size ELSE e
    BY <2>2, OfTwo
  <2> QED
    BY <2>1, <2>3
<1>11. light + heavy = Min({size, Need[Len(tasks)].inst})
  BY <1>3, <1>4, <1>9, <1>10 DEF beyond
<1> QED
  BY <1>1, <1>3, <1>6, <1>11 DEF light, heavy

(* The r-th smallest of the watts of a class map is one of them.           *)
LEMMA RankedType ==
    ASSUME NEW watts \in [PowerClass -> Nat], NEW r \in 1 .. Cardinality(PowerClass)
    PROVE  RankedWatts(watts, r) \in Nat
<1> DEFINE R == Range(watts)
           S == {v \in R : Cardinality({c \in DOMAIN watts : watts[c] <= v}) >= r}
           sum == SumFunctionOnSet(watts, PowerClass)
<1>1. IsFiniteSet(PowerClass) /\ Cardinality(PowerClass) \in Nat /\ PowerClass # {}
  <2>1. IsFiniteSet(PowerClass) /\ Cardinality(PowerClass) \in Nat
    BY SwitchAssumption, FS_CardinalityType
  <2>2. PICK a \in Agent : TRUE
    BY SwitchAssumption
  <2>3. ClassOf[a] \in PowerClass
    BY OfferAssumption
  <2> QED
    BY <2>1, <2>3
<1>2. sum \in Nat /\ \A c \in PowerClass : watts[c] <= sum
  <2>1. \A c \in PowerClass : watts[c] \in Nat /\ watts[c] \in Int
    OBVIOUS
  <2>2. sum \in Nat
    BY <1>1, <2>1, SumNat
  <2>3. ASSUME NEW c \in PowerClass
        PROVE  watts[c] <= sum
    <3>1. sum = watts[c] + SumFunctionOnSet(watts, PowerClass \ {c})
      BY <1>1, <2>1, SumRemove
    <3>2. IsFiniteSet(PowerClass \ {c}) /\ \A d \in PowerClass \ {c} : watts[d] \in Nat
      BY <1>1, <2>1, FS_RemoveElement
    <3>3. SumFunctionOnSet(watts, PowerClass \ {c}) \in Nat
      BY <3>2, SumNat
    <3> QED
      BY <2>1, <3>1, <3>3
  <2> QED
    BY <2>2, <2>3
<1>3. R \in SUBSET Nat /\ R # {} /\ (\A v \in R : \E c \in PowerClass : v = watts[c])
      /\ \A c \in PowerClass : watts[c] \in R
  BY <1>1 DEF Range
<1> HIDE DEF R, sum
<1>4. \A v \in R : v <= sum
  BY <1>2, <1>3
<1>5. PICK m \in R : \A v \in R : v <= m
  BY <1>2, <1>3, <1>4, MaxOf
<1>6. {c \in DOMAIN watts : watts[c] <= m} = PowerClass
  BY <1>3, <1>5
<1>7. m \in S
  BY <1>1, <1>5, <1>6
<1>8. S \in SUBSET Nat /\ S # {}
  BY <1>3, <1>7
<1>9. RankedWatts(watts, r) = Min(S)
  BY DEF RankedWatts, R
<1> HIDE DEF S
<1> QED
  BY <1>8, <1>9, MinOf

(* The median of a task's observations is a number.                        *)
LEMMA MedianType ==
    ASSUME NEW t \in Task
    PROVE  MMMPU[t] \in Nat
<1>1. Def[t].Watts \in Nat /\ Def[t].ClassToWatts \in [PowerClass -> Nat] \cup {nil}
  BY TaskAssumption DEF TaskDef
<1>2. CASE Def[t].ClassToWatts = nil
  BY <1>1, <1>2 DEF MMMPU
<1>3. CASE Def[t].ClassToWatts # nil
  <2> DEFINE watts == Def[t].ClassToWatts
             n == Cardinality(DOMAIN watts)
  <2>1. watts \in [PowerClass -> Nat]
    BY <1>1, <1>3
  <2>2. n = Cardinality(PowerClass) /\ n \in Nat \ {0}
    <3>1. IsFiniteSet(PowerClass) /\ Cardinality(PowerClass) \in Nat
      BY SwitchAssumption, FS_CardinalityType
    <3>2. PICK a \in Agent : TRUE
      BY SwitchAssumption
    <3>3. ClassOf[a] \in PowerClass
      BY OfferAssumption
    <3>4. Cardinality(PowerClass) # 0
      BY <3>1, <3>3, FS_EmptySet
    <3> QED
      BY <2>1, <3>1, <3>4
  <2>3. MMMPU[t] = RankedWatts(watts, (n + 1) \div 2) + RankedWatts(watts, n \div 2 + 1)
    BY <1>3 DEF MMMPU
  <2> HIDE DEF watts, n
  <2>4. (n + 1) \div 2 \in 1 .. n /\ n \div 2 + 1 \in 1 .. n
    BY <2>2
  <2>5. ASSUME NEW r \in 1 .. n
        PROVE  RankedWatts(watts, r) \in Nat
    BY <2>1, <2>2, RankedType
  <2> QED
    BY <2>3, <2>4, <2>5
<1> QED
  BY <1>2, <1>3

(* So is the total of the medians of a cluster.                            *)
LEMMA TotalMedianType ==
    ASSUME TypeOK, QueueHoldsPending, NEW ks \in SUBSET (1 .. Len(tasks))
    PROVE  TotalMMMPU(ks) \in Int /\ Cardinality(ks) \in Int
<1> DEFINE f == [k \in ks |-> MMMPU[tasks[k]]]
<1>1. IsFiniteSet(ks)
  BY InstSum
<1>2. \A k \in ks : f[k] \in Int
  BY InstType, MedianType
<1>3. TotalMMMPU(ks) = SumFunction(f) /\ DOMAIN f = ks
  BY DEF TotalMMMPU
<1>4. PICK fun : fun = f
  OBVIOUS
<1> HIDE DEF f
<1>5. SumFunctionOnSet(fun, ks) \in Int
  BY <1>1, <1>2, <1>4, SumType
<1> QED
  BY <1>1, <1>3, <1>4, <1>5, FS_CardinalityType DEF SumFunction

(* labelAndOrder calls the cluster heavy that is not lighter.              *)
LEMMA HeavyIsHeavier ==
    ASSUME TypeOK, QueueHoldsPending, NEW n \in 1 .. Len(tasks),
           NEW clusters \in ClassifyTasks(n)
    PROVE  TotalMMMPU(clusters.light) * Cardinality(clusters.heavy) <=
           TotalMMMPU(clusters.heavy) * Cardinality(clusters.light)
<1>1. PICK c \in Clusterings(n) : clusters = labelAndOrder(c)
  BY DEF ClassifyTasks
<1>2. c \in [1 .. n -> {0, 1}] /\ Len(tasks) \in Nat
  BY InstType DEF Clusterings
<1>3. Cluster(c, 0) \in SUBSET (1 .. Len(tasks)) /\ Cluster(c, 1) \in SUBSET (1 .. Len(tasks))
  BY <1>2 DEF Cluster
<1>4. /\ TotalMMMPU(Cluster(c, 0)) \in Int /\ Cardinality(Cluster(c, 0)) \in Int
      /\ TotalMMMPU(Cluster(c, 1)) \in Int /\ Cardinality(Cluster(c, 1)) \in Int
  BY <1>3, TotalMedianType
<1>5. ASSUME NEW x \in Int, NEW y \in Int
      PROVE  x * y \in Int
  OBVIOUS
<1>6. PICK p \in Int : p = TotalMMMPU(Cluster(c, 0)) * Cardinality(Cluster(c, 1))
  BY <1>4, <1>5
<1>7. PICK q \in Int : q = TotalMMMPU(Cluster(c, 1)) * Cardinality(Cluster(c, 0))
  BY <1>4, <1>5
<1>8. FirstIsHeavier(c) <=> p > q
  BY <1>6, <1>7 DEF FirstIsHeavier
<1>9. CASE FirstIsHeavier(c)
  <2>1. clusters.light = Cluster(c, 1) /\ clusters.heavy = Cluster(c, 0)
    BY <1>1, <1>9 DEF labelAndOrder
  <2>2. q <= p
    BY <1>8, <1>9
  <2> QED
    BY <1>6, <1>7, <2>1, <2>2
<1>10. CASE ~FirstIsHeavier(c)
  <2>1. clusters.light = Cluster(c, 0) /\ clusters.heavy = Cluster(c, 1)
    BY <1>1, <1>10 DEF labelAndOrder
  <2>2. p <= q
    BY <1>8, <1>10
  <2> QED
    BY <1>6, <1>7, <2>1, <2>2
<1> QED
  BY <1>9, <1>10

(* Whatever the queue holds, its windows are classified soundly.           *)
LEMMA ClassificationHolds ==
    ASSUME TypeOK, QueueHoldsPending
    PROVE  ClassificationSound
<1>1. ASSUME NEW size \in 1 .. Need[Len(tasks)].inst + 1,
             NEW n, n = TasksInWindow(size), NEW clusters \in ClassifyTasks(n)
      PROVE  LET light == getTotalInstances(clusters.light, n, size)
                 heavy == getTotalInstances(clusters.heavy, n, size)
             IN /\ light + heavy = Min({size, Need[Len(tasks)].inst})
                /\ clusters.heavy # {} => heavy > 0
                /\ TotalMMMPU(clusters.light) * Cardinality(clusters.heavy) <=
                   TotalMMMPU(clusters.heavy) * Cardinality(clusters.light)
  <2>1. size \in Nat \ {0}
    OBVIOUS
  <2>2. LET light == getTotalInstances(clusters.light, n, size)
            heavy == getTotalInstances(clusters.heavy, n, size)
        IN /\ light + heavy = Min({size, Need[Len(tasks)].inst})
           /\ clusters.heavy # {} => heavy > 0
           /\ n \in 1 .. Len(tasks)
    BY <1>1, <2>1, ClusterInstances
  <2>3. TotalMMMPU(clusters.light) * Cardinality(clusters.heavy) <=
          TotalMMMPU(clusters.heavy) * Cardinality(clusters.light)
    BY <2>2, HeavyIsHeavier
  <2> QED
    BY <2>2, <2>3
<1> QED
  BY <1>1 DEF ClassificationSound

------------------------------------------------------------------------------
(* THE RING OF POLICIES AND THE BINARY SEARCH                              *)

(* There are finitely many policies to switch among, and no two of them    *)
(* have the same task distribution.                                        *)
LEMMA ToSwitchType ==
    /\ IsFiniteSet(ToSwitch) /\ Cardinality(ToSwitch) \in Nat
    /\ ToSwitch \subseteq Policy
    /\ \A p \in ToSwitch : TaskDist[p] \in Nat \ {0}
    /\ \A p, r \in ToSwitch : TaskDist[p] = TaskDist[r] => p = r
<1>1. IsFiniteSet({"first-fit"} \cup {"bin-packing"} \cup {"max-greedymins"} \cup {"max-min"})
  BY FS_Singleton, FS_Union
<1>2. Policy = {"first-fit"} \cup {"bin-packing"} \cup {"max-greedymins"} \cup {"max-min"}
  BY DEF Policy
<1>3. IsFiniteSet(Policy)
  BY <1>1, <1>2
<1>4. ToSwitch \in SUBSET Policy
  BY DEF ToSwitch
<1>5. IsFiniteSet(ToSwitch)
  BY <1>3, <1>4, FS_Subset
<1> QED
  BY <1>4, <1>5, FS_CardinalityType, SwitchAssumption DEF ToSwitch

Rank == [p \in ToSwitch |-> Cardinality({q \in ToSwitch : TaskDist[q] <= TaskDist[p]})]

(* The rank of a policy grows with its distribution, and is a position.    *)
LEMMA RankGrows ==
    /\ \A p \in ToSwitch : Rank[p] \in 1 .. Cardinality(ToSwitch)
    /\ \A p, r \in ToSwitch : TaskDist[p] < TaskDist[r] => Rank[p] < Rank[r]
<1> DEFINE Below(p) == {q \in ToSwitch : TaskDist[q] <= TaskDist[p]}
<1>1. ASSUME NEW p \in ToSwitch
      PROVE  /\ Rank[p] = Cardinality(Below(p)) /\ Below(p) \in SUBSET ToSwitch
             /\ IsFiniteSet(Below(p)) /\ Rank[p] \in 1 .. Cardinality(ToSwitch)
  <2>1. Rank[p] = Cardinality(Below(p)) /\ Below(p) \in SUBSET ToSwitch /\ p \in Below(p)
    BY ToSwitchType DEF Rank
  <2> HIDE DEF Below
  <2>2. IsFiniteSet(Below(p)) /\ Cardinality(Below(p)) <= Cardinality(ToSwitch)
    BY <2>1, ToSwitchType, FS_Subset
  <2>3. Cardinality(Below(p)) \in Nat /\ Cardinality(Below(p)) # 0
    BY <2>1, <2>2, FS_CardinalityType, FS_EmptySet
  <2> QED
    BY <2>1, <2>2, <2>3, ToSwitchType
<1>2. ASSUME NEW p \in ToSwitch, NEW r \in ToSwitch, TaskDist[p] < TaskDist[r]
      PROVE  Rank[p] < Rank[r]
  <2>1. TaskDist[p] \in Nat /\ TaskDist[r] \in Nat /\ \A q \in ToSwitch : TaskDist[q] \in Nat
    BY ToSwitchType
  <2>2. Below(p) \in SUBSET Below(r) /\ r \in Below(r) /\ r \notin Below(p)
    BY <1>2, <2>1
  <2> HIDE DEF Below
  <2>3. Cardinality(Below(p)) <= Cardinality(Below(r)) /\ Cardinality(Below(p)) # Cardinality(Below(r))
    BY <1>1, <2>2, FS_Subset
  <2> QED
    BY <1>1, <2>3
<1> QED
  BY <1>1, <1>2

(* The policies can be sorted by their distributions.                      *)
LEMMA RingExists ==
    \E s \in [1 .. Cardinality(ToSwitch) -> ToSwitch] :
        \A j, k \in DOMAIN s : j < k => TaskDist[s[j]] < TaskDist[s[k]]
<1> DEFINE n == Cardinality(ToSwitch)
           s == [k \in 1 .. n |-> CHOOSE p \in ToSwitch : Rank[p] = k]
<1>1. n \in Nat /\ IsFiniteSet(1 .. n) /\ Cardinality(1 .. n) = n
  BY ToSwitchType, FS_Interval
<1>2. ASSUME NEW p \in ToSwitch, NEW r \in ToSwitch, Rank[p] = Rank[r]
      PROVE  p = r
  <2>1. ~(TaskDist[p] < TaskDist[r]) /\ ~(TaskDist[r] < TaskDist[p])
    BY <1>1, <1>2, RankGrows
  <2> QED
    BY <2>1, ToSwitchType
<1>3. Rank \in Injection(ToSwitch, 1 .. n)
  <2>1. Rank \in [ToSwitch -> 1 .. n]
    BY RankGrows DEF Rank
  <2> QED
    BY <1>2, <2>1 DEF Injection, IsInjective
<1>4. Rank \in Surjection(ToSwitch, 1 .. n)
  <2> HIDE DEF n
  <2> QED
    BY <1>1, <1>3, FS_Injection DEF n
<1>5. \A k \in 1 .. n : s[k] \in ToSwitch /\ Rank[s[k]] = k
  <2>1. \A k \in 1 .. n : \E p \in ToSwitch : Rank[p] = k
    BY <1>4 DEF Surjection
  <2> QED
    BY <2>1
<1>6. s \in [1 .. n -> ToSwitch]
  BY <1>5
<1> HIDE DEF s
<1>7. ASSUME NEW j \in 1 .. n, NEW k \in 1 .. n, j < k
      PROVE  TaskDist[s[j]] < TaskDist[s[k]]
  <2>1. PICK p \in ToSwitch, r \in ToSwitch : p = s[j] /\ r = s[k] /\ Rank[p] = j /\ Rank[r] = k
    BY <1>5
  <2>2. TaskDist[p] \in Nat /\ TaskDist[r] \in Nat
    BY ToSwitchType
  <2>3. ~(TaskDist[r] < TaskDist[p])
    BY <1>7, <2>1, RankGrows
  <2>4. TaskDist[p] # TaskDist[r]
    BY <1>7, <2>1, ToSwitchType
  <2> QED
    BY <2>1, <2>2, <2>3, <2>4
<1> QED
  BY <1>6, <1>7

(* Every policy with a taskDist is in the ring, in increasing order.       *)
LEMMA Ring ==
    /\ NumToSwitch \in Nat /\ NumToSwitch = Cardinality(ToSwitch)
    /\ schedPoliciesToSwitch \in [1 .. NumToSwitch -> ToSwitch]
    /\ \A j, k \in 1 .. NumToSwitch :
         j < k => TaskDist[schedPoliciesToSwitch[j]] < TaskDist[schedPoliciesToSwitch[k]]
    /\ \A p \in ToSwitch : \E k \in 1 .. NumToSwitch : schedPoliciesToSwitch[k] = p
<1> DEFINE n == Cardinality(ToSwitch)
           s == schedPoliciesToSwitch
<1>1. n \in Nat /\ IsFiniteSet(1 .. n) /\ Cardinality(1 .. n) = n
  BY ToSwitchType, FS_Interval
<1>2. /\ s \in [1 .. n -> ToSwitch]
      /\ \A j, k \in 1 .. n : j < k => TaskDist[s[j]] < TaskDist[s[k]]
  BY RingExists DEF schedPoliciesToSwitch
<1> HIDE DEF s
<1>3. NumToSwitch = n
  <2>1. s \in Seq(ToSwitch) /\ DOMAIN s = 1 .. n
    BY <1>1, <1>2
  <2>2. Len(s) = n
    BY <1>1, <2>1
  <2> QED
    BY <2>2 DEF NumToSwitch, s
<1>4. ASSUME NEW j \in 1 .. n, NEW k \in 1 .. n, s[j] = s[k]
      PROVE  j = k
  <2>1. ~(j < k) /\ ~(k < j)
    BY <1>1, <1>2, <1>4, ToSwitchType
  <2> QED
    BY <1>1, <2>1
<1>5. s \in Injection(1 .. n, ToSwitch)
  BY <1>2, <1>4 DEF Injection, IsInjective
<1>6. s \in Surjection(1 .. n, ToSwitch)
  <2>1. Cardinality(1 .. n) = Cardinality(ToSwitch) /\ IsFiniteSet(ToSwitch)
    BY <1>1, ToSwitchType
  <2>2. PICK t, S : t = s /\ S = 1 .. n
    OBVIOUS
  <2>3. t \in Surjection(S, ToSwitch)
    BY <1>5, <2>1, <2>2, FS_Injection
  <2> QED
    BY <2>2, <2>3
<1>7. \A p \in ToSwitch : \E k \in 1 .. n : s[k] = p
  BY <1>6 DEF Surjection
<1> QED
  BY <1>1, <1>2, <1>3, <1>7 DEF s

(* The next and the previous policy of one in the ring are in it.          *)
LEMMA RingNeighbours ==
    ASSUME NEW p \in ToSwitch
    PROVE  /\ nextPolicyName(p) \in ToSwitch /\ prevPolicyName(p) \in ToSwitch
           /\ PolicyAt(1) \in ToSwitch /\ PolicyAt(NumToSwitch) \in ToSwitch
           /\ NumToSwitch > 0
<1> DEFINE k == CHOOSE k \in 1 .. NumToSwitch : schedPoliciesToSwitch[k] = p
<1>1. NumToSwitch \in Nat /\ k \in 1 .. NumToSwitch
  BY Ring
<1>2. /\ nextPolicyName(p) = schedPoliciesToSwitch[(k % NumToSwitch) + 1]
      /\ prevPolicyName(p) = schedPoliciesToSwitch[IF k = 1 THEN NumToSwitch ELSE k - 1]
  BY DEF nextPolicyName, prevPolicyName
<1> HIDE DEF k
<1>3. \A j \in 1 .. NumToSwitch : schedPoliciesToSwitch[j] \in ToSwitch
  BY Ring
<1>4. k % NumToSwitch \in 0 .. NumToSwitch - 1
  BY <1>1
<1>5. (k % NumToSwitch) + 1 \in 1 .. NumToSwitch
  BY <1>1, <1>4
<1>6. (IF k = 1 THEN NumToSwitch ELSE k - 1) \in 1 .. NumToSwitch /\ 1 \in 1 .. NumToSwitch
      /\ NumToSwitch \in 1 .. NumToSwitch
  BY <1>1
<1> QED
  BY <1>1, <1>2, <1>3, <1>5, <1>6 DEF PolicyAt

Dist(k) == TaskDist[schedPoliciesToSwitch[k]]

(* The distributions of the ring grow along it.                            *)
LEMMA DistGrows ==
    /\ NumToSwitch \in Nat
    /\ \A k \in 1 .. NumToSwitch : Dist(k) \in Nat /\ schedPoliciesToSwitch[k] \in ToSwitch
    /\ \A j, k \in 1 .. NumToSwitch : j < k => Dist(j) < Dist(k)
BY Ring, ToSwitchType DEF Dist

(* The middle of an interval is in it.                                     *)
LEMMA Middle ==
    ASSUME NEW low \in Int, NEW high \in Int, low <= high
    PROVE  (low + high - 2) \div 2 + 1 \in low .. high
OBVIOUS

(* The policies below a distribution come first.                           *)
LEMMA BelowFirst ==
    ASSUME NEW d \in Nat
    PROVE  \E h \in 0 .. NumToSwitch : \A k \in 1 .. NumToSwitch : Dist(k) < d <=> k <= h
<1> DEFINE S == {0} \cup {k \in 1 .. NumToSwitch : Dist(k) < d}
<1>1. S \in SUBSET Nat /\ S # {} /\ NumToSwitch \in Nat /\ \A k \in S : k <= NumToSwitch
  BY DistGrows
<1>2. PICK h \in S : \A k \in S : k <= h
  <2> HIDE DEF S
  <2> QED
    BY <1>1, MaxOf
<1>3. ASSUME NEW k \in 1 .. NumToSwitch
      PROVE  Dist(k) < d <=> k <= h
  <2>1. CASE h = 0
    BY <1>1, <1>2, <2>1, DistGrows
  <2>2. CASE h # 0
    BY <1>1, <1>2, <2>2, DistGrows
  <2> QED
    BY <2>1, <2>2
<1> QED
  BY <1>1, <1>2, <1>3

Intervals == (1 .. NumToSwitch + 1) \X (0 .. NumToSwitch)

(* One iteration of the search, of which g is the rest.                    *)
SearchFrom(d, g, r) ==
    IF r[1] > r[2] THEN r
    ELSE LET mid == (r[1] + r[2] - 2) \div 2 + 1
         IN CASE d < Dist(mid) -> g[<<r[1], mid - 1>>]
              [] d > Dist(mid) -> g[<<mid + 1, r[2]>>]
              [] OTHER -> <<mid, mid>>

(* The search has a result from every interval: where the distribution is  *)
(* or would be, as near as the interval allows.                            *)
LEMMA SearchExists ==
    ASSUME NEW d \in Nat
    PROVE  \E g : g = [r \in Intervals |-> SearchFrom(d, g, r)]
<1>1. PICK h \in 0 .. NumToSwitch : \A k \in 1 .. NumToSwitch : Dist(k) < d <=> k <= h
  BY BelowFirst
<1> DEFINE found(low, high) == h < NumToSwitch /\ Dist(h + 1) = d /\ low <= h + 1 /\ h + 1 <= high
           near(low, high) == IF h < low - 1 THEN low - 1 ELSE IF h > high THEN high ELSE h
           end(low, high) == IF low > high THEN <<low, high>>
                             ELSE IF found(low, high) THEN <<h + 1, h + 1>>
                             ELSE <<near(low, high) + 1, near(low, high)>>
           g == [r \in Intervals |-> end(r[1], r[2])]
<1>2. NumToSwitch \in Nat /\ \A k \in 1 .. NumToSwitch : Dist(k) \in Nat
  BY DistGrows
<1>3. ASSUME NEW k \in 1 .. NumToSwitch
      PROVE  /\ Dist(k) < d <=> k <= h
             /\ Dist(k) = d <=> h < NumToSwitch /\ Dist(h + 1) = d /\ k = h + 1
  <2>1. h \in Nat /\ (h < NumToSwitch => h + 1 \in 1 .. NumToSwitch)
    BY <1>1, <1>2
  <2>2. Dist(k) = d => k = h + 1
    <3> SUFFICES ASSUME Dist(k) = d PROVE k = h + 1
      OBVIOUS
    <3>1. k > h
      BY <1>1, <1>2
    <3>2. h + 1 \in 1 .. NumToSwitch /\ ~(Dist(h + 1) < d)
      BY <1>1, <1>2, <3>1
    <3>3. ~(h + 1 < k)
      BY <1>2, <3>2, DistGrows
    <3> QED
      BY <1>2, <2>1, <3>1, <3>3
  <2> QED
    BY <1>1, <1>2, <2>1, <2>2
<1>4. ASSUME NEW r \in Intervals
      PROVE  g[r] = SearchFrom(d, g, r)
  <2>1. PICK low \in 1 .. NumToSwitch + 1, high \in 0 .. NumToSwitch : r = <<low, high>>
    BY DEF Intervals
  <2>2. g[r] = end(low, high) /\ r[1] = low /\ r[2] = high
    BY <2>1
  <2>3. CASE low > high
    BY <2>1, <2>2, <2>3 DEF SearchFrom
  <2>4. CASE low <= high
    <3> DEFINE mid == (low + high - 2) \div 2 + 1
    <3>1. mid \in low .. high
      BY <2>4, Middle
    <3>2. SearchFrom(d, g, r) = CASE d < Dist(mid) -> g[<<low, mid - 1>>]
                                  [] d > Dist(mid) -> g[<<mid + 1, high>>]
                                  [] OTHER -> <<mid, mid>>
      BY <1>2, <2>2, <2>4 DEF SearchFrom
    <3> HIDE DEF mid
    <3>3. mid \in 1 .. NumToSwitch /\ Dist(mid) \in Nat
      BY <1>2, <3>1
    <3>4. /\ <<low, mid - 1>> \in Intervals /\ <<mid + 1, high>> \in Intervals
      BY <1>2, <3>1, <3>3 DEF Intervals
    <3>5. g[<<low, mid - 1>>] = end(low, mid - 1) /\ g[<<mid + 1, high>>] = end(mid + 1, high)
      BY <3>4
    <3> HIDE DEF g
    <3>6. CASE d < Dist(mid)
      <4>1. SearchFrom(d, g, r) = end(low, mid - 1)
        BY <1>2, <3>2, <3>3, <3>5, <3>6
      <4>2. mid > h /\ ~(h < NumToSwitch /\ Dist(h + 1) = d /\ mid = h + 1)
        BY <1>2, <1>3, <3>3, <3>6
      <4>3. found(low, high) <=> found(low, mid - 1)
        BY <1>2, <3>1, <3>3, <4>2
      <4>4. ~found(low, high) => near(low, high) = near(low, mid - 1)
        BY <1>2, <3>1, <3>3, <4>2
      <4>5. mid - 1 < low => near(low, high) = low - 1 /\ mid - 1 = low - 1
        BY <1>2, <3>1, <3>3, <4>2
      <4> HIDE DEF found, near
      <4>6. CASE low > mid - 1
        <5>1. ~found(low, mid - 1)
          BY <1>2, <3>1, <4>6 DEF found
        <5> QED
          BY <1>2, <2>2, <2>4, <4>1, <4>3, <4>5, <4>6, <5>1
      <4>7. CASE ~(low > mid - 1)
        BY <1>2, <2>2, <2>4, <4>1, <4>3, <4>4, <4>7
      <4> QED
        BY <4>6, <4>7
    <3>7. CASE d > Dist(mid)
      <4>1. SearchFrom(d, g, r) = end(mid + 1, high)
        BY <1>2, <3>2, <3>3, <3>5, <3>7
      <4>2. mid <= h
        BY <1>2, <1>3, <3>3, <3>7
      <4>3. found(low, high) <=> found(mid + 1, high)
        BY <1>2, <3>1, <3>3, <4>2
      <4>4. ~found(low, high) => near(low, high) = near(mid + 1, high)
        BY <1>2, <3>1, <3>3, <4>2
      <4>5. mid + 1 > high => near(low, high) = high /\ mid + 1 = high + 1
        BY <1>2, <3>1, <3>3, <4>2
      <4> HIDE DEF found, near
      <4>6. CASE mid + 1 > high
        <5>1. ~found(mid + 1, high)
          BY <1>2, <3>1, <4>6 DEF found
        <5> QED
          BY <1>2, <2>2, <2>4, <4>1, <4>3, <4>5, <4>6, <5>1
      <4>7. CASE ~(mid + 1 > high)
        BY <1>2, <2>2, <2>4, <4>1, <4>3, <4>4, <4>7
      <4> QED
        BY <4>6, <4>7
    <3>8. CASE d = Dist(mid)
      <4>1. SearchFrom(d, g, r) = <<mid, mid>>
        BY <3>2, <3>3, <3>8
      <4>2. h < NumToSwitch /\ Dist(h + 1) = d /\ mid = h + 1
        BY <1>3, <3>3, <3>8
      <4> QED
        BY <2>2, <2>4, <3>1, <4>1, <4>2
    <3> QED
      BY <3>3, <3>6, <3>7, <3>8
  <2> QED
    BY <2>1, <2>3, <2>4
<1>5. g = [r \in Intervals |-> SearchFrom(d, g, r)]
  BY <1>4
<1> QED
  BY <1>5

(* The search from low to high ended with q: at the distribution, or       *)
(* between two neighbours it lies between.                                 *)
EndsAt(d, q, low, high) ==
    \/ \E m \in low .. high : q = <<m, m>> /\ Dist(m) = d
    \/ \E h \in low - 1 .. high : /\ q = <<h + 1, h>>
                                  /\ h >= low => Dist(h) < d
                                  /\ h < high => d < Dist(h + 1)

(* So it ends from every interval, by induction on its length.             *)
LEMMA SearchEnds ==
    ASSUME NEW d \in Nat, NEW g, g = [r \in Intervals |-> SearchFrom(d, g, r)],
           NEW low \in 1 .. NumToSwitch + 1, NEW high \in 0 .. NumToSwitch, low <= high + 1
    PROVE  EndsAt(d, g[<<low, high>>], low, high)
<1> DEFINE Bad(l, h) == l <= h + 1 /\ ~EndsAt(d, g[<<l, h>>], l, h)
           B == {n \in Nat : \E l \in 1 .. NumToSwitch + 1, h \in 0 .. NumToSwitch :
                               n = h - l + 1 /\ Bad(l, h)}
<1>1. NumToSwitch \in Nat /\ \A k \in 1 .. NumToSwitch : Dist(k) \in Nat
  BY DistGrows
<1> SUFFICES ASSUME Bad(low, high) PROVE FALSE
  OBVIOUS
<1>2. B \in SUBSET Nat /\ B # {}
  <2>1. high - low + 1 \in Nat
    BY <1>1
  <2> HIDE DEF Bad
  <2> QED
    BY <2>1
<1>3. PICK n \in B : \A k \in B : n <= k
  <2> HIDE DEF B
  <2> QED
    BY <1>2, LeastNat
<1>4. PICK l \in 1 .. NumToSwitch + 1, h \in 0 .. NumToSwitch : n = h - l + 1 /\ Bad(l, h)
  BY <1>3
<1>5. ASSUME NEW x \in 1 .. NumToSwitch + 1, NEW y \in 0 .. NumToSwitch,
             x <= y + 1, y - x + 1 < n
      PROVE  EndsAt(d, g[<<x, y>>], x, y)
  <2> SUFFICES ASSUME Bad(x, y) PROVE FALSE
    BY <1>5
  <2>1. y - x + 1 \in Nat
    BY <1>1, <1>5
  <2>2. y - x + 1 \in B
    BY <2>1
  <2> HIDE DEF B, Bad
  <2>3. n \in Nat /\ n <= y - x + 1
    BY <1>2, <1>3, <2>2
  <2> QED
    BY <1>5, <2>1, <2>3
<1> DEFINE mid == (l + h - 2) \div 2 + 1
<1>6. /\ <<l, h>> \in Intervals
      /\ g[<<l, h>>] = IF l > h THEN <<l, h>>
                       ELSE CASE d < Dist(mid) -> g[<<l, mid - 1>>]
                              [] d > Dist(mid) -> g[<<mid + 1, h>>]
                              [] OTHER -> <<mid, mid>>
  <2>1. <<l, h>> \in Intervals
    BY DEF Intervals
  <2>2. g[<<l, h>>] = SearchFrom(d, g, <<l, h>>)
    BY <2>1
  <2> QED
    BY <2>1, <2>2 DEF SearchFrom
<1>7. CASE l > h
  <2>1. l = h + 1 /\ g[<<l, h>>] = <<h + 1, h>> /\ h \in l - 1 .. h
    BY <1>1, <1>4, <1>6, <1>7
  <2>2. ~(h >= l) /\ ~(h < h)
    BY <1>1, <2>1
  <2>3. EndsAt(d, g[<<l, h>>], l, h)
    BY <2>1, <2>2 DEF EndsAt
  <2> QED
    BY <1>4, <2>3
<1>8. CASE l <= h
  <2>1. mid \in l .. h
    BY <1>8, Middle
  <2> HIDE DEF mid, B
  <2>2. mid \in 1 .. NumToSwitch /\ Dist(mid) \in Nat
    BY <1>1, <2>1
  <2>3. CASE d < Dist(mid)
    <3>1. g[<<l, h>>] = g[<<l, mid - 1>>]
      BY <1>6, <1>8, <2>2, <2>3
    <3>2. EndsAt(d, g[<<l, mid - 1>>], l, mid - 1)
      <4>1. mid - 1 \in 0 .. NumToSwitch /\ l <= (mid - 1) + 1 /\ (mid - 1) - l + 1 < n
        BY <1>1, <1>4, <2>1, <2>2
      <4> QED
        BY <1>5, <4>1
    <3>3. ASSUME NEW m \in l .. mid - 1
          PROVE  m \in l .. h
      BY <1>1, <2>1
    <3>4. ASSUME NEW k \in l - 1 .. mid - 1, k < mid - 1 => d < Dist(k + 1)
          PROVE  k \in l - 1 .. h /\ (k < h => d < Dist(k + 1))
      <4>1. k \in l - 1 .. h
        BY <1>1, <2>1
      <4>2. CASE k < mid - 1
        BY <3>4, <4>1, <4>2
      <4>3. CASE k = mid - 1
        <5>1. k + 1 = mid
          BY <2>2, <4>3
        <5> QED
          BY <2>3, <4>1, <5>1
      <4> QED
        BY <2>2, <4>2, <4>3
    <3>5. EndsAt(d, g[<<l, h>>], l, h)
      BY <3>1, <3>2, <3>3, <3>4 DEF EndsAt
    <3> QED
      BY <1>4, <3>5
  <2>4. CASE d > Dist(mid)
    <3>1. g[<<l, h>>] = g[<<mid + 1, h>>]
      BY <1>6, <1>8, <2>2, <2>4
    <3>2. EndsAt(d, g[<<mid + 1, h>>], mid + 1, h)
      <4>1. mid + 1 \in 1 .. NumToSwitch + 1 /\ mid + 1 <= h + 1 /\ h - (mid + 1) + 1 < n
        BY <1>1, <1>4, <2>1, <2>2
      <4> QED
        BY <1>5, <4>1
    <3>3. ASSUME NEW m \in mid + 1 .. h
          PROVE  m \in l .. h
      BY <1>1, <2>1
    <3>4. ASSUME NEW k \in (mid + 1) - 1 .. h, k >= mid + 1 => Dist(k) < d
          PROVE  k \in l - 1 .. h /\ (k >= l => Dist(k) < d)
      <4>1. k \in l - 1 .. h
        BY <1>1, <2>1
      <4>2. CASE k >= mid + 1
        BY <3>4, <4>1, <4>2
      <4>3. CASE k = mid
        BY <2>2, <2>4, <4>1, <4>3
      <4> QED
        BY <2>2, <4>2, <4>3
    <3>5. EndsAt(d, g[<<l, h>>], l, h)
      BY <3>1, <3>2, <3>3, <3>4 DEF EndsAt
    <3> QED
      BY <1>4, <3>5
  <2>5. CASE d = Dist(mid)
    <3>1. g[<<l, h>>] = <<mid, mid>>
      BY <1>6, <1>8, <2>2, <2>5
    <3> QED
      BY <1>4, <2>1, <2>5, <3>1 DEF EndsAt
  <2> QED
    BY <2>2, <2>3, <2>4, <2>5
<1> QED
  BY <1>1, <1>7, <1>8

(* Where the binary search of switchTaskDistBased ends.                    *)
LEMMA SearchFinds ==
    ASSUME NEW d \in Nat
    PROVE  EndsAt(d, Search(d), 1, NumToSwitch)
<1> DEFINE g == CHOOSE g : g = [r \in Intervals |-> SearchFrom(d, g, r)]
<1>1. g = [r \in Intervals |-> SearchFrom(d, g, r)]
  BY SearchExists
<1>2. Search(d) = g[<<1, NumToSwitch>>]
  BY DEF Search, SearchFrom, Intervals, Dist
<1> HIDE DEF g
<1>3. 1 \in 1 .. NumToSwitch + 1 /\ NumToSwitch \in 0 .. NumToSwitch /\ 1 <= NumToSwitch + 1
  BY DistGrows
<1> QED
  BY <1>1, <1>2, <1>3, SearchEnds

(* The policy chosen for a distribution is one of SPConfig, and none of    *)
(* them is nearer.                                                         *)
LEMMA PolicyIsNearest ==
    ASSUME NEW d \in Nat, NumToSwitch > 0
    PROVE  /\ PolicyFor(d) \in ToSwitch
           /\ \A p \in ToSwitch : Distance(d, PolicyFor(d)) <= Distance(d, p)
<1> DEFINE Far(x) == IF d < x THEN x - d ELSE d - x
           At(k) == PolicyFor(d) = schedPoliciesToSwitch[k]
<1>1. NumToSwitch \in Nat /\ \A k \in 1 .. NumToSwitch : Dist(k) \in Nat
  BY DistGrows
<1>2. 1 \in 1 .. NumToSwitch /\ NumToSwitch \in 1 .. NumToSwitch
  BY <1>1
<1>3. \A j, k \in 1 .. NumToSwitch : j <= k => Dist(j) <= Dist(k)
  BY <1>1, DistGrows
<1>4. \E k \in 1 .. NumToSwitch :
        At(k) /\ \A j \in 1 .. NumToSwitch : Far(Dist(k)) <= Far(Dist(j))
  <2>1. CASE d < Dist(1)
    <3>1. At(1)
      BY <1>1, <2>1 DEF PolicyFor, PolicyAt, Dist
    <3>2. \A j \in 1 .. NumToSwitch : Far(Dist(1)) <= Far(Dist(j))
      BY <1>1, <1>2, <1>3, <2>1
    <3> QED
      BY <1>2, <3>1, <3>2
  <2>2. CASE ~(d < Dist(1)) /\ d > Dist(NumToSwitch)
    <3>1. At(NumToSwitch)
      BY <1>1, <2>2 DEF PolicyFor, PolicyAt, Dist
    <3>2. \A j \in 1 .. NumToSwitch : Far(Dist(NumToSwitch)) <= Far(Dist(j))
      BY <1>1, <1>2, <1>3, <2>2
    <3> QED
      BY <1>2, <3>1, <3>2
  <2>3. CASE ~(d < Dist(1)) /\ ~(d > Dist(NumToSwitch))
    <3> DEFINE q == Search(d)
    <3>1. PolicyFor(d) = schedPoliciesToSwitch[
                           IF Dist(q[1]) - d < d - Dist(q[2]) THEN q[1] ELSE q[2]]
      BY <1>1, <2>3 DEF PolicyFor, PolicyAt, Dist
    <3>2. EndsAt(d, q, 1, NumToSwitch)
      BY SearchFinds
    <3> HIDE DEF q
    <3>3. CASE \E m \in 1 .. NumToSwitch : q = <<m, m>> /\ Dist(m) = d
      <4>1. PICK m \in 1 .. NumToSwitch : q = <<m, m>> /\ Dist(m) = d
        BY <3>3
      <4>2. At(m)
        BY <3>1, <4>1
      <4>3. \A j \in 1 .. NumToSwitch : Far(Dist(m)) <= Far(Dist(j))
        BY <1>1, <4>1
      <4> QED
        BY <4>2, <4>3
    <3>4. CASE \E h \in 1 - 1 .. NumToSwitch : /\ q = <<h + 1, h>>
                                               /\ h >= 1 => Dist(h) < d
                                               /\ h < NumToSwitch => d < Dist(h + 1)
      <4>1. PICK h \in 0 .. NumToSwitch : /\ q = <<h + 1, h>>
                                          /\ h >= 1 => Dist(h) < d
                                          /\ h < NumToSwitch => d < Dist(h + 1)
        BY <3>4
      <4>2. h # 0
        BY <1>1, <2>3, <4>1
      <4>3. h # NumToSwitch
        BY <1>1, <1>2, <2>3, <4>1
      <4>4. /\ h \in 1 .. NumToSwitch /\ h + 1 \in 1 .. NumToSwitch
            /\ Dist(h) < d /\ d < Dist(h + 1)
        BY <1>1, <4>1, <4>2, <4>3
      <4>5. PICK x \in Nat, y \in Nat : x = Dist(h) /\ y = Dist(h + 1)
        BY <1>1, <4>4
      <4>6. \A j \in 1 .. NumToSwitch : Dist(j) \in Nat /\ (Dist(j) <= x \/ Dist(j) >= y)
        <5>1. ASSUME NEW j \in 1 .. NumToSwitch
              PROVE  Dist(j) <= x \/ Dist(j) >= y
          <6>1. j <= h \/ h + 1 <= j
            BY <1>1
          <6> QED
            BY <1>3, <4>4, <4>5, <6>1
        <5> QED
          BY <1>1, <5>1
      <4>7. CASE y - d < d - x
        <5>1. At(h + 1)
          BY <3>1, <4>1, <4>5, <4>7
        <5>2. \A j \in 1 .. NumToSwitch : Far(Dist(h + 1)) <= Far(Dist(j))
          BY <4>4, <4>5, <4>6, <4>7
        <5> QED
          BY <4>4, <5>1, <5>2
      <4>8. CASE ~(y - d < d - x)
        <5>1. At(h)
          BY <3>1, <4>1, <4>5, <4>8
        <5>2. \A j \in 1 .. NumToSwitch : Far(Dist(h)) <= Far(Dist(j))
          BY <4>4, <4>5, <4>6, <4>8
        <5> QED
          BY <4>4, <5>1, <5>2
      <4> QED
        BY <4>7, <4>8
    <3> QED
      BY <3>2, <3>3, <3>4 DEF EndsAt
  <2> QED
    BY <2>1, <2>2, <2>3
<1>5. PICK k \in 1 .. NumToSwitch :
        At(k) /\ \A j \in 1 .. NumToSwitch : Far(Dist(k)) <= Far(Dist(j))
  BY <1>4
<1>6. PolicyFor(d) \in ToSwitch
  BY <1>5, DistGrows
<1>7. ASSUME NEW p \in ToSwitch
      PROVE  Distance(d, PolicyFor(d)) <= Distance(d, p)
  <2>1. PICK j \in 1 .. NumToSwitch : schedPoliciesToSwitch[j] = p
    BY Ring
  <2>2. Distance(d, p) = Far(Dist(j)) /\ Distance(d, PolicyFor(d)) = Far(Dist(k))
    BY <1>5, <2>1 DEF Distance, Dist
  <2> HIDE DEF Far
  <2> QED
    BY <1>5, <2>2
<1> QED
  BY <1>6, <1>7

(* A distribution is a number: the heavy cluster has instances.            *)
LEMMA DistributionType ==
    ASSUME TypeOK, QueueHoldsPending, NEW size \in Nat \ {0}, NEW n, n = TasksInWindow(size),
           NEW clusters \in ClassifyTasks(n), clusters.heavy # {}
    PROVE  GetTaskDistributionInWindow(clusters, n, size) \in Nat
<1>1. PICK x, y : /\ x = getTotalInstances(clusters.light, n, size)
                  /\ y = getTotalInstances(clusters.heavy, n, size)
  OBVIOUS
<1>2. x \in Nat /\ y \in Nat /\ y > 0
  BY <1>1, ClusterInstances
<1>3. PICK u \in Nat : u = DistUnit
  BY SwitchAssumption
<1>4. ASSUME NEW b \in Nat, NEW c \in Nat
      PROVE  b * c \in Nat
  OBVIOUS
<1>5. PICK z \in Nat : z = x * u
  BY <1>2, <1>4
<1>6. z \div y \in Nat
  BY <1>2
<1> QED
  BY <1>1, <1>3, <1>5, <1>6 DEF GetTaskDistributionInWindow

(* What switchBasedOn and the flag for the first policy may select: one of *)
(* the policies, or none.                                                  *)
LEMMA NextPolicyType ==
    ASSUME TypeOK, QueueHoldsPending, schedPolSwitchCriteria \in SwitchCriteria,
           NEW size \in Nat \ {0}, NEW p \in NextPolicy(size)
    PROVE  /\ p \in Policy \cup {nil}
           /\ ToSwitch # {} /\ schedPolSwitchCriteria = "taskDist" => p \in Policy
           /\ /\ ToSwitch # {} /\ schedPolSwitchCriteria # "taskDist"
              /\ curSchedPolicy \in ToSwitch /\ nameOfFstSchedPolToDeploy \in ToSwitch \cup {nil}
              => p \in ToSwitch
<1>1. ToSwitch \subseteq Policy /\ nil \notin Policy /\ nameOfFstSchedPolToDeploy \in Policy \cup {nil}
      /\ "bin-packing" \in Policy
  BY ToSwitchType, SwitchAssumption DEF Policy
<1>2. CASE ~hasReceivedResourceOffers /\ nameOfFstSchedPolToDeploy # nil
  BY <1>1, <1>2 DEF NextPolicy
<1>3. CASE ~(~hasReceivedResourceOffers /\ nameOfFstSchedPolToDeploy # nil)
  <2>1. p \in switchBasedOn(size)
    BY <1>3 DEF NextPolicy
  <2>2. ASSUME NEW q \in ToSwitch
        PROVE  /\ nextPolicyName(q) \in ToSwitch /\ prevPolicyName(q) \in ToSwitch
               /\ PolicyAt(1) \in ToSwitch /\ PolicyAt(NumToSwitch) \in ToSwitch
               /\ NumToSwitch > 0
    BY RingNeighbours
  <2>3. ToSwitch = {} => NumToSwitch = 0 /\ PolicyAt(1) = nil /\ PolicyAt(NumToSwitch) = nil
    BY Ring, FS_EmptySet DEF PolicyAt
  <2>4. ASSUME NEW q, q \notin ToSwitch
        PROVE  nextPolicyName(q) = nil /\ prevPolicyName(q) = nil
    BY <2>4 DEF nextPolicyName, prevPolicyName
  <2>5. CASE schedPolSwitchCriteria = "taskDist"
    <3>1. PICK n : n = TasksInWindow(size) /\ p \in PoliciesForWindow(n, size)
      <4>1. p \in switchTaskDistBased(size)
        BY <2>1, <2>5 DEF switchBasedOn
      <4> QED
        BY <4>1 DEF switchTaskDistBased
    <3>2. \/ p = "bin-packing"
          \/ \E clusters \in ClassifyTasks(n) :
               /\ clusters.heavy # {}
               /\ p = IF NumToSwitch = 0 THEN nil
                      ELSE PolicyFor(GetTaskDistributionInWindow(clusters, n, size))
      BY <3>1 DEF PoliciesForWindow
    <3>3. CASE p = "bin-packing"
      BY <1>1, <2>5, <3>3
    <3>4. CASE \E clusters \in ClassifyTasks(n) :
                 /\ clusters.heavy # {}
                 /\ p = IF NumToSwitch = 0 THEN nil
                        ELSE PolicyFor(GetTaskDistributionInWindow(clusters, n, size))
      <4>1. PICK clusters \in ClassifyTasks(n) :
                 /\ clusters.heavy # {}
                 /\ p = IF NumToSwitch = 0 THEN nil
                        ELSE PolicyFor(GetTaskDistributionInWindow(clusters, n, size))
        BY <3>4
      <4>2. PICK d \in Nat : d = GetTaskDistributionInWindow(clusters, n, size)
        BY <3>1, <4>1, DistributionType
      <4>3. CASE NumToSwitch = 0
        BY <1>1, <2>2, <2>5, <4>1, <4>3
      <4>4. CASE NumToSwitch # 0
        <5>1. NumToSwitch > 0
          BY <4>4, DistGrows
        <5>2. PolicyFor(d) \in ToSwitch
          BY <5>1, PolicyIsNearest
        <5> QED
          BY <1>1, <2>5, <4>1, <4>2, <4>4, <5>2
      <4> QED
        BY <4>3, <4>4
    <3> QED
      BY <3>2, <3>3, <3>4
  <2>6. CASE schedPolSwitchCriteria = "round-robin"
    <3>1. p = IF ~hasReceivedResourceOffers THEN PolicyAt(1) ELSE nextPolicyName(curSchedPolicy)
      BY <2>1, <2>6 DEF switchBasedOn
    <3> QED
      BY <1>1, <2>2, <2>3, <2>4, <2>6, <3>1
  <2>7. CASE schedPolSwitchCriteria = "rev-round-robin"
    <3>1. p = IF ~hasReceivedResourceOffers THEN PolicyAt(NumToSwitch)
              ELSE prevPolicyName(curSchedPolicy)
      BY <2>1, <2>7 DEF switchBasedOn
    <3> QED
      BY <1>1, <2>2, <2>3, <2>4, <2>7, <3>1
  <2> QED
    BY <2>5, <2>6, <2>7, SwitchAssumption
<1> QED
  BY <1>2, <1>3

(* The window reaches into tasks of the queue.                             *)
LEMMA WindowType ==
    ASSUME TypeOK, QueueHoldsPending, toFixSchedWindow => numTasksInSchedWindow = 0,
           NEW unused, NEW window, window = NextWindow(unused)
    PROVE  window.size \in Nat /\ window.count \in 0 .. Len(tasks)
<1>1. Len(tasks) \in Nat
  BY InstType
<1>2. CASE toFixSchedWindow
  BY <1>1, <1>2 DEF NextWindow, TypeOK
<1>3. CASE ~toFixSchedWindow
  <2> DEFINE S == {0} \cup {k \in 1 .. Len(tasks) : CanSchedule(k, 0, unused)}
             whole == Max(S)
             T == {0} \cup {n \in 1 .. instances[tasks[whole + 1]] :
                              CanSchedule(whole, n, unused)}
             part == IF whole = Len(tasks) THEN 0 ELSE Max(T)
  <2>1. window = [size  |-> Need[whole].inst + part,
                  count |-> IF part > 0 THEN whole + 1 ELSE whole]
    BY <1>3 DEF NextWindow, FillNextOfferCycle
  <2>2. whole \in 0 .. Len(tasks)
    <3>1. PICK X : X = S
      OBVIOUS
    <3>2. X \in SUBSET Nat /\ X # {} /\ \A k \in X : k <= Len(tasks)
      BY <1>1, <3>1
    <3>3. Max(X) \in X
      BY <1>1, <3>2, MaxOf
    <3> QED
      BY <1>1, <3>1, <3>2, <3>3
  <2> HIDE DEF whole
  <2>3. part \in Nat /\ (whole = Len(tasks) => part = 0)
    <3>1. CASE whole = Len(tasks)
      BY <3>1
    <3>2. CASE whole # Len(tasks)
      <4>1. whole + 1 \in 1 .. Len(tasks)
        BY <1>1, <2>2, <3>2
      <4>2. PICK m \in Nat : m = instances[tasks[whole + 1]]
        BY <4>1, InstType
      <4>3. PICK X : X = T
        OBVIOUS
      <4>4. X \in SUBSET Nat /\ X # {} /\ \A k \in X : k <= m
        BY <4>2, <4>3
      <4>5. Max(X) \in X
        BY <4>4, MaxOf
      <4> HIDE DEF T
      <4> QED
        BY <3>2, <4>3, <4>4, <4>5
    <3> QED
      BY <3>1, <3>2
  <2> HIDE DEF part
  <2>4. Need[whole].inst \in Nat
    BY <2>2, NeedInst
  <2>5. window.size = Need[whole].inst + part /\ window.count = IF part > 0 THEN whole + 1 ELSE whole
    BY <2>1
  <2> QED
    BY <1>1, <2>2, <2>3, <2>4, <2>5
<1> QED
  BY <1>2, <1>3

(* SwitchIfNecessary: the window it leaves, the policy and the counters.   *)
LEMMA SwitchStep ==
    ASSUME BaseInv, NEW unused, SwitchIfNecessary(unused)
    PROVE  /\ schedWindowSize' \in Nat /\ numTasksInSchedWindow' \in Nat
           /\ schedPolSwitchEnabled => numTasksInSchedWindow' <= Len(tasks)
           /\ toFixSchedWindow => numTasksInSchedWindow' = 0
           /\ numTasksScheduled' \in [Policy -> Nat]
           /\ curSchedPolicy' = curSchedPolicy \/ \A p \in Policy : numTasksScheduled'[p] = 0
           /\ curSchedPolicy' = curSchedPolicy =>
                numTasksScheduled'[curSchedPolicy] <= schedWindowSize' \/ ~schedPolSwitchEnabled
           /\ \A p \in Policy : p # curSchedPolicy => numTasksScheduled'[p] = 0
           /\ curSchedPolicy' = curSchedPolicy
              \/ /\ schedPolSwitchEnabled
                 /\ \E size \in Nat \ {0} : curSchedPolicy' \in NextPolicy(size)
<1>1. /\ TypeOK /\ QueueHoldsPending /\ IdlePoliciesReset /\ WindowRespected
      /\ toFixSchedWindow => numTasksInSchedWindow = 0
  BY DEF BaseInv, IndInv, WindowInv
<1>2. PICK window : /\ window = NextWindow(unused)
                    /\ numTasksInSchedWindow' = WindowCount(window.count)
                    /\ IF schedPolSwitchEnabled /\ window.size > 0 /\ MustSwitch
                       THEN /\ schedWindowSize' = window.size
                            /\ curSchedPolicy' \in NextPolicy(window.size)
                            /\ numTasksScheduled' = ResetOldPolicy
                       ELSE UNCHANGED <<schedWindowSize, curSchedPolicy, numTasksScheduled>>
  BY DEF SwitchIfNecessary
<1>3. window.size \in Nat /\ window.count \in 0 .. Len(tasks) /\ Len(tasks) \in Nat
  BY <1>1, <1>2, WindowType, InstType
<1>4. /\ numTasksInSchedWindow \in Nat /\ schedWindowSize \in Nat /\ curSchedPolicy \in Policy
      /\ numTasksScheduled \in [Policy -> Nat]
  BY <1>1 DEF TypeOK
<1>5. /\ numTasksInSchedWindow' \in Nat
      /\ schedPolSwitchEnabled => numTasksInSchedWindow' <= Len(tasks)
      /\ toFixSchedWindow => numTasksInSchedWindow' = 0
  BY <1>1, <1>2, <1>3, <1>4 DEF WindowCount
<1>6. CASE schedPolSwitchEnabled /\ window.size > 0 /\ MustSwitch
  <2>1. /\ schedWindowSize' = window.size /\ window.size \in Nat \ {0}
        /\ curSchedPolicy' \in NextPolicy(window.size)
        /\ numTasksScheduled' = [numTasksScheduled EXCEPT ![curSchedPolicy] = 0]
    BY <1>2, <1>3, <1>6 DEF ResetOldPolicy
  <2>2. numTasksScheduled' \in [Policy -> Nat] /\ \A p \in Policy : numTasksScheduled'[p] = 0
    BY <1>1, <1>4, <2>1 DEF IdlePoliciesReset
  <2>3. numTasksScheduled'[curSchedPolicy] <= schedWindowSize'
    BY <1>3, <1>4, <2>1, <2>2
  <2> QED
    BY <1>5, <1>6, <2>1, <2>2, <2>3
<1>7. CASE ~(schedPolSwitchEnabled /\ window.size > 0 /\ MustSwitch)
  <2>1. UNCHANGED <<schedWindowSize, curSchedPolicy, numTasksScheduled>>
    BY <1>2, <1>7
  <2> QED
    BY <1>1, <1>4, <1>5, <2>1 DEF IdlePoliciesReset, WindowRespected
<1> QED
  BY <1>6, <1>7

(* RecordTotalResourceAvailability for the offers of the agents s: those   *)
(* new to the tracker have nothing on them yet.                            *)
LEMMA RecordStep ==
    ASSUME BaseInv, NEW s \in AgentBatch,
           perHostResourceAvailability' = RecordTotalResourceAvailability(OffersOf(s)),
           UNCHANGED <<placed, launched, packed, mesosVars, flagVars>>
    PROVE  /\ BaseTypes' /\ PlacedInv' /\ WithinCapacity' /\ AgreeInv'
           /\ \A k \in DOMAIN s : Known(s[k])'
<1> DEFINE os == OffersOf(s)
           from(a) == {k \in DOMAIN os : os[k].agent = a}
           r(a) == [cpu |-> os[Min(from(a))].cpus, ram |-> os[Min(from(a))].mem,
                    watts |-> os[Min(from(a))].watts]
<1>1. /\ TypeOK /\ PlacedInv /\ WithinCapacity /\ BaseTypes /\ AgreeInv
      /\ perHostResourceAvailability \in [Agent -> ResourceCount \cup {nil}]
      /\ nil \notin ResourceCount
  BY SwitchAssumption DEF BaseInv, IndInv, BaseTypes
<1>2. PICK n \in Nat : s \in [1 .. n -> Agent]
  BY PolicyAssumption DEF AgentBatch
<1>3. /\ DOMAIN os = 1 .. n /\ DOMAIN s = 1 .. n
      /\ \A k \in 1 .. n : /\ os[k] = FreeOffer(s[k]) /\ os[k].agent = s[k]
                           /\ s[k] \in Agent /\ os[k] \in Offer
  <2>1. DOMAIN os = 1 .. n /\ DOMAIN s = 1 .. n /\ \A k \in 1 .. n : os[k] = FreeOffer(s[k])
    BY <1>2 DEF OffersOf
  <2> HIDE DEF os
  <2> QED
    BY <1>1, <1>2, <2>1, FreeOfferType
<1>4. /\ perHostResourceAvailability' =
           [a \in Agent |-> IF perHostResourceAvailability[a] = nil /\ from(a) # {}
                            THEN [total |-> r(a), unused |-> r(a)]
                            ELSE perHostResourceAvailability[a]]
  BY DEF RecordTotalResourceAvailability
<1> HIDE DEF os
<1>5. ASSUME NEW a \in Agent, from(a) # {}
      PROVE  /\ r(a) = [cpu |-> FreeOffer(a).cpus, ram |-> FreeOffer(a).mem,
                        watts |-> FreeOffer(a).watts]
             /\ r(a) \in Resources
  <2>1. from(a) \in SUBSET (1 .. n) /\ from(a) \in SUBSET Nat
    BY <1>3
  <2>2. PICK X : X = from(a)
    OBVIOUS
  <2>3. Min(X) \in X
    BY <1>5, <2>1, <2>2, MinOf
  <2>4. PICK k \in 1 .. n : k = Min(from(a)) /\ os[k].agent = a
    BY <2>1, <2>2, <2>3
  <2>5. os[k] = FreeOffer(a) /\ os[k] \in OfferDef
    BY <1>3, <2>4, OfferAssumption
  <2>6. r(a) = [cpu |-> os[k].cpus, ram |-> os[k].mem, watts |-> os[k].watts]
    BY <2>4
  <2> HIDE DEF r
  <2> QED
    BY <2>5, <2>6 DEF Resources, OfferDef
<1> HIDE DEF from, r
<1>6. ASSUME NEW a \in Agent
      PROVE  /\ Known(a) => perHostResourceAvailability'[a] = perHostResourceAvailability[a]
             /\ ~Known(a) /\ from(a) # {} =>
                  /\ perHostResourceAvailability'[a] = [total |-> r(a), unused |-> r(a)]
                  /\ perHostResourceAvailability'[a] \in ResourceCount
             /\ ~Known(a) /\ from(a) = {} => perHostResourceAvailability'[a] = nil
  <2>1. perHostResourceAvailability'[a] =
          IF perHostResourceAvailability[a] = nil /\ from(a) # {}
          THEN [total |-> r(a), unused |-> r(a)] ELSE perHostResourceAvailability[a]
    BY <1>4
  <2>2. from(a) # {} => [total |-> r(a), unused |-> r(a)] \in ResourceCount
    BY <1>5 DEF ResourceCount
  <2> QED
    BY <2>1, <2>2 DEF Known
<1>7. perHostResourceAvailability' \in [Agent -> ResourceCount \cup {nil}]
  <2>1. \A a \in Agent : perHostResourceAvailability'[a] \in ResourceCount \cup {nil}
    BY <1>1, <1>6
  <2>2. DOMAIN perHostResourceAvailability' = Agent
        /\ perHostResourceAvailability' = [a \in Agent |-> perHostResourceAvailability'[a]]
    BY <1>4
  <2> QED
    BY <2>1, <2>2
<1>8. BaseTypes'
  BY <1>1, <1>7 DEF BaseTypes, flagVars
<1>9. ASSUME NEW a \in Agent
      PROVE  Known(a)' <=> Known(a) \/ from(a) # {}
  BY <1>1, <1>6 DEF Known
<1>10. \A k \in DOMAIN s : Known(s[k])'
  <2>1. ASSUME NEW k \in 1 .. n
        PROVE  Known(s[k])'
    <3>1. PICK a \in Agent : a = s[k]
      BY <1>3
    <3>2. k \in from(a)
      BY <1>3, <3>1 DEF from
    <3>3. perHostResourceAvailability'[a] # nil
      BY <1>9, <3>2 DEF Known
    <3>4. UNCHANGED s
      OBVIOUS
    <3> QED
      BY <3>1, <3>3 DEF Known
  <2> QED
    BY <1>3, <2>1
<1>11. PlacedInv'
  BY <1>1, <1>9 DEF PlacedInv, mesosVars
<1>12. WithinCapacity'
  BY <1>1 DEF WithinCapacity
<1>13. AgreeInv'
  <2>1. ASSUME NEW a \in Agent, Known(a)'
        PROVE  /\ perHostResourceAvailability'[a].unused.cpu =
                    Capacity[a].cpu - UsedCPU(placed[a]) + UsedCPU(Twice(a))
               /\ perHostResourceAvailability'[a].unused.ram =
                    Capacity[a].ram - UsedRAM(placed[a]) + UsedRAM(Twice(a))
    <3>1. CASE Known(a)
      BY <1>1, <1>6, <3>1 DEF AgreeInv
    <3>2. CASE ~Known(a)
      <4>1. perHostResourceAvailability'[a] = [total |-> r(a), unused |-> r(a)] /\ from(a) # {}
        BY <1>6, <1>9, <2>1, <3>2
      <4>2. placed[a] = {} /\ Twice(a) = {}
        BY <1>1, <3>2 DEF PlacedInv, Twice
      <4>3. UsedCPU({}) = 0 /\ UsedRAM({}) = 0
        BY SumEmpty DEF UsedCPU, UsedRAM
      <4>4. placed[a] \in SUBSET (Task \X Int) /\ IsFiniteSet(placed[a]) /\ Capacity[a] \in Usage
        BY <1>1, PlacedType
      <4>5. FreeOffer(a).cpus = Capacity[a].cpu - 0 /\ FreeOffer(a).mem = Capacity[a].ram - 0
        <5>1. /\ Free(a).cpu = Capacity[a].cpu - UsedCPU(placed[a])
              /\ Free(a).ram = Capacity[a].ram - UsedRAM(placed[a])
              /\ FreeOffer(a) = [agent |-> a, cpus |-> Free(a).cpu, mem |-> Free(a).ram,
                                 watts |-> Free(a).watts]
          BY <4>4, FreeIs
        <5>2. FreeOffer(a).cpus = Free(a).cpu /\ FreeOffer(a).mem = Free(a).ram
          BY <5>1
        <5>3. UsedCPU(placed[a]) = 0 /\ UsedRAM(placed[a]) = 0
          BY <4>2, <4>3
        <5> QED
          BY <5>1, <5>2, <5>3
      <4>6. /\ perHostResourceAvailability'[a].unused.cpu = FreeOffer(a).cpus
            /\ perHostResourceAvailability'[a].unused.ram = FreeOffer(a).mem
        BY <1>5, <4>1
      <4>7. Capacity[a].cpu \in Nat /\ Capacity[a].ram \in Nat
        BY <4>4 DEF Usage
      <4> QED
        BY <4>2, <4>3, <4>5, <4>6, <4>7
    <3> QED
      BY <3>1, <3>2
  <2> QED
    BY <2>1 DEF AgreeInv, Twice, mesosVars
<1> QED
  BY <1>8, <1>10, <1>11, <1>12, <1>13

(* The ResourceOffers callback keeps the invariant unless the switch left  *)
(* no policy.                                                              *)
LEMMA OffersStep ==
    ASSUME BaseInv, NEW s \in AgentBatch, ResourceOffersSwitching(OffersOf(s))
    PROVE  /\ BaseInv' \/ (pc' = "panic" /\ curSchedPolicy' = nil)
           /\ IdlePoliciesReset'
           /\ \/ curSchedPolicy' = curSchedPolicy
              \/ /\ schedPolSwitchEnabled
                 /\ \E size \in Nat \ {0} : curSchedPolicy' \in NextPolicy(size)
<1>1. /\ TypeOK /\ QueueHoldsPending /\ PlacedInv /\ WithinCapacity /\ IndInv
      /\ schedPolSwitchCriteria \in SwitchCriteria
  BY DEF BaseInv, IndInv, BaseTypes
<1>2. /\ pc = "idle" /\ pc' = (IF curSchedPolicy' = nil THEN "panic" ELSE "consume")
      /\ offers' = OffersOf(s)
      /\ perHostResourceAvailability' = RecordTotalResourceAvailability(OffersOf(s))
      /\ UNCHANGED <<queueVars, hasReceivedResourceOffers, scanVars, total, packed,
                     launched, placed, mesosVars, flagVars>>
  BY DEF ResourceOffersSwitching
<1>3. \E unused : SwitchIfNecessary(unused)
  BY DEF ResourceOffersSwitching
<1>4. /\ schedWindowSize' \in Nat /\ numTasksInSchedWindow' \in Nat
      /\ schedPolSwitchEnabled => numTasksInSchedWindow' <= Len(tasks)
      /\ toFixSchedWindow => numTasksInSchedWindow' = 0
      /\ numTasksScheduled' \in [Policy -> Nat]
      /\ curSchedPolicy' = curSchedPolicy \/ \A p \in Policy : numTasksScheduled'[p] = 0
      /\ curSchedPolicy' = curSchedPolicy =>
           numTasksScheduled'[curSchedPolicy] <= schedWindowSize' \/ ~schedPolSwitchEnabled
      /\ \A p \in Policy : p # curSchedPolicy => numTasksScheduled'[p] = 0
      /\ curSchedPolicy' = curSchedPolicy
         \/ /\ schedPolSwitchEnabled
            /\ \E size \in Nat \ {0} : curSchedPolicy' \in NextPolicy(size)
  BY <1>3, SwitchStep
<1>5. IdlePoliciesReset'
  BY <1>4 DEF IdlePoliciesReset
<1>6. curSchedPolicy' \in Policy \cup {nil}
  <2>1. CASE curSchedPolicy' = curSchedPolicy
    BY <1>1, <2>1 DEF TypeOK
  <2>2. CASE \E size \in Nat \ {0} : curSchedPolicy' \in NextPolicy(size)
    <3>1. PICK size \in Nat \ {0} : curSchedPolicy' \in NextPolicy(size)
      BY <2>2
    <3>2. PICK p \in NextPolicy(size) : p = curSchedPolicy'
      BY <3>1
    <3> QED
      BY <1>1, <3>2, NextPolicyType
  <2> QED
    BY <1>4, <2>1, <2>2
<1>7. CASE curSchedPolicy' = nil
  BY <1>2, <1>4, <1>5, <1>7
<1>8. CASE curSchedPolicy' # nil
  <2>1. curSchedPolicy' \in Policy /\ pc' = "consume"
    BY <1>2, <1>6, <1>8
  <2>2. BaseTypes' /\ PlacedInv' /\ WithinCapacity' /\ AgreeInv' /\ \A k \in DOMAIN s : Known(s[k])'
    BY <1>2, RecordStep
  <2>3. PICK n \in Nat : s \in [1 .. n -> Agent] /\ IsInjective(s)
    BY PolicyAssumption DEF AgentBatch
  <2>4. /\ DOMAIN offers' = 1 .. n
        /\ \A k \in 1 .. n : /\ offers'[k] = FreeOffer(s[k]) /\ offers'[k].agent = s[k]
                             /\ s[k] \in Agent /\ offers'[k] \in Offer
    <3>1. DOMAIN offers' = 1 .. n /\ \A k \in 1 .. n : offers'[k] = FreeOffer(s[k])
      BY <1>2, <2>3 DEF OffersOf
    <3> QED
      BY <1>1, <2>3, <3>1, FreeOfferType
  <2>5. offers' \in Seq(Offer) /\ Len(offers') = n
    <3>1. offers' = [k \in 1 .. n |-> offers'[k]]
      BY <1>2, <2>3 DEF OffersOf
    <3>2. offers' \in [1 .. n -> Offer]
      BY <2>4, <3>1
    <3> QED
      BY <2>4, <3>2
  <2>6. TypeOK'
    BY <1>1, <1>2, <1>4, <2>1, <2>5 DEF TypeOK, Pcs, queueVars, scanVars
  <2>7. QueueHoldsPending' /\ EachInstanceOnce' /\ ShutdownWhenDrained'
    BY <1>1, <1>2, QueueFrame
  <2>8. NeverOverpacked' /\ PositionInv' /\ ScanInv'
    <3>1. ScanInv
      BY <1>1 DEF IndInv
    <3> QED
      BY <1>2, <2>1, <3>1 DEF NeverOverpacked, PositionInv, MaxMinInv, ScanInv, InScan
  <2>9. IndInv'
    BY <2>6, <2>7, <2>8 DEF IndInv
  <2>10. OffersInv'
    <3>1. \A j \in 1 .. n : offers'[j].agent \in Agent
      BY <2>4
    <3>2. ASSUME NEW j \in 1 .. n, NEW a \in Agent, offers'[j].agent = a
          PROVE  Known(a)' /\ offers'[j] = FreeOffer(a)'
      <4>1. a = s[j] /\ offers'[j] = FreeOffer(a) /\ j \in DOMAIN s
        BY <2>3, <2>4, <3>2
      <4>2. perHostResourceAvailability'[s[j]] # nil
        BY <2>2, <4>1 DEF Known
      <4>3. Known(a)'
        BY <4>1, <4>2 DEF Known
      <4>4. FreeOffer(a)' = FreeOffer(a)
        BY <1>2, FreeFrame
      <4> QED
        BY <4>1, <4>3, <4>4
    <3>3. \A j, k \in 1 .. n : offers'[j].agent = offers'[k].agent => j = k
      BY <2>3, <2>4 DEF IsInjective
    <3> QED
      BY <2>1, <2>5, <3>1, <3>2, <3>3 DEF OffersInv
  <2>11. TotalInv'
    BY <2>1 DEF TotalInv, InScan
  <2>12. WindowInv'
    <3>1. WindowRespected'
      <4>1. CASE curSchedPolicy' = curSchedPolicy
        BY <1>4, <4>1 DEF WindowRespected
      <4>2. CASE \A p \in Policy : numTasksScheduled'[p] = 0
        BY <1>4, <2>1, <4>2 DEF WindowRespected
      <4> QED
        BY <1>4, <4>1, <4>2
    <3>2. WindowWithinQueue'
      BY <1>1, <1>2, <1>4 DEF WindowWithinQueue, SortLength, queueVars, TypeOK
    <3> QED
      BY <1>2, <1>4, <1>5, <3>1, <3>2 DEF WindowInv, flagVars
  <2> QED
    BY <1>4, <1>5, <2>2, <2>9, <2>10, <2>11, <2>12 DEF BaseInv
<1> QED
  BY <1>7, <1>8

(* It holds when the framework registers.                                  *)
LEMMA BaseInitInv ==
    ASSUME BaseInit
    PROVE  BaseInv
<1>1. PICK size \in Nat : InitWithWindow(size)
  <2>1. (IF toFixSchedWindow THEN FixedWindow ELSE 0) \in Nat
    BY SwitchAssumption
  <2> QED
    BY <2>1 DEF BaseInit
<1>2. IndInv
  BY <1>1, InitInv
<1>3. /\ pc = "idle" /\ offers = <<>> /\ packed = {} /\ launched = {}
      /\ numTasksScheduled = [p \in Policy |-> 0] /\ numTasksInSchedWindow = 0
      /\ curSchedPolicy \in Policy /\ schedWindowSize \in Nat
  BY <1>1, PolicyAssumption DEF InitWithWindow
<1>4. /\ \A a \in Agent : placed[a] = {} /\ ~Known(a)
      /\ placed \in [Agent -> SUBSET {}]
      /\ perHostResourceAvailability \in [Agent -> ResourceCount \cup {nil}]
      /\ unacknowledged = {} /\ redelivered = {}
  BY DEF BaseInit, TrackerInit, Known
<1>5. BaseTypes
  BY <1>4 DEF BaseTypes, BaseInit
<1>6. PlacedInv
  BY <1>3, <1>4, FS_EmptySet DEF PlacedInv
<1>7. WithinCapacity
  <2>1. ASSUME NEW a \in Agent
        PROVE  /\ UsedCPU({}) = 0 /\ UsedRAM({}) = 0 /\ UsedPower({}, a) = 0
               /\ Capacity[a].cpu \in Nat /\ Capacity[a].ram \in Nat /\ Capacity[a].watts \in Nat
    BY SumEmpty, SwitchAssumption DEF UsedCPU, UsedRAM, UsedPower, Usage
  <2> QED
    BY <1>4, <2>1 DEF WithinCapacity
<1>8. OffersInv
  BY <1>3 DEF OffersInv
<1>9. TotalInv /\ AgreeInv
  BY <1>3, <1>4 DEF TotalInv, AgreeInv, InScan
<1>10. WindowInv
  BY <1>3 DEF WindowInv, IdlePoliciesReset, WindowRespected, WindowWithinQueue
<1> QED
  BY <1>2, <1>5, <1>6, <1>7, <1>8, <1>9, <1>10 DEF BaseInv

------------------------------------------------------------------------------
(* THE SPECIFICATION                                                       *)

(* A step that changes nothing.                                            *)
LEMMA BaseFrame ==
    ASSUME BaseInv, UNCHANGED baseVars
    PROVE  BaseInv'
<1>1. UNCHANGED <<vars, trackerVars, mesosVars, flagVars>>
  BY DEF baseVars
<1>2. IndInv'
  BY <1>1, IndFrame DEF BaseInv
<1>3. BaseTypes' /\ PlacedInv' /\ WithinCapacity' /\ AgreeInv'
  BY <1>1 DEF BaseInv, BaseTypes, PlacedInv, WithinCapacity, AgreeInv, Twice, Known,
              trackerVars, mesosVars, flagVars, vars
<1>4. OffersInv'
  <2>1. ASSUME NEW a \in Agent
        PROVE  FreeOffer(a)' = FreeOffer(a)
    BY <1>1, FreeFrame DEF trackerVars
  <2> QED
    BY <1>1, <2>1 DEF BaseInv, OffersInv, Known, vars, trackerVars
<1>5. TotalInv'
  BY <1>1 DEF BaseInv, TotalInv, InScan, offer, vars
<1>6. WindowInv'
  BY <1>1 DEF BaseInv, WindowInv, IdlePoliciesReset, WindowRespected, WindowWithinQueue,
              SortLength, vars, queueVars, policyVars, flagVars
<1> QED
  BY <1>2, <1>3, <1>4, <1>5, <1>6 DEF BaseInv

(* A step of a policy leaves the choice of the policy alone, and nothing   *)
(* runs after a panic.                                                     *)
LEMMA ConsumeKeepsPolicy ==
    ASSUME Consume
    PROVE  curSchedPolicy' = curSchedPolicy /\ pc # "panic" /\ pc # "idle"
BY DEF Consume, ConsumeOffers, Return, DeclineNoPendingTasks, BeginOffer,
       FirstFitSkip, FirstFitTake, GreedyFatal, GreedySkip, GreedyPack, MaxFatal,
       MaxSkip, MaxPack, MaxNone, MaxMinFatal, MaxMinMismatch, MaxMinNoFit,
       MaxMinPack, LaunchPacked, DeclineInsufficientResources, Fatal, SkipUnchanged,
       Pack, Scanning, Packing, MaxMinScans, ScanOver, policyVars

(* The switch left no policy.                                              *)
Panicked == pc = "panic" /\ IdlePoliciesReset

(* Every step keeps the invariant or leaves no policy.                     *)
LEMMA BaseStep ==
    ASSUME BaseInv, [BaseNext]_baseVars
    PROVE  BaseInv' \/ (Panicked' /\ curSchedPolicy' = nil)
<1>1. ASSUME NEW s \in AgentBatch, ResourceOffersSwitching(OffersOf(s))
      PROVE  BaseInv' \/ (Panicked' /\ curSchedPolicy' = nil)
  BY <1>1, OffersStep DEF Panicked
<1>2. ASSUME NEW a \in Agent, NEW lost \in BOOLEAN, NEW x \in placed[a], StatusTerminal(x, a, lost)
      PROVE  BaseInv'
  BY <1>2, StatusTerminalStep
<1>3. ASSUME NEW u \in unacknowledged, StatusRedelivered(u[1], u[2])
      PROVE  BaseInv'
  BY <1>3, RedeliveredStep
<1>4. CASE UNCHANGED baseVars
  BY <1>4, BaseFrame
<1>5. CASE TrackedConsume
  BY <1>5, TrackedStep
<1> QED
  BY <1>1, <1>2, <1>3, <1>4, <1>5 DEF BaseNext

(* After a panic nothing happens.                                          *)
LEMMA PanicStep ==
    ASSUME pc = "panic", [BaseNext]_baseVars
    PROVE  UNCHANGED baseVars
BY ConsumeKeepsPolicy
DEF BaseNext, ResourceOffersSwitching, TrackedConsume, StatusTerminal, StatusRedelivered

Reached == BaseInv \/ Panicked

(* Every reachable state satisfies the inductive invariant or comes after  *)
(* a switch that left no policy.                                           *)
LEMMA BaseInvariance == BaseSpec => []Reached
<1>1. BaseInit => Reached
  BY BaseInitInv DEF Reached
<1>2. Reached /\ [BaseNext]_baseVars => Reached'
  <2>1. ASSUME Panicked, UNCHANGED baseVars PROVE Panicked'
    BY <2>1 DEF Panicked, IdlePoliciesReset, baseVars, vars, policyVars
  <2>2. Panicked => pc = "panic"
    BY DEF Panicked
  <2> QED
    BY <2>1, <2>2, BaseStep, PanicStep DEF Reached
<1> QED
  BY <1>1, <1>2, PTL DEF BaseSpec

(* Whatever the configuration, a policy that is not deployed has a counter *)
(* of zero: it starts its next window afresh.                              *)
THEOREM CountersReset == BaseSpec => []IdlePoliciesReset
<1>1. Reached => IdlePoliciesReset
  BY DEF Reached, Panicked, BaseInv, WindowInv
<1> QED
  BY <1>1, BaseInvariance, PTL

(* tasks[:n] stays within the queue whenever a policy sorts its window.    *)
THEOREM WindowFitsQueue == BaseSpec => []WindowWithinQueue
<1>1. Reached => WindowWithinQueue
  BY DEF Reached, Panicked, BaseInv, WindowInv, WindowWithinQueue
<1> QED
  BY <1>1, BaseInvariance, PTL

(* Between callbacks the tracker agrees with Mesos about what is left of   *)
(* every agent, but for the tasks it was told twice have ended.            *)
THEOREM TrackerCorrect == BaseSpec => []TrackerAgreesWithMesos
<1>1. Reached => TrackerAgreesWithMesos
  <2> SUFFICES ASSUME Reached, pc = "idle", NEW a \in Agent,
                      perHostResourceAvailability[a] # nil
               PROVE  LET twice == SumOf({u[1] : u \in {v \in redelivered : v[2] = a}})
                          unused == perHostResourceAvailability[a].unused
                      IN unused.cpu = Free(a).cpu + twice.cpu /\ unused.ram = Free(a).ram + twice.ram
    BY DEF TrackerAgreesWithMesos
  <2>1. TypeOK /\ PlacedInv /\ AgreeInv /\ Known(a)
    BY DEF Reached, Panicked, BaseInv, IndInv, Known
  <2>2. /\ placed[a] \in SUBSET (Task \X Int) /\ IsFiniteSet(placed[a])
        /\ Twice(a) \in SUBSET (Task \X Int) /\ IsFiniteSet(Twice(a))
    BY <2>1, PlacedType
  <2>3. /\ Free(a).cpu = Capacity[a].cpu - UsedCPU(placed[a])
        /\ Free(a).ram = Capacity[a].ram - UsedRAM(placed[a])
    BY <2>2, FreeIs
  <2>4. PICK ids : ids = Twice(a)
    OBVIOUS
  <2>5. SumOf(ids).cpu = UsedCPU(ids) /\ SumOf(ids).ram = UsedRAM(ids)
    BY <2>2, <2>4, SumOfIs
  <2>6. /\ perHostResourceAvailability[a].unused.cpu = Free(a).cpu + UsedCPU(Twice(a))
        /\ perHostResourceAvailability[a].unused.ram = Free(a).ram + UsedRAM(Twice(a))
    BY <2>1, <2>3 DEF AgreeInv
  <2> QED
    BY <2>4, <2>5, <2>6 DEF Twice
<1> QED
  BY <1>1, BaseInvariance, PTL

(* For every workload, class map and outcome of the clustering, the two    *)
(* clusters hold the instances of the window, the distribution never       *)
(* divides by zero and the heavy cluster is not the lighter one.           *)
THEOREM ClassificationCorrect == BaseSpec => []ClassificationSound
<1>1. Reached => ClassificationSound
  <2>1. CASE BaseInv
    BY <2>1, ClassificationHolds DEF BaseInv, IndInv
  <2>2. CASE Panicked
    BY <2>2 DEF Panicked, ClassificationSound
  <2> QED
    BY <2>1, <2>2 DEF Reached
<1> QED
  BY <1>1, BaseInvariance, PTL

(* For every set of distributions in SPConfig the binary search ends at    *)
(* the right neighbours: no policy is nearer than the one deployed.        *)
THEOREM NearestPolicyCorrect == BaseSpec => []NearestPolicyChosen
<1>1. NearestPolicyChosen
  <2>1. \A d \in Distributions : d \in Nat
    BY SwitchAssumption
  <2> QED
    BY <2>1, PolicyIsNearest DEF NearestPolicyChosen
<1> QED
  BY <1>1, PTL

(* With switching too, what the policies promise main and the status       *)
(* updates is what Dispatch says.                                          *)
THEOREM SwitchingRefinement == BaseSpec => DispatchRefined
<1>1. BaseInit => D!DispatchInit
  BY InitRefines DEF BaseInit
<1>2. Reached /\ Reached' /\ [BaseNext]_baseVars => [D!DispatchNext]_(D!dispatchVars)
  <2> SUFFICES ASSUME Reached, Reached', [BaseNext]_baseVars
               PROVE  [D!DispatchNext]_(D!dispatchVars)
    OBVIOUS
  <2>1. CASE UNCHANGED <<queueVars, packed, launched>>
    BY <2>1, DispatchFrame DEF queueVars
  <2>2. CASE TrackedConsume
    <3>1. Consume /\ BaseInv
      BY <2>2, ConsumeKeepsPolicy DEF TrackedConsume, Reached, Panicked
    <3>2. BaseInv'
      BY <2>2, <3>1, TrackedStep
    <3>3. IndInv /\ IndInv' /\ [Next]_vars
      BY <3>1, <3>2 DEF BaseInv, Next
    <3> QED
      BY <3>3, StepRefines
  <2>3. ASSUME NEW s \in AgentBatch, ResourceOffersSwitching(OffersOf(s))
        PROVE  UNCHANGED <<queueVars, packed, launched>>
    BY <2>3 DEF ResourceOffersSwitching
  <2>4. ASSUME NEW x, NEW a, NEW lost, StatusTerminal(x, a, lost)
        PROVE  UNCHANGED <<queueVars, packed, launched>>
    BY <2>4 DEF StatusTerminal, vars
  <2>5. ASSUME NEW x, NEW a, StatusRedelivered(x, a)
        PROVE  UNCHANGED <<queueVars, packed, launched>>
    BY <2>5 DEF StatusRedelivered, vars
  <2>6. ASSUME UNCHANGED baseVars
        PROVE  UNCHANGED <<queueVars, packed, launched>>
    BY <2>6 DEF baseVars, vars
  <2> QED
    BY <2>1, <2>2, <2>3, <2>4, <2>5, <2>6 DEF BaseNext
<1> QED
  BY <1>1, <1>2, BaseInvariance, PTL DEF BaseSpec, DispatchRefined, D!DispatchSpec

------------------------------------------------------------------------------
(* A configuration in which every switch finds a policy: some policy has a *)
(* taskDist, and where the next one is looked up by the name of the        *)
(* current one, the policies to start with have one too.                   *)
WellConfigured ==
    schedPolSwitchEnabled =>
      /\ ToSwitch # {}
      /\ \/ SwitchCriteria \subseteq {"taskDist"}
         \/ StartPolicies \subseteq ToSwitch /\ nameOfFstSchedPolToDeploy \in ToSwitch \cup {nil}

(* The policy of which the neighbour in the ring will be looked up is in   *)
(* the ring.                                                               *)
InRing ==
    schedPolSwitchEnabled /\ schedPolSwitchCriteria # "taskDist" => curSchedPolicy \in ToSwitch

(* Then the whole invariant holds in every reachable state.                *)
LEMMA ConfiguredInvariance == WellConfigured /\ BaseSpec => [](BaseInv /\ InRing)
<1> SUFFICES ASSUME WellConfigured PROVE BaseSpec => [](BaseInv /\ InRing)
  OBVIOUS
<1>1. BaseInit => BaseInv /\ InRing
  <2> SUFFICES ASSUME BaseInit PROVE InRing
    BY BaseInitInv
  <2> QED
    BY DEF BaseInit, InitWithWindow, InRing, WellConfigured
<1>2. BaseInv /\ InRing /\ [BaseNext]_baseVars => (BaseInv /\ InRing)'
  <2> SUFFICES ASSUME BaseInv, InRing, [BaseNext]_baseVars PROVE (BaseInv /\ InRing)'
    OBVIOUS
  <2>1. TypeOK /\ QueueHoldsPending /\ schedPolSwitchCriteria \in SwitchCriteria
        /\ nil \notin Policy /\ ToSwitch \subseteq Policy
    BY SwitchAssumption, ToSwitchType DEF BaseInv, IndInv, BaseTypes
  <2>2. CASE curSchedPolicy' = curSchedPolicy /\ UNCHANGED flagVars
    <3>1. InRing'
      BY <2>2 DEF InRing, flagVars
    <3>2. curSchedPolicy' # nil
      BY <2>1, <2>2 DEF TypeOK
    <3> QED
      BY <3>1, <3>2, BaseStep
  <2>3. ASSUME NEW size \in Nat \ {0}, schedPolSwitchEnabled, UNCHANGED flagVars,
               curSchedPolicy' \in NextPolicy(size)
        PROVE  (BaseInv /\ InRing)'
    <3>1. PICK p \in NextPolicy(size) : p = curSchedPolicy'
      BY <2>3
    <3>2. /\ schedPolSwitchCriteria = "taskDist" => p \in Policy
          /\ schedPolSwitchCriteria # "taskDist" => p \in ToSwitch
      <4>1. ToSwitch # {}
        BY <2>3 DEF WellConfigured
      <4>2. schedPolSwitchCriteria # "taskDist" =>
              curSchedPolicy \in ToSwitch /\ nameOfFstSchedPolToDeploy \in ToSwitch \cup {nil}
        BY <2>1, <2>3 DEF WellConfigured, InRing
      <4> QED
        BY <2>1, <4>1, <4>2, NextPolicyType
    <3>3. curSchedPolicy' # nil
      BY <2>1, <3>1, <3>2
    <3>4. InRing'
      BY <2>3, <3>1, <3>2 DEF InRing, flagVars
    <3> QED
      BY <3>3, <3>4, BaseStep
  <2>4. ASSUME NEW s \in AgentBatch, ResourceOffersSwitching(OffersOf(s))
        PROVE  (BaseInv /\ InRing)'
    <3>1. UNCHANGED flagVars
      BY <2>4 DEF ResourceOffersSwitching
    <3>2. \/ curSchedPolicy' = curSchedPolicy
          \/ /\ schedPolSwitchEnabled
             /\ \E size \in Nat \ {0} : curSchedPolicy' \in NextPolicy(size)
      BY <2>4, OffersStep
    <3> QED
      BY <2>2, <2>3, <3>1, <3>2
  <2>5. ASSUME TrackedConsume
        PROVE  curSchedPolicy' = curSchedPolicy /\ UNCHANGED flagVars
    BY <2>5, ConsumeKeepsPolicy DEF TrackedConsume
  <2>6. ASSUME NEW x, NEW a, NEW lost, StatusTerminal(x, a, lost)
        PROVE  curSchedPolicy' = curSchedPolicy /\ UNCHANGED flagVars
    BY <2>6 DEF StatusTerminal, vars, policyVars
  <2>7. ASSUME NEW x, NEW a, StatusRedelivered(x, a)
        PROVE  curSchedPolicy' = curSchedPolicy /\ UNCHANGED flagVars
    BY <2>7 DEF StatusRedelivered, vars, policyVars
  <2>8. ASSUME UNCHANGED baseVars
        PROVE  curSchedPolicy' = curSchedPolicy /\ UNCHANGED flagVars
    BY <2>8 DEF baseVars, vars, policyVars
  <2> QED
    BY <2>2, <2>4, <2>5, <2>6, <2>7, <2>8 DEF BaseNext
<1> QED
  BY <1>1, <1>2, PTL DEF BaseSpec

(* So the scheduler always has a policy: the panic that the run no_policy  *)
(* shows takes a configuration that is not well formed.                    *)
THEOREM PolicyAlwaysSelected == WellConfigured /\ BaseSpec => []AlwaysAPolicy
<1>1. BaseInv => AlwaysAPolicy
  BY SwitchAssumption DEF BaseInv, IndInv, TypeOK, AlwaysAPolicy
<1> QED
  BY <1>1, ConfiguredInvariance, PTL

(* Every variable keeps its type.                                          *)
THEOREM BaseTypeCorrect == WellConfigured /\ BaseSpec => []BaseTypeOK
<1>1. BaseInv => BaseTypeOK
  <2> SUFFICES ASSUME BaseInv PROVE BaseTypeOK
    OBVIOUS
  <2>1. TypeOK /\ BaseTypes /\ PlacedInv
    BY DEF BaseInv, IndInv
  <2>2. launched \subseteq Task \X Int
    BY <2>1 DEF TypeOK
  <2> QED
    BY <2>1, <2>2 DEF BaseTypeOK, BaseTypes, PlacedInv
<1> QED
  BY <1>1, ConfiguredInvariance, PTL

(* "The next scheduling policy will schedule at max schedWindowSize number *)
(* of tasks", in whatever number of offers and callbacks, whatever the     *)
(* sizes of the windows.                                                   *)
THEOREM WindowNeverExceeded == WellConfigured /\ BaseSpec => []WindowRespected
<1>1. BaseInv => WindowRespected
  BY DEF BaseInv, WindowInv
<1> QED
  BY <1>1, ConfiguredInvariance, PTL
==============================================================================
