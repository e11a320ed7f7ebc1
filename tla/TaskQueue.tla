------------------------------ MODULE TaskQueue ------------------------------
(***************************************************************************)
(* The data the scheduling policies work on: task definitions              *)
(* (def/task.go), the queue of pending tasks and its sorting               *)
(* (def/taskUtils.go, schedulers/helpers.go), and what the policies read   *)
(* from a Mesos offer (utilities/offerUtils).  Constant operators only;    *)
(* the state that uses them is declared in SchedPolicies.                  *)
(***************************************************************************)
EXTENDS Integers, Sequences, FiniteSets, Functions

CONSTANTS
    Task,             \* names of the tasks in the workload
    Agent,            \* Mesos agents (an agent has one hostname)
    PowerClass,       \* values of an agent's "class" attribute
    Def,              \* Def[t]: the fields of the task's JSON definition
    ClassOf,          \* ClassOf[a]: the agent's power class
    Offer,            \* the resource offers Mesos may make
    nil,              \* Go's nil
    wattsAsAResource, \* flag -wattsAsAResource
    classMapWatts     \* flag -classMapWatts

(* A task definition.  Host is the set of agents whose hostname has        *)
(* task.Host as a prefix: all of them when task.Host is the empty string.  *)
TaskDef == [CPU: Nat, RAM: Nat, Watts: Nat, Instances: Nat \ {0},
            Host: SUBSET Agent, ClassToWatts: [PowerClass -> Nat] \cup {nil}]

(* An offer, already aggregated by OfferAgg over its list of resources.    *)
OfferDef == [agent: Agent, cpus: Nat, mem: Nat, watts: Nat]

ASSUME TaskAssumption ==
    /\ IsFiniteSet(Task) /\ Task # {}
    /\ Def \in [Task -> TaskDef]
    /\ nil \notin [PowerClass -> Nat]

ASSUME OfferAssumption ==
    /\ Offer \subseteq OfferDef
    /\ ClassOf \in [Agent -> PowerClass]

ASSUME FlagAssumption ==
    /\ wattsAsAResource \in BOOLEAN
    /\ classMapWatts \in BOOLEAN
    /\ classMapWatts => wattsAsAResource   \* main reads the flag only then

(* One launched instance: newTask names it <task>-<*Instances>.            *)
TaskID == {<<t, n>> : t \in Task, n \in Nat \ {0}}

------------------------------------------------------------------------------
HostMismatch(o, t) == o.agent \notin Def[t].Host

UsesClassMap(t) == classMapWatts /\ Def[t].ClassToWatts # nil

(* The error WattsToConsider returns: no power information for the task.   *)
WattsError(t) == ~UsesClassMap(t) /\ Def[t].Watts = 0

WattsToConsider(t, o) ==
    IF UsesClassMap(t) THEN Def[t].ClassToWatts[ClassOf[o.agent]]
                       ELSE Def[t].Watts

(* What the tasks already packed into an offer use of it.                  *)
Usage == [cpu: Nat, ram: Nat, watts: Nat]

NoUsage == [cpu |-> 0, ram |-> 0, watts |-> 0]

(* Mutant: the RAM of the task is taken from the total, not added.         *)
UsingSubtracts(total, t, o) == [cpu   |-> total.cpu + Def[t].CPU,
                                ram   |-> total.ram - Def[t].RAM,
                                watts |-> total.watts + WattsToConsider(t, o)]

Using(total, t, o) == [cpu   |-> total.cpu + Def[t].CPU,
                       ram   |-> total.ram + Def[t].RAM,
                       watts |-> total.watts + WattsToConsider(t, o)]

WithinOffer(total, o) ==
    /\ total.cpu <= o.cpus
    /\ total.ram <= o.mem
    /\ wattsAsAResource => total.watts <= o.watts

(* Mutant: the tasks already packed into the offer are forgotten.          *)
takeOfferIgnoringTotals(t, o, total) == WithinOffer(Using(NoUsage, t, o), o)

takeOffer(t, o, total) == WithinOffer(Using(total, t, o), o)

------------------------------------------------------------------------------
(* append(tasks[:k], tasks[k+1:]...): the queue without its k-th task.     *)
Without(q, k) == [j \in 1 .. Len(q) - 1 |-> IF j < k THEN q[j] ELSE q[j + 1]]

InWattsOrder(q, n) ==
    \A j, k \in 1 .. n : j < k => Def[q[j]].Watts <= Def[q[k]].Watts

PermutationsFixingTail(q, n) ==
    {r \in [1 .. Len(q) -> Range(q)] :
        /\ IsInjective(r)
        /\ Range(r) = Range(q)
        /\ \A j \in (n + 1) .. Len(q) : r[j] = q[j]}

(* Mutant: the sort stops one task short of the window.                    *)
SortOneShort(q, n) == {r \in PermutationsFixingTail(q, n) : InWattsOrder(r, n - 1)}

(* SortTasks(tasks[:n], SortByWatts).  The comparison is <= , no strict    *)
(* order, so sort.SliceStable leaves tasks of equal watts in any order:    *)
(* the operator is the set of all queues the call may leave.               *)
SortNTasks(q, n) == {r \in PermutationsFixingTail(q, n) : InWattsOrder(r, n)}
==============================================================================
