---------------------------- MODULE BaseScheduler ----------------------------
(***************************************************************************)
(* The ResourceOffers callback with scheduling-policy switching            *)
(* (schedulers/schedPolicy.go, utilities/schedUtils): the tracker records  *)
(* the offers, the window calculator sizes the next window from what the   *)
(* tracker says is unused, and when the current policy has scheduled its   *)
(* window another policy is selected; then the policy consumes the offers  *)
(* (SchedPolicies).  Terminal status updates give resources back.  Mesos   *)
(* (external) offers an agent's free resources and runs what is launched.  *)
(***************************************************************************)
EXTENDS SchedPolicies, ResourceTracker

CONSTANTS
    Capacity,              \* Capacity[a]: the resources of the agent
    TaskDist,              \* TaskDist[p]: SPConfig's taskDist, 0 if absent
    DistUnit,              \* a distribution of 1.0, in the unit of TaskDist
    Distributions,         \* distributions PolicyFor is checked on
    SwitchCriteria,        \* the -schedPolSwitchCriteria considered
    nameOfFstSchedPolToDeploy,   \* a policy, or nil
    WindowModes,           \* the -fixSchedWindow considered
    FixedWindow,           \* flag -schedWindowSize
    MaxRedeliveries        \* bound: terminal updates Mesos delivers again

ASSUME SwitchAssumption ==
    /\ IsFiniteSet(Agent) /\ Agent # {} /\ IsFiniteSet(PowerClass)
    /\ nil \notin Policy /\ nil \notin ResourceCount
    /\ Capacity \in [Agent -> Usage]
    /\ \A a \in Agent :                       \* Mesos may offer any part of an agent
         [agent: {a}, cpus: 0 .. Capacity[a].cpu, mem: 0 .. Capacity[a].ram,
          watts: 0 .. Capacity[a].watts] \subseteq Offer
    /\ TaskDist \in [Policy -> Nat]
    /\ \A p, r \in Policy :                   \* the order of equal ones is random
         TaskDist[p] = TaskDist[r] /\ p # r => TaskDist[p] = 0
    /\ DistUnit \in Nat \ {0} /\ Distributions \subseteq Nat
    /\ \A n \in 1 .. SumFunction([t \in Task |-> Def[t].Instances]) : DistUnit % n = 0
    /\ SwitchCriteria \subseteq {"taskDist", "round-robin", "rev-round-robin"}
    /\ nameOfFstSchedPolToDeploy \in Policy \cup {nil}
    /\ WindowModes \subseteq BOOLEAN
    /\ FixedWindow \in Nat \ {0}
    /\ MaxRedeliveries \in Nat

VARIABLES
    placed,                \* placed[a]: instances Mesos has on the agent
    unacknowledged,        \* terminal updates Mesos will deliver again
    redelivered,           \* and those it has delivered again
    schedPolSwitchCriteria, toFixSchedWindow   \* set once, from the flags

trackerVars == <<perHostResourceAvailability, placed>>
mesosVars == <<unacknowledged, redelivered>>
flagVars == <<schedPolSwitchCriteria, toFixSchedWindow>>
baseVars == <<vars, trackerVars, mesosVars, flagVars>>

------------------------------------------------------------------------------
(* InitSchedPolicyCharacteristics: the policies with a taskDist, sorted by *)
(* it, each linked to the next and the previous one in a ring.             *)
ToSwitch == {p \in Policy : TaskDist[p] # 0}

schedPoliciesToSwitch ==
    CHOOSE s \in [1 .. Cardinality(ToSwitch) -> ToSwitch] :
        \A j, k \in DOMAIN s : j < k => TaskDist[s[j]] < TaskDist[s[k]]

NumToSwitch == Len(schedPoliciesToSwitch)

(* Go reads a missing entry of the map as the empty name, which names no   *)
(* policy: nil.                                                            *)
PolicyAt(k) == IF NumToSwitch = 0 THEN nil ELSE schedPoliciesToSwitch[k]

nextPolicyName(p) ==
    IF p \notin ToSwitch THEN nil
    ELSE LET k == CHOOSE k \in 1 .. NumToSwitch : schedPoliciesToSwitch[k] = p
         IN schedPoliciesToSwitch[(k % NumToSwitch) + 1]

prevPolicyName(p) ==
    IF p \notin ToSwitch THEN nil
    ELSE LET k == CHOOSE k \in 1 .. NumToSwitch : schedPoliciesToSwitch[k] = p
         IN schedPoliciesToSwitch[IF k = 1 THEN NumToSwitch ELSE k - 1]

(* The binary search of switchTaskDistBased, from the pair r of low and    *)
(* high to the one it ends with: equal if the distribution was found,      *)
(* low = high + 1 otherwise.                                               *)
Search(d) ==
    LET dist(k) == TaskDist[schedPoliciesToSwitch[k]]
        search[r \in (1 .. NumToSwitch + 1) \X (0 .. NumToSwitch)] ==
            IF r[1] > r[2] THEN r
            ELSE LET mid == (r[1] + r[2] - 2) \div 2 + 1
                 IN CASE d < dist(mid) -> search[<<r[1], mid - 1>>]
                      [] d > dist(mid) -> search[<<mid + 1, r[2]>>]
                      [] OTHER -> <<mid, mid>>
    IN search[<<1, NumToSwitch>>]

(* Mutant: the nearer neighbour is taken from the wrong side.              *)
FartherPolicy(d) ==
    LET dist(k) == TaskDist[schedPoliciesToSwitch[k]]
    IN IF d < dist(1) THEN PolicyAt(1)
       ELSE IF d > dist(NumToSwitch) THEN PolicyAt(NumToSwitch)
       ELSE LET r == Search(d)
            IN PolicyAt(IF dist(r[1]) - d < d - dist(r[2]) THEN r[2] ELSE r[1])

(* switchTaskDistBased once the distribution d is known.                   *)
PolicyFor(d) ==
    LET dist(k) == TaskDist[schedPoliciesToSwitch[k]]
    IN IF d < dist(1) THEN PolicyAt(1)
       ELSE IF d > dist(NumToSwitch) THEN PolicyAt(NumToSwitch)
       ELSE LET r == Search(d)
            IN PolicyAt(IF dist(r[1]) - d < d - dist(r[2]) THEN r[1] ELSE r[2])

(* Need[k]: what all instances of the first k tasks of the queue need.     *)
Need == [k \in 0 .. Len(tasks) |->
    [cpu  |-> SumFunction([j \in 1 .. k |-> instances[tasks[j]] * Def[tasks[j]].CPU]),
     ram  |-> SumFunction([j \in 1 .. k |-> instances[tasks[j]] * Def[tasks[j]].RAM]),
     inst |-> SumFunction([j \in 1 .. k |-> instances[tasks[j]]])]]

(* taskObservationCalculator.  The watts of a class map are observed in    *)
(* the random order of Go's iteration over a map, so that only tasks with  *)
(* a single watts value are sure to have the same observation.             *)
SameObservation(t, u) ==
    /\ Def[t].ClassToWatts = nil /\ Def[u].ClassToWatts = nil
    /\ Def[t].Watts = Def[u].Watts

(* The r-th smallest of the watts in a class map.                          *)
RankedWatts(watts, r) ==
    Min({v \in Range(watts) : Cardinality({c \in DOMAIN watts : watts[c] <= v}) >= r})

(* stats.Median (external) of the observations, twice over: the sum of the *)
(* two in the middle, which may be one and the same.                       *)
MMMPU == [t \in Task |->
    IF Def[t].ClassToWatts = nil THEN 2 * Def[t].Watts
    ELSE LET watts == Def[t].ClassToWatts
             n == Cardinality(DOMAIN watts)
         IN RankedWatts(watts, (n + 1) \div 2) + RankedWatts(watts, n \div 2 + 1)]

(* getTasksInWindow: how many tasks of the queue hold size instances.      *)
TasksInWindow(size) ==
    Min({Len(tasks)} \cup {k \in 1 .. Len(tasks) : Need[k].inst >= size})

(* gokmeans (external): which of two clusters each of the first n tasks of *)
(* the queue is nearest to.  What has the same observation is in the same  *)
(* one, nothing else is certain: the first centroids are chosen at random. *)
(* It does not train on fewer observations than clusters.                  *)
Clusterings(n) ==
    IF n < 2 THEN {}
    ELSE {c \in [1 .. n -> {0, 1}] : \A j, k \in 1 .. n :
            SameObservation(tasks[j], tasks[k]) => c[j] = c[k]}

Cluster(c, l) == {k \in DOMAIN c : c[k] = l}

(* clusterSizeAvgMMMPU before the division by the number of tasks.         *)
TotalMMMPU(ks) == SumFunction([k \in ks |-> MMMPU[tasks[k]]])

(* The averages of the two clusters compared.  That of an empty cluster is *)
(* NaN, with which no comparison holds; neither does this one, both sides  *)
(* being zero.                                                             *)
FirstIsHeavier(c) ==
    TotalMMMPU(Cluster(c, 0)) * Cardinality(Cluster(c, 1)) >
    TotalMMMPU(Cluster(c, 1)) * Cardinality(Cluster(c, 0))

(* labelAndOrder: the light power consuming tasks and the heavy ones.      *)
labelAndOrder(c) ==
    IF FirstIsHeavier(c) THEN [light |-> Cluster(c, 1), heavy |-> Cluster(c, 0)]
                         ELSE [light |-> Cluster(c, 0), heavy |-> Cluster(c, 1)]

(* Mutant: the instances beyond the window are counted.                    *)
getTotalInstancesAll(ks, n, size) ==
    SumFunction([k \in ks |-> instances[tasks[k]]])

(* getTotalInstances: the n-th task's instances beyond the window are not  *)
(* counted.                                                                *)
getTotalInstances(ks, n, size) ==
    SumFunction([k \in ks |-> instances[tasks[k]]])
      - (IF n \in ks THEN Max({0, Need[n].inst - size}) ELSE 0)

(* GetTaskDistributionInWindow for a window of which the first n tasks     *)
(* hold the instances, given their light and their heavy cluster.          *)
GetTaskDistributionInWindow(clusters, n, size) ==
    (getTotalInstances(clusters.light, n, size) * DistUnit)
      \div getTotalInstances(clusters.heavy, n, size)

(* ClassifyTasks: the clusters the first n tasks of the queue may form.    *)
ClassifyTasks(n) == {labelAndOrder(c) : c \in Clusterings(n)}

(* With one cluster only, the error that selects bin-packing.              *)
PoliciesForWindow(n, size) ==
    LET dists == {GetTaskDistributionInWindow(clusters, n, size) :
                    clusters \in {cl \in ClassifyTasks(n) : cl.heavy # {}}}
    IN (IF n < 2 \/ \E cl \in ClassifyTasks(n) : cl.heavy = {}
        THEN {"bin-packing"} ELSE {})
       \cup {IF NumToSwitch = 0 THEN nil ELSE PolicyFor(d) : d \in dists}

switchTaskDistBased(size) ==
    UNION {PoliciesForWindow(n, size) : n \in {TasksInWindow(size)}}

switchBasedOn(size) ==
    CASE schedPolSwitchCriteria = "taskDist" -> switchTaskDistBased(size)
      [] schedPolSwitchCriteria = "round-robin" ->
            {IF ~hasReceivedResourceOffers THEN PolicyAt(1)
             ELSE nextPolicyName(curSchedPolicy)}
      [] OTHER ->
            {IF ~hasReceivedResourceOffers THEN PolicyAt(NumToSwitch)
             ELSE prevPolicyName(curSchedPolicy)}

------------------------------------------------------------------------------
(* The first k tasks and n instances of the next one fit.                  *)
CanSchedule(k, n, unused) ==
    /\ Need[k].cpu + (IF n = 0 THEN 0 ELSE n * Def[tasks[k + 1]].CPU) <= unused.cpu
    /\ Need[k].ram + (IF n = 0 THEN 0 ELSE n * Def[tasks[k + 1]].RAM) <= unused.ram

(* The window calculator, fillNextOfferCycle: walk the queue in order and  *)
(* count the instances that fit, all together, into the unused resources   *)
(* of the whole cluster, up to the first that does not.  The size counts   *)
(* instances, the count the tasks the window reaches into.                 *)
FillNextOfferCycle(unused) ==
    LET whole == Max({0} \cup {k \in 1 .. Len(tasks) : CanSchedule(k, 0, unused)})
        part  == IF whole = Len(tasks) THEN 0
                 ELSE Max({0} \cup {n \in 1 .. instances[tasks[whole + 1]] :
                                      CanSchedule(whole, n, unused)})
    IN [size  |-> Need[whole].inst + part,
        count |-> IF part > 0 THEN whole + 1 ELSE whole]

(* A fixed window stays as it is.                                          *)
NextWindow(unused) ==
    IF toFixSchedWindow
    THEN [size |-> schedWindowSize, count |-> numTasksInSchedWindow]
    ELSE FillNextOfferCycle(unused)

(* The current policy's window is over, or there was none yet.             *)
MustSwitch ==
    \/ ~hasReceivedResourceOffers
    \/ numTasksScheduled[curSchedPolicy] >= schedWindowSize

NextPolicy(size) ==
    IF ~hasReceivedResourceOffers /\ nameOfFstSchedPolToDeploy # nil
    THEN {nameOfFstSchedPolToDeploy} ELSE switchBasedOn(size)

(* Mutant: the policy that takes over is the one reset.                    *)
ResetNewPolicy == [numTasksScheduled EXCEPT ![curSchedPolicy'] = 0]

(* Mutant: no counter is reset.                                            *)
ResetForgotten == numTasksScheduled

(* The counter of the policy switched from starts again at zero.           *)
ResetOldPolicy == [numTasksScheduled EXCEPT ![curSchedPolicy] = 0]

(* Mutant: the number of tasks in the window is only set by a switch.      *)
StaleWindowCount(n) ==
    IF schedPolSwitchEnabled /\ ~toFixSchedWindow /\ MustSwitch
    THEN n ELSE numTasksInSchedWindow

(* The number of tasks in the window, set on every callback.               *)
WindowCount(n) ==
    IF schedPolSwitchEnabled /\ ~toFixSchedWindow
    THEN n ELSE numTasksInSchedWindow

(* SwitchIfNecessary, given what the tracker says is unused.               *)
SwitchIfNecessary(unused) ==
    \E window \in {NextWindow(unused)} :
        /\ numTasksInSchedWindow' = WindowCount(window.count)
        /\ IF schedPolSwitchEnabled /\ window.size > 0 /\ MustSwitch
           THEN /\ schedWindowSize' = window.size
                /\ \E size \in {window.size} : curSchedPolicy' \in NextPolicy(size)
                /\ numTasksScheduled' = ResetOldPolicy
           ELSE UNCHANGED <<schedWindowSize, curSchedPolicy, numTasksScheduled>>

(* The callback up to curSchedPolicy.ConsumeOffers, which panics when the  *)
(* switch left no policy.                                                  *)
ResourceOffersSwitching(os) ==
    /\ pc = "idle"
    /\ perHostResourceAvailability' = RecordTotalResourceAvailability(os)
    /\ \E unused \in {Clusterwide(perHostResourceAvailability')} : SwitchIfNecessary(unused)
    /\ pc' = IF curSchedPolicy' = nil THEN "panic" ELSE "consume"
    /\ offers' = os
    /\ UNCHANGED <<queueVars, hasReceivedResourceOffers, scanVars, total, packed,
                   launched, placed, mesosVars, flagVars>>

(* A step of ConsumeOffers; LaunchTasks tells the driver and the tracker.  *)
TrackedConsume ==
    /\ Consume
    /\ UNCHANGED <<mesosVars, flagVars>>
    /\ LET ids == launched' \ launched
       IN IF ids = {} THEN UNCHANGED trackerVars
          ELSE /\ OnTaskActive(ids, offer.agent)
               /\ placed' = [placed EXCEPT ![offer.agent] = @ \cup ids]

(* StatusUpdate with a terminal state: Mesos reports the end of x on a.    *)
(* The acknowledgement may be lost, for MaxRedeliveries updates at most    *)
(* and only where a window is still sized by what the tracker says.        *)
StatusTerminal(x, a, lost) ==
    /\ pc = "idle"
    /\ x \in placed[a]
    /\ lost => /\ Cardinality(unacknowledged \cup redelivered) < MaxRedeliveries
               /\ ~toFixSchedWindow /\ tasks # <<>>
    /\ unacknowledged' = unacknowledged \cup (IF lost THEN {<<x, a>>} ELSE {})
    /\ placed' = [placed EXCEPT ![a] = @ \ {x}]
    /\ OnTaskTerminal(x, a)
    /\ UNCHANGED <<vars, redelivered, flagVars>>

(* The same update again: the tracker does not know it has had it.         *)
StatusRedelivered(x, a) ==
    /\ pc = "idle"
    /\ <<x, a>> \in unacknowledged
    /\ unacknowledged' = unacknowledged \ {<<x, a>>}
    /\ redelivered' = redelivered \cup {<<x, a>>}
    /\ OnTaskTerminal(x, a)
    /\ UNCHANGED <<vars, placed, flagVars>>

------------------------------------------------------------------------------
(* Mesos: what it may offer of an agent.                                   *)
UsedWatts(a) ==
    IF ~wattsAsAResource THEN 0
    ELSE SumFunction([x \in placed[a] |-> WattsToConsider(x[1], [agent |-> a])])

Free(a) == Minus(Capacity[a], [SumOf(placed[a]) EXCEPT !.watts = UsedWatts(a)])

FreeOffer(a) == [agent |-> a, cpus |-> Free(a).cpu, mem |-> Free(a).ram,
                 watts |-> Free(a).watts]

AgentBatch == {s \in UNION {[1 .. n -> Agent] : n \in 1 .. MaxOffers} : IsInjective(s)}

OffersOf(s) == [k \in DOMAIN s |-> FreeOffer(s[k])]

BaseInit ==
    /\ schedPolSwitchCriteria \in SwitchCriteria
    /\ toFixSchedWindow \in WindowModes
    /\ InitWithWindow(IF toFixSchedWindow THEN FixedWindow ELSE 0)
    /\ TrackerInit
    /\ placed = [a \in Agent |-> {}]
    /\ unacknowledged = {} /\ redelivered = {}

BaseNext ==
    \/ \E s \in AgentBatch : ResourceOffersSwitching(OffersOf(s))
    \/ TrackedConsume
    \/ \E a \in Agent, lost \in BOOLEAN : \E x \in placed[a] : StatusTerminal(x, a, lost)
    \/ \E u \in unacknowledged : StatusRedelivered(u[1], u[2])

BaseSpec == BaseInit /\ [][BaseNext]_baseVars

(* Mesos keeps offering every agent, and every task ends.                  *)
BaseLiveSpec ==
    /\ BaseSpec
    /\ WF_baseVars(TrackedConsume)
    /\ \A a \in Agent :
         /\ SF_baseVars(ResourceOffersSwitching(<<FreeOffer(a)>>))
         /\ SF_baseVars(\E x \in placed[a] : StatusTerminal(x, a, FALSE))

------------------------------------------------------------------------------
(* PROPERTIES *)

(* The new variables have their types; the scheduler always has a policy.  *)
BaseTypeOK ==
    /\ TypeOK
    /\ perHostResourceAvailability \in [Agent -> ResourceCount \cup {nil}]
    /\ placed \in [Agent -> SUBSET (Task \X Int)]
    /\ unacknowledged \cup redelivered \subseteq (Task \X Int) \X Agent
    /\ schedPolSwitchCriteria \in SwitchCriteria
    /\ toFixSchedWindow \in WindowModes

(* A policy that is not deployed has a counter of zero, so that it starts  *)
(* its next window afresh: the policy object switched from is reset, and   *)
(* only the deployed one counts.                                           *)
IdlePoliciesReset ==
    \A p \in Policy : p # curSchedPolicy => numTasksScheduled[p] = 0

(* "The next scheduling policy will schedule at max schedWindowSize number *)
(* of tasks", in whatever number of offers and callbacks.                  *)
WindowRespected ==
    schedPolSwitchEnabled => numTasksScheduled[curSchedPolicy] <= schedWindowSize

(* The number of tasks in the window is never stale when the queue is      *)
(* sliced by it: tasks[:n] stays within the queue.                         *)
WindowWithinQueue == pc = "consume" => SortLength <= Len(tasks)

(* Between callbacks the tracker agrees with Mesos about the CPUs and RAM  *)
(* an agent has left, if Mesos offered all of the agent at first, but for  *)
(* the tasks it was told twice have ended.                                 *)
TrackerAgreesWithMesos ==
    pc = "idle" => \A a \in Agent :
        perHostResourceAvailability[a] # nil =>
          LET twice == SumOf({u[1] : u \in {v \in redelivered : v[2] = a}})
              unused == perHostResourceAvailability[a].unused
          IN unused.cpu = Free(a).cpu + twice.cpu /\ unused.ram = Free(a).ram + twice.ram

(* How far a policy's taskDist is from a distribution.                     *)
Distance(d, p) == IF d < TaskDist[p] THEN TaskDist[p] - d ELSE d - TaskDist[p]

(* Switching by task distribution deploys a policy of SPConfig none of     *)
(* which is nearer to the distribution found: the binary search ends at    *)
(* the right neighbours.                                                   *)
NearestPolicyChosen ==
    schedPolSwitchCriteria = "taskDist" /\ NumToSwitch > 0 =>
      \A d \in Distributions :
        /\ PolicyFor(d) \in ToSwitch
        /\ \A p \in ToSwitch : Distance(d, PolicyFor(d)) <= Distance(d, p)

(* However the tasks of a window are clustered, the two clusters hold the  *)
(* instances of the window, each counted once and none beyond its end; the *)
(* distribution never divides by zero; and the cluster called heavy is not *)
(* lighter on average than the other.                                      *)
ClassificationSound ==
    pc = "idle" /\ schedPolSwitchCriteria = "taskDist" =>
      \A size \in 1 .. Need[Len(tasks)].inst + 1 :
        LET n == TasksInWindow(size) IN
        \A clusters \in ClassifyTasks(n) :
          LET light == getTotalInstances(clusters.light, n, size)
              heavy == getTotalInstances(clusters.heavy, n, size)
          IN /\ light + heavy = Min({size, Need[Len(tasks)].inst})
             /\ clusters.heavy # {} => heavy > 0
             /\ TotalMMMPU(clusters.light) * Cardinality(clusters.heavy) <=
                TotalMMMPU(clusters.heavy) * Cardinality(clusters.light)

(* If Mesos keeps offering and tasks end, the workload is scheduled with   *)
(* switching too: no window of the wrong size stops it.                    *)
EventuallyAllLaunched == <>(Shutdown = "closed" /\ packed = {})

(* The policy selector "selects the next scheduling policy based on a      *)
(* round-robin ordering".  From a policy outside SPConfig it selects none. *)
AlwaysAPolicy == curSchedPolicy # nil
==============================================================================
