---------------------------- MODULE SchedPolicies ----------------------------
(***************************************************************************)
(* ConsumeOffers of the four scheduling policies (schedulers/first-fit.go, *)
(* bin-packing.go, MaxGreedyMins.go, MaxMin.go).  A step is one iteration  *)
(* of a policy's loop over the queue of pending tasks; the driver makes no *)
(* other callback before ConsumeOffers returns, but the goroutines of      *)
(* main, which wait on the Shutdown channel, run between any two steps.    *)
(* Positions in the queue count from 1 where the Go code counts from 0.    *)
(***************************************************************************)
EXTENDS TaskQueue

CONSTANTS
    StartPolicies,         \* the policies -schedPolicy may name
    MaxOffers,             \* bound: offers in one ResourceOffers callback
    schedPolSwitchEnabled  \* flag -switchSchedPolicy

VARIABLES
    tasks,                 \* BaseScheduler.tasks, the queue
    instances,             \* *task.Instances, shared by all copies of a task
    Shutdown,              \* the channel: "open", "closed", "panicked"
    curSchedPolicy,
    numTasksScheduled,     \* per policy object
    schedWindowSize,
    numTasksInSchedWindow,
    hasReceivedResourceOffers,
    pc,                    \* where ResourceOffers is
    offers,                \* offers of this callback not yet answered
    total,                 \* totalCPU, totalRAM, totalWatts
    packed,                \* TaskInfos built for the current offer
    i, index, direction, start,   \* locals of the loops
    launched               \* instances handed to driver.LaunchTasks

queueVars  == <<tasks, instances, Shutdown>>
policyVars == <<curSchedPolicy, schedWindowSize, numTasksInSchedWindow,
                hasReceivedResourceOffers>>
scanVars   == <<i, index, direction, start>>
vars == <<queueVars, policyVars, scanVars, numTasksScheduled, pc, offers,
          total, packed, launched>>

Policy == {"first-fit", "bin-packing", "max-greedymins", "max-min"}

ASSUME PolicyAssumption ==
    /\ StartPolicies \subseteq Policy
    /\ MaxOffers \in Nat
    /\ schedPolSwitchEnabled \in BOOLEAN

------------------------------------------------------------------------------
offer == Head(offers)

(* close(c): closing a closed channel panics.                              *)
CloseChan(c) == IF c = "open" THEN "closed" ELSE "panicked"

(* Mutant: the window is one task too long.                                *)
WindowFullLate ==
    /\ schedPolSwitchEnabled
    /\ numTasksScheduled[curSchedPolicy] > schedWindowSize

(* The policy has scheduled its window: "stop scheduling if the            *)
(* #schedWindowSize tasks have been scheduled".                            *)
WindowFull ==
    /\ schedPolSwitchEnabled
    /\ numTasksScheduled[curSchedPolicy] >= schedWindowSize

(* Mutant: the name counts from the workload's inst, not what remains.     *)
newTaskFrozen(t) == <<t, Def[t].Instances>>

(* newTask names the instance after the number that remain.                *)
newTask(t) == <<t, instances[t]>>

LastInstance(k) == instances[tasks[k]] - 1 <= 0

(* Mutant: the task at the head of the queue is removed, whatever k is.    *)
QueueDropsHead(k) == IF LastInstance(k) THEN Tail(tasks) ELSE tasks

(* Mutant: a task with one instance left is removed too early.             *)
QueueDropsEarly(k) ==
    IF instances[tasks[k]] - 1 <= 1 THEN Without(tasks, k) ELSE tasks

(* The queue once an instance of its k-th task is scheduled.               *)
QueueAfter(k) == IF LastInstance(k) THEN Without(tasks, k) ELSE tasks

(* Mutant: Shutdown is closed whenever the queue holds one task or none.   *)
ShutdownTooSoon(k) == IF LastInstance(k) /\ Len(QueueAfter(k)) <= 1
                      THEN CloseChan(Shutdown) ELSE Shutdown

(* Mutant: nobody closes Shutdown.                                         *)
ShutdownLeftOpen(k) == Shutdown

(* Scheduling the last instance of the last task closes Shutdown.          *)
ShutdownAfter(k) == IF LastInstance(k) /\ QueueAfter(k) = <<>>
                    THEN CloseChan(Shutdown) ELSE Shutdown

(* What every policy does once an instance of the k-th task is taken: the  *)
(* second half of CheckFit.                                                *)
Dequeue(k) ==
    /\ instances' = [instances EXCEPT ![tasks[k]] = @ - 1]
    /\ numTasksScheduled' = [numTasksScheduled EXCEPT ![curSchedPolicy] = @ + 1]
    /\ tasks' = QueueAfter(k)
    /\ Shutdown' = ShutdownAfter(k)

(* CheckFit when takeOffer holds.                                          *)
Pack(k) ==
    /\ packed' = packed \cup {newTask(tasks[k])}
    /\ total' = Using(total, tasks[k], offer)
    /\ Dequeue(k)
    /\ UNCHANGED <<policyVars, offers, launched>>

(* log.Fatal: bin-packing, max-greedymins and max-min exit the process     *)
(* when a task has no power information.                                   *)
Fatal ==
    /\ pc' = "fatal"
    /\ UNCHANGED <<queueVars, policyVars, scanVars, numTasksScheduled, offers,
                   total, packed, launched>>

(* A loop iteration that only moves on.                                    *)
SkipUnchanged == UNCHANGED <<queueVars, policyVars, numTasksScheduled, pc,
                             offers, total, packed, launched>>

Eligible(k) == ~HostMismatch(offer, tasks[k]) /\ takeOffer(tasks[k], offer, total)

------------------------------------------------------------------------------
(* The ResourceOffers callback, here with nothing to switch.               *)
ResourceOffers(os) ==
    /\ pc = "idle"
    /\ pc' = "consume"
    /\ offers' = os
    /\ UNCHANGED <<queueVars, policyVars, scanVars, numTasksScheduled, total,
                   packed, launched>>

(* The head of ConsumeOffers: all policies but first-fit sort the queue,   *)
(* only its window when switching is enabled.                              *)
SortLength == IF schedPolSwitchEnabled THEN numTasksInSchedWindow ELSE Len(tasks)

ConsumeOffers ==
    /\ pc = "consume"
    /\ pc' = "offer"
    /\ IF curSchedPolicy = "first-fit"
       THEN tasks' = tasks
       ELSE tasks' \in SortNTasks(tasks, SortLength)
    /\ UNCHANGED <<instances, Shutdown, policyVars, scanVars, numTasksScheduled,
                   offers, total, packed, launched>>

(* Every offer was answered: ConsumeOffers and ResourceOffers return.      *)
Return ==
    /\ pc = "offer"
    /\ offers = <<>>
    /\ pc' = "idle"
    /\ hasReceivedResourceOffers' = TRUE
    /\ UNCHANGED <<queueVars, curSchedPolicy, schedWindowSize,
                   numTasksInSchedWindow, scanVars, numTasksScheduled, offers,
                   total, packed, launched>>

(* Shutdown is closed: decline with the long filter.                       *)
DeclineNoPendingTasks ==
    /\ pc = "offer"
    /\ offers # <<>>
    /\ Shutdown # "open"
    /\ offers' = Tail(offers)
    /\ UNCHANGED <<queueVars, policyVars, scanVars, numTasksScheduled, pc,
                   total, packed, launched>>

FirstPc == IF curSchedPolicy = "max-greedymins" THEN "max" ELSE "scan"

BeginOffer ==
    /\ pc = "offer"
    /\ offers # <<>>
    /\ Shutdown = "open"
    /\ pc' = FirstPc
    /\ total' = NoUsage
    /\ packed' = {}
    /\ i' = IF FirstPc = "max" THEN Len(tasks) ELSE 1
    /\ index' = 0
    /\ direction' = FALSE
    /\ start' = TRUE
    /\ UNCHANGED <<queueVars, policyVars, numTasksScheduled, offers, launched>>

------------------------------------------------------------------------------
(* One iteration of first-fit's loop.  The first task that fits is         *)
(* launched at once and ends the offer.                                    *)
Scanning(policy) == pc = "scan" /\ curSchedPolicy = policy /\ i <= Len(tasks)

(* Mutant: a task is passed over although it fits.                         *)
FirstFitSkipAny ==
    /\ Scanning("first-fit")
    /\ ~WindowFull
    /\ i' = i + 1
    /\ SkipUnchanged
    /\ UNCHANGED <<index, direction, start>>

FirstFitSkip ==
    /\ Scanning("first-fit")
    /\ ~WindowFull
    /\ ~Eligible(i)
    /\ i' = i + 1
    /\ SkipUnchanged
    /\ UNCHANGED <<index, direction, start>>

FirstFitTake ==
    /\ Scanning("first-fit")
    /\ ~WindowFull
    /\ Eligible(i)
    /\ launched' = launched \cup {newTask(tasks[i])}
    /\ Dequeue(i)
    /\ offers' = Tail(offers)
    /\ pc' = "offer"
    /\ UNCHANGED <<policyVars, scanVars, total, packed>>

(* One iteration of bin-packing's loops and, when max-greedymins has had   *)
(* its max task, of its second pair of loops: pack instances of the i-th   *)
(* task while they fit.  The outer loop advances after the task's last     *)
(* instance too, although the queue then holds the next task at i.         *)
Packing == pc = "scan" /\ curSchedPolicy \in {"bin-packing", "max-greedymins"}
                       /\ i <= Len(tasks)

MinsFits == ~WattsError(tasks[i]) /\ instances[tasks[i]] > 0 /\ ~WindowFull
                                  /\ Eligible(i)

NextAfterPack == IF instances[tasks[i]] - 1 > 0 THEN i ELSE i + 1

GreedyFatal == Packing /\ WattsError(tasks[i]) /\ Fatal

GreedySkip ==
    /\ Packing
    /\ ~WattsError(tasks[i])
    /\ ~MinsFits
    /\ i' = i + 1
    /\ SkipUnchanged
    /\ UNCHANGED <<index, direction, start>>

GreedyPack ==
    /\ Packing
    /\ MinsFits
    /\ Pack(i)
    /\ i' = NextAfterPack
    /\ UNCHANGED <<pc, index, direction, start>>

(* max-greedymins first packs one instance of the heaviest task that fits. *)
ToMins ==
    /\ pc' = "scan"
    /\ i' = 1
    /\ UNCHANGED <<index, direction, start>>

MaxFatal == pc = "max" /\ i >= 1 /\ ~WindowFull /\ WattsError(tasks[i]) /\ Fatal

MaxSkip ==
    /\ pc = "max"
    /\ i >= 1
    /\ ~WindowFull
    /\ ~WattsError(tasks[i])
    /\ ~Eligible(i)
    /\ i' = i - 1
    /\ SkipUnchanged
    /\ UNCHANGED <<index, direction, start>>

MaxPack ==
    /\ pc = "max"
    /\ i >= 1
    /\ ~WindowFull
    /\ ~WattsError(tasks[i])
    /\ Eligible(i)
    /\ Pack(i)
    /\ ToMins

MaxNone ==
    /\ pc = "max"
    /\ i < 1 \/ WindowFull
    /\ ToMins
    /\ UNCHANGED <<queueVars, policyVars, numTasksScheduled, offers, total,
                   packed, launched>>

(* Mutant: the position from the back of the queue is off by one.           *)
MaxMinIndexOffByOne == IF ~start THEN index
                       ELSE IF direction THEN 1 ELSE Len(tasks) - i

(* One iteration of max-min's loop.  The task it looks at is the one at    *)
(* index, which is set again from i only while start holds.                *)
MaxMinIndex == IF ~start THEN index
               ELSE IF direction THEN 1 ELSE Len(tasks) - i + 1

MaxMinTask == tasks[MaxMinIndex]

MaxMinScans == Scanning("max-min") /\ ~WindowFull

MaxMinFatal == MaxMinScans /\ WattsError(MaxMinTask) /\ Fatal

(* The host does not match: continue, with index as it was.                *)
MaxMinMismatch ==
    /\ MaxMinScans
    /\ ~WattsError(MaxMinTask)
    /\ HostMismatch(offer, MaxMinTask)
    /\ i' = i + 1
    /\ index' = MaxMinIndex
    /\ SkipUnchanged
    /\ UNCHANGED <<direction, start>>

MaxMinNoFit ==
    /\ MaxMinScans
    /\ ~WattsError(MaxMinTask)
    /\ ~HostMismatch(offer, MaxMinTask)
    /\ ~takeOffer(MaxMinTask, offer, total)
    /\ i' = i + 1
    /\ index' = IF direction THEN MaxMinIndex + 1 ELSE MaxMinIndex - 1
    /\ start' = FALSE
    /\ SkipUnchanged
    /\ UNCHANGED direction

MaxMinPack ==
    /\ MaxMinScans
    /\ ~WattsError(MaxMinTask)
    /\ Eligible(MaxMinIndex)
    /\ Pack(MaxMinIndex)
    /\ index' = MaxMinIndex
    /\ direction' = ~direction
    /\ start' = TRUE
    /\ UNCHANGED <<pc, i>>

------------------------------------------------------------------------------
(* Mutant: the loop ends one task early.                                   *)
ScanOverEarly == pc = "scan" /\ i >= Len(tasks)

(* The loop over the queue is over: launch what was packed into the offer, *)
(* decline it with the default filter if that is nothing.                  *)
ScanOver ==
    /\ pc = "scan"
    /\ \/ i > Len(tasks)
       \/ curSchedPolicy \in {"first-fit", "max-min"} /\ WindowFull

LaunchPacked ==
    /\ ScanOver
    /\ packed # {}
    /\ launched' = launched \cup packed
    /\ packed' = {}
    /\ offers' = Tail(offers)
    /\ pc' = "offer"
    /\ UNCHANGED <<queueVars, policyVars, scanVars, numTasksScheduled, total>>

DeclineInsufficientResources ==
    /\ ScanOver
    /\ packed = {}
    /\ offers' = Tail(offers)
    /\ pc' = "offer"
    /\ UNCHANGED <<queueVars, policyVars, scanVars, numTasksScheduled, total,
                   packed, launched>>

------------------------------------------------------------------------------
InitWithWindow(size) ==
    /\ tasks \in {q \in [1 .. Cardinality(Task) -> Task] :
                    IsInjective(q) /\ Range(q) = Task}
    /\ instances = [t \in Task |-> Def[t].Instances]
    /\ Shutdown = "open"
    /\ curSchedPolicy \in StartPolicies
    /\ numTasksScheduled = [p \in Policy |-> 0]
    /\ schedWindowSize = size
    /\ numTasksInSchedWindow = 0
    /\ hasReceivedResourceOffers = FALSE
    /\ pc = "idle"
    /\ offers = <<>>
    /\ total = NoUsage
    /\ packed = {}
    /\ i = 1 /\ index = 0 /\ direction = FALSE /\ start = TRUE
    /\ launched = {}

Init == InitWithWindow(0)

OfferBatch == UNION {[1 .. n -> Offer] : n \in 1 .. MaxOffers}

Consume ==
    \/ ConsumeOffers \/ Return \/ DeclineNoPendingTasks \/ BeginOffer
    \/ FirstFitSkip \/ FirstFitTake
    \/ GreedyFatal \/ GreedySkip \/ GreedyPack
    \/ MaxFatal \/ MaxSkip \/ MaxPack \/ MaxNone
    \/ MaxMinFatal \/ MaxMinMismatch \/ MaxMinNoFit \/ MaxMinPack
    \/ LaunchPacked \/ DeclineInsufficientResources

Next == (\E os \in OfferBatch : ResourceOffers(os)) \/ Consume

Spec == Init /\ [][Next]_vars

(* Mesos keeps offering: an offer declined is made again once its filter   *)
(* expires, and what a finished task used is offered anew.  So every offer *)
(* of Offer recurs for as long as the callback thread is free to take it.  *)
LiveSpec == Spec /\ WF_vars(Consume)
                 /\ \A o \in Offer : SF_vars(ResourceOffers(<<o>>))

------------------------------------------------------------------------------
(* PROPERTIES *)

Pcs == {"idle", "consume", "offer", "max", "scan", "fatal"}

(* Every variable has its type; the queue holds tasks, the loop positions  *)
(* are integers, a channel is open, closed or closed twice.                *)
TypeOK ==
    /\ tasks \in Seq(Task)
    /\ instances \in [Task -> Int]
    /\ Shutdown \in {"open", "closed", "panicked"}
    /\ curSchedPolicy \in Policy
    /\ numTasksScheduled \in [Policy -> Nat]
    /\ schedWindowSize \in Nat
    /\ numTasksInSchedWindow \in Nat
    /\ hasReceivedResourceOffers \in BOOLEAN
    /\ pc \in Pcs
    /\ offers \in Seq(Offer)
    /\ total \in Usage
    /\ packed \in SUBSET (Task \X Int)
    /\ i \in Int /\ index \in Int
    /\ direction \in BOOLEAN /\ start \in BOOLEAN
    /\ launched \in SUBSET (Task \X Int)

(* The queue holds exactly the tasks with instances left, each once:       *)
(* removing a task by position never removes another one's entry.          *)
QueueHoldsPending ==
    /\ IsInjective(tasks)
    /\ Range(tasks) = {t \in Task : instances[t] > 0}
    /\ \A t \in Task : instances[t] \in 0 .. Def[t].Instances

(* The instances that have left the queue.                                 *)
Scheduled == UNION {{t} \X ((instances[t] + 1) .. Def[t].Instances) : t \in Task}

(* Every instance of the workload is pending, packed into the current      *)
(* offer or launched, and never two of these: no instance is lost by the   *)
(* removals and none gets a name twice.                                    *)
EachInstanceOnce ==
    /\ launched \cap packed = {}
    /\ launched \cup packed = Scheduled

(* Shutdown is closed as soon as, and only when, nothing is left to        *)
(* schedule, and is never closed a second time.                            *)
ShutdownWhenDrained ==
    Shutdown = (IF tasks = <<>> THEN "closed" ELSE "open")

(* The workload, and what of it is still queued.                           *)
Instances == UNION {{t} \X (1 .. Def[t].Instances) : t \in Task}

Pending == UNION {{t} \X (1 .. instances[t]) : t \in Range(tasks)}

(* The four policies implement Dispatch.                                   *)
D == INSTANCE Dispatch WITH Instance <- Instances, pending <- Pending,
                            reserved <- packed

DispatchRefined == D!DispatchSpec

InScan == pc \in {"max", "scan"}

(* The instances packed into an offer never need more than the offer has:  *)
(* the totals a policy carries from task to task stay within the offer.    *)
NeverOverpacked == InScan => WithinOffer(total, offer)

(* The position a policy reads is a position of the queue, whatever was    *)
(* removed in this scan: for max-min because i bounds how far index may    *)
(* have moved from either end since start was last true.                   *)
PositionInQueue ==
    /\ pc = "max" => i \in 0 .. Len(tasks)
    /\ pc = "scan" => i >= 1
    /\ (Scanning("max-min") => MaxMinIndex \in 1 .. Len(tasks))

Packs(t) == InScan /\ packed = {} /\ packed' = {newTask(t)}

(* max-greedymins and max-min give an offer first to a task that no        *)
(* eligible task outweighs, bin-packing to one that none underweighs:      *)
(* "Attempt to schedule a single instance of the heaviest workload         *)
(* available first".                                                       *)
FirstPickIsExtreme ==
    [][\A t \in Task : Packs(t) =>
         \A k \in 1 .. Len(tasks) : Eligible(k) =>
            IF curSchedPolicy = "bin-packing"
            THEN Def[t].Watts <= Def[tasks[k]].Watts
            ELSE Def[t].Watts >= Def[tasks[k]].Watts]_vars

(* first-fit launches the first task of the queue that fits the offer: it  *)
(* passes over none that could have been launched.                         *)
FirstFitInOrder ==
    [][\A k \in 1 .. Len(tasks) :
         (pc = "scan" /\ launched' = launched \cup {newTask(tasks[k])}
                     /\ launched' # launched /\ curSchedPolicy = "first-fit")
            => \A j \in 1 .. k - 1 : ~Eligible(j)]_vars

Declines == pc = "scan" /\ pc' = "offer" /\ launched' = launched

NothingFits == \A k \in 1 .. Len(tasks) : ~Eligible(k)

(* first-fit, bin-packing and max-greedymins decline an offer only when it *)
(* "has insufficient resources to launch a task", as the log says, or the  *)
(* window is full.  max-min does not keep to this: it gives an offer up    *)
(* when the task at its index runs on other hosts only.                    *)
DeclineOnlyIfNothingFits ==
    [][Declines /\ curSchedPolicy # "max-min" => NothingFits \/ WindowFull]_vars

(* If Mesos keeps offering and every task fits some offer, every task is   *)
(* scheduled in the end, unless the process exits because a task has no    *)
(* power information, which first-fit never does.                          *)
EventuallyDrained ==
    <>(\/ Shutdown = "closed"
       \/ pc = "fatal" /\ curSchedPolicy # "first-fit")
==============================================================================
