# Elektron: TLA+ models, checks and proofs

Elektron is a Mesos framework in Go. It reads a workload of tasks with power
information, packs instances of them into Mesos resource offers with one of
four scheduling policies (switching between policies at run time if asked to),
logs power with PCP, and may cap the power of the cluster's hosts. The modules
in this directory model that program, TLC checks them on small instances, and
TLAPS proves the most important invariants for all values of the constants.

    tlc -config policies.cfg MCSchedPolicies     # one run; see "Runs"
    tlapm BaseScheduler_proofs.tla               # one module of proofs

## Inventory

| Component | State | Operations | Hard about it |
|---|---|---|---|
| Task queue (`def/`) | `tasks`, `*task.Instances` shared by all copies of a task | sort by watts, remove by position | removal while positions are in use; comparison `<=` in a sort |
| Policies (`schedulers/first-fit.go`, `bin-packing.go`, `MaxGreedyMins.go`, `MaxMin.go`) | per policy object `numTasksScheduled`; loop locals | `ConsumeOffers` | index arithmetic, totals carried over, closing `Shutdown` |
| Base scheduler (`schedulers/base.go`) | `Running`, `tasksRunning`, channels | `ResourceOffers`, `StatusUpdate` | lost, repeated and early updates |
| Switching (`schedPolicy.go`, `store.go`, `schedUtils`) | `curSchedPolicy`, window size and count | `SwitchIfNecessary`, window calculator, three criteria | stale counters and windows, empty windows, policies outside SPConfig |
| Tracker (`utilities/trackResourceUsage.go`) | unused and total resources per agent | record first offer, task active, task terminal | agreement with Mesos |
| Process life (`scheduler.go`, `pcp/pcp.go`) | channels `shutdown`, `done`, `pcpLog`; goroutines; `pmdumptext` | wait, close, stop, kill, SIGINT | interleavings of four goroutines and two timers |
| Power capping (`powerCap/`, `rapl/`) | maps and stack of capped hosts; caps in force | a line from PCP, `rapl.Cap` over ssh | failed calls, half-done calls, drift |
| Classification (`def/taskUtils.go`) | none | cluster the tasks of a window, count their instances | empty clusters (NaN), random order, instances beyond the window |
| Startup (`scheduler.go`, `schedulers/helpers.go`, `def/task.go`, validators) | flags, list of options, table of requirements | check flags, validate tasks, apply options, start PCP | order of checks; options that depend on others; `inst` and repeated names unchecked |
| Logging (`logging/`) | one map of fields and one output shared by a chain of six loggers | `WithField(s)`, `Log` | two threads log at once, nothing is locked |
| Running averages, throttle script | windows, kernel files | averages, writes | not part of the running program, pure I/O |

Interaction: the Mesos driver calls `ResourceOffers` and `StatusUpdate` on one
thread. `ResourceOffers` updates the tracker, may switch the policy, and calls
its `ConsumeOffers`, which launches or declines every offer and closes
`Shutdown` with the last instance. `StatusUpdate` counts running tasks and
closes `Done`. A goroutine of `main` waits for both, closes `pcpLog` and stops
the driver; another handles SIGINT; a third owns `pmdumptext` and, with power
capping, reads its lines and calls `rapl.Cap`.

What makes each component correct: every instance is launched once and fits its
offer (policies); windows and counters are never stale (switching); the tracker
agrees with Mesos (tracker); channels close in order, once, and the process
ends after its work (process life); the caps recorded are the caps in force, up
to the calls that failed, and are lifted again (power capping); the distribution
of a window is that of its instances, however they cluster (classification);
nothing is started before everything was checked (startup); an entry carries the
fields of its call and goes where its type is configured to go (logging).

## Modules

| Module | Models | Extends / instantiates |
|---|---|---|
| `TaskQueue` | tasks, offers, `WattsToConsider`, `takeOffer`, `SortNTasks`, removal | |
| `SchedPolicies` | `ConsumeOffers` of the four policies | `TaskQueue`; `Dispatch` as abstraction |
| `Dispatch` | what every policy promises (abstract) | |
| `Framework` | process life: callbacks, goroutines, channels, PCP | `Dispatch` |
| `ResourceTracker` | the tracker | `TaskQueue` |
| `BaseScheduler` | `ResourceOffers` with switching, tracker and Mesos agents | `SchedPolicies`, `ResourceTracker` |
| `PowerCap` | PCP lines, victims, `rapl.Cap` | |
| `Extrema`, `ProgressiveExtrema` | the two power-capping loops | `PowerCap` |
| `Logging` | the chain of loggers and the threads that use it | |
| `Startup` | `main` up to `driver.Run`, options, validators | |
| `MC*` | small instances for TLC | the module named |
| `*_proofs` | theorems | the module named |
| `Sums_proofs` | lemmas on the sums of the community modules | |

The chain of abstraction is `SchedPolicies` => `Dispatch`, shown by the property
`DispatchRefined` (also with switching) and proved by `Refinement` and, with
switching, by `SwitchingRefinement`; `Framework` uses `Dispatch` in place of the
policies.

### Correspondence with the code

*SchedPolicies.* A step is one iteration of a policy's loop over the queue. `pc`
is the place in the callback: `idle`, `consume` (head of `ConsumeOffers`),
`offer` (between offers), `max` (first loop of max-greedymins), `scan`, `fatal`
(`log.Fatal`). `Pack` is `CheckFit` when the task fits, `Dequeue` its second
half, shared with first-fit. Positions count from 1. Sorting yields any queue in
order, since the comparison passed to `sort.SliceStable` is no strict order. An
instance is the pair of its task and the number `newTask` puts into its name.
Assumed of a workload: at least one task and one instance of each (the first is
checked by `main`, the second is not checked by the validators; see *Startup*).

*BaseScheduler.* `ResourceOffersSwitching` is the callback up to `ConsumeOffers`:
tracker, window, switch. `FillNextOfferCycle` is the window calculator;
`TasksInWindow` the part of the queue the classifier sees. The k-means library
is external, and its first centroids are random: `Clusterings` are all ways to
split the tasks of a window in two that keep equal observations together (tasks
with a class map are observed in random order, and so may be split even when
equal), none when there are fewer than two. What the code makes of a clustering
is modelled: the median of each task (twice over, to stay in the integers), the
comparison of the averages with its NaN, the order of the clusters, the
instances beyond the window, and the distribution in units of `1/DistUnit`.
A terminal update whose acknowledgement was lost comes again
(`StatusRedelivered`).
The criterion and the kind of window are
flags: variables that keep what `BaseInit` chose.
`PolicyFor` is the binary search with its nearest-neighbour tail, and `nil` a
policy name that names none. Mesos (external) offers exactly what is free.
`SwitchAssumption` takes the distributions in SPConfig to be distinct, those of
zero (not set) aside: `store.go` accepts equal ones and then orders their
policies as Go's map iteration happened to list them, so that either may be the
one a switch finds. The ring of the model has one order; a tie would only add
the other one, which no property tells apart.

*Framework.* `Schedule` is any step of `Dispatch`. `OnRunning` and `OnTerminal`
are the branches of `StatusUpdate`, `DoneAfter` its last `if`. A channel is
`open`, `closed` or `panicked` (closed twice, which ends the process: `Alive`).
The sleeps are steps that may take any time. Mesos reports the states of a task
in order and at least once; `MayFailToStart`, `MaxRedeliveries` and
`MayInterrupt` switch the faults on. A registered handler for `os.Kill` never
runs, so that branch is left out.

*Logging.* A thread makes one call at a time: `Start` is `Log` or the first half
of `WithField(s)`, then come the steps of the loggers in the order of the chain.
`Outputs` is where a logger writes an entry of a type, in order; loggers that
write nothing are passed over in one step (`NextLogger`). The last logger's
`resetFields` is two steps, `ResetFields` (the map is nil, `nilMap`) and
`NewFields`: between them another thread's `WithField` panics (`NilMapWrite`),
and its `WithFields` is undone by the second. Writing an entry takes
`SetOutput`, the copy of the fields that logrus makes (`BeginCopy`, `EndCopy`,
since it is a read of the map that an assignment may overlap) and `Write` to what
is then the output. `users` are the threads inside an operation on the current
map: an assignment begun on a map that was replaced is lost, and one that
overlaps another use of the same map may end the process (`ConcurrentMapUse`, the
detection of the Go runtime, external and not certain). The values of fields are
the threads they come from; the fields and types of the calls are the shapes of
the calls in `base.go`, `schedPolicy.go`, `pcp` and `powerCap`.

*Startup.* `pc` is the place in `main`, one action per check. The flags, the
outcome of reading a file and of creating the driver are any. `options` is
`schedOptions`, applied by `ApplyOption` one at a time as in `BaseScheduler.init`.
Strings and floats stand for what the validators tell apart: empty, with a blank,
zero, missing. `exited` is `log.Fatal` or `os.Exit`, `panicked` the nil pointer of
a missing `inst`. `LaunchedInstances` are the numbers a task's instances get when
first-fit, or `CheckFit` of max-min and max-greedymins, launches them: a task
whose `inst` is zero or negative passes the validators and is launched once before
its instances are looked at (bin-packing never launches it).
`RequirementsRecorded` says that exactly this instance has no entry in the table.

*Power capping.* A map is a function with 0 or FALSE for hosts without entry, a
cap a percentage in hundredths, so that halving with rounding to two decimals
is integer arithmetic. `CapFails` covers the ways `rapl.Cap` can fail: nothing
happened, the script ran but its end was not seen (`MayLoseReply`), or no
session (`MayRefuseSession`), where the deferred `session.Close()` dereferences
nil and the process is gone. Liveness is stated of processes that live on, and
for progressive extrema of calls whose failure means that nothing happened
(`NoReplyLost`): a host capped by a call whose reply was lost is not recorded,
and so not uncapped. The mean and the order of the victims are any. The
variable `seconds` changes with every line, so that reading a line is never a
stutter; lines read before the first task was created (`*logging` false) have no
effect and are stutters. `Extrema` ignores what `rapl.Cap` returns, so a line is
one step; in `ProgressiveExtrema` every victim looked at is one. There
`triedInVain` is a history variable, which no guard reads: the hosts whose first
cap failed since the last line. `EveryHostBeforeFurther` excuses these hosts, on
this line, and no others.

## Runs

| Run | Shows |
|---|---|
| `policies` | all four policies, every order of three tasks (five instances, one bound to a host, one with a class map), one or two of three offers per callback: `QueueHoldsPending`, `EachInstanceOnce`, `ShutdownWhenDrained`, `NeverOverpacked`, `PositionInQueue`, `FirstPickIsExtreme`, `FirstFitInOrder`, `DeclineOnlyIfNothingFits`, `DispatchRefined`, and `EventuallyDrained` |
| `policies_nowatts` | with a task without watts, only the sorting policies may exit (`log.Fatal`) before the workload is drained |
| `framework` | three instances, failed starts, two repeated updates and SIGINT: `DoneAfterShutdown`, `PCPLogAfterBoth`, `StopOnlyWhenAllLaunched`; while Mesos behaves `RunningCount`, and, if no one interrupts, the process ends (`Terminates`, perhaps by the panic of a second close of `Done`) |
| `switching` | each switching criterion with computed and with fixed windows, two agents, any clustering, one terminal update delivered again: `IdlePoliciesReset`, `WindowRespected`, `WindowWithinQueue`, `TrackerAgreesWithMesos`, `NearestPolicyChosen`, `ClassificationSound`, `DispatchRefined`, `EventuallyAllLaunched` |
| `progressive` | three hosts, two failed calls of any kind: `StructuresAgree`, `AtMostOneStepOff`, `EveryHostBeforeFurther` (after failures too: only a host that failed on the same line may be left without a cap); caps reach the limit under lasting load and are lifted under lasting calm, failed calls included (`EventuallyAllAtLimit`, `EventuallyAllUncapped`) |
| `extrema` | three hosts: `StackIsMap` with any failures; without them `RecordedIsActual` and `UncappedUnlessFailure` |
| `logging` | the driver's thread and a PCP goroutine, three configurations: `FieldsOfActiveCalls` however calls mix, `AloneIsExact` for calls no other overlapped |
| `startup` | valid and invalid values of every flag, workloads of up to two tasks with every defect: `StartedOnlyIfValid`, `OptionsConsistent`, `RequirementsRecorded` (for every launched instance but the one of a task whose `inst` is not positive, which has none) |

### Where the code departs from what it says

Each of these runs checks one statement of a comment, a log or a document and
TLC finds a behaviour of the code against it; `findings` in `PROJECT.json`
quotes the statements.

| Run | Statement | What happens |
|---|---|---|
| `done_early` | `Done` closes when all tasks are cleaned up | it closes at a lull before a launched task starts |
| `failed_start` | completed tasks let the framework shut down | after one task that never ran, the count never returns to zero |
| `no_policy` | round-robin selects the next policy | none, from a policy outside SPConfig |
| `trace_race` | a task that fits an offer is logged with its host | another thread clears the field or redirects the entry before it is written |

Other departures, met while modelling, are in the models as the code has them
but have no run of their own:

* max-min declines an offer for "insufficient resources" (`base.go`) although a
  task fits it, when the task at its index runs on other hosts only
  (`MaxMinMismatch` leaves `index` alone);
* max-min "assumes s.tasks is ordered" (`MaxMin.go`), but with a fixed window the
  number of tasks to sort stays zero (`NextWindow`, `SortLength`);
* below the lower threshold nodes "would be uncapped" (`README.md`), but extrema
  takes a host off its records before `rapl.Cap`, and one whose uncapping failed
  is never tried again (`UncapLast`);
* `allowOnConsole` and `minLogLevel` "configure" the console's log type
  (`docs/Logs.md`), but its logger never looks at either (`ConsoleOutputs`);
* a log directory that exists already, made in the same second, leaves every
  logger without a file, and only a line on the console says so (`LogFile`);
* the error of `InitSchedPolicyCharacteristics` is ignored, so that with a file
  that cannot be read switching is on without policies to switch to
  (`EnableSwitching`), and the first switch panics;
* tasks of the same name are accepted and share their `TaskID`s, so that the
  tracker uses the later one's requirements for both
  (`initTaskResourceRequirements`);
* requirements are recorded "for all the tasks" (`taskUtils.go`), but a task whose
  `inst` is zero or negative, which no validator refuses, is launched once
  without; the tracker's lookup then fails where it says "Shouldn't be here", an
  error its callers ignore (`RequirementsRecorded`, `LaunchedInstances`);
* a task with an empty `class_to_watts` passes the validators and makes
  `clusterSizeAvgMMMPU` read the first of no observations;
* max-greedymins packs "until no more task can fit the offer"
  (`docs/SchedulingPolicies.md`), but its loop skips the task that moves into a
  removed one's place (`GreedyPack` increments `i` all the same);
* `Shutdown` "is closed when the program receives an interrupt" (`base.go`), but
  SIGINT closes `Done`, and the process goes on until `Shutdown` closes too
  (`Interrupt`);
* SIGINT is handled "to not leave pmdumptext running" (`scheduler.go`), but the
  goroutine that kills it and the one that ends the process sleep equally long
  (`PcpKill` and `DriverStop` race);
* the named first policy "would be deployed first regardless" (`base.go`), but
  is forgotten when the first offers leave an empty window (`NextPolicy`);
* the window "constitutes the set of pending tasks that the next policy
  schedules" (`docs/SchedulingPolicySwitching.md`), but max-min and
  max-greedymins start from the end of the whole queue;
* nodes are capped when the mean "exceeds" `hiThreshold` (`README.md`);
  progressive extrema compares with `>=` (`High`);
* `rapl.Cap` means to return "Failed to create session", but the deferred
  `session.Close()` on a nil session panics (`CapFails`);
* `docs/SchedulingPolicySwitching.md` and a comment in `store.go` say the ring of
  policies is in non-increasing order of task distribution; the code sorts it in
  increasing order (`schedPoliciesToSwitch`).

### Bounds

* Three tasks and up to five instances: enough for a removal at the front, in
  the middle and at the end of the queue, for a task with instances left behind
  a removed one, and for max-min to turn twice. `MaxOffers` is 2, so that the
  second offer meets what the first left, a closed `Shutdown` included.
* Three instances in `Framework`: two lulls after `Shutdown` need three tasks.
* Two agents, one of which can never hold one of the tasks; distributions below,
  at, between (and half-way between) and above the configured ones.
* Windows of every size up to one more than the instances left for
  `ClassificationSound`; all distributions of four instances are multiples of
  1/12, which divides `DistUnit`. The configured distributions are those of
  `docs/SchedulingPolicySwitching.md`, but for max-greedymins at 1.667 instead of
  6.667, which four instances cannot come near. `MaxRedeliveries` is 1, and an
  update comes again only while a window is still to be computed: nothing else
  reads the tracker.
* Two threads in `Logging`, enough for a call to overlap another one at each of
  its steps; a call may follow another without end. Three configurations: as
  shipped, everything on, and no log directory.
* Two tasks per workload in `Startup`: a valid and an invalid one in either
  order, and two of one name.
* Three hosts, means below, at, between and above the thresholds (for
  progressive extrema below, at the lower and at the higher one, which are its
  three cases); two failed calls, so that a call and its repetition can both
  fail.
* Symmetry is used only in `done_early`, which checks an invariant over
  instances no definition tells apart.

### Fairness

`LiveSpec` of `SchedPolicies` assumes the callback thread runs (`WF` of
`Consume`) and that every offer recurs (`SF` of `ResourceOffers(<<o>>)`): a
declined offer comes back when its filter expires and what ended tasks used is
offered anew. `BaseLiveSpec` says the same of each agent and that tasks end.
`Framework` has `WF` of each goroutine and of what Mesos owes for each instance;
signals, repeated updates and failures are never owed. The power cappers have
`WF` of reading a line, since `pmdumptext` prints one every second, and of
handling it. Nothing else is assumed.

Deadlock is checked except where the program may stop: `Framework` (it exits),
`policies_nowatts` (`log.Fatal`), `no_policy`, `progressive` and `extrema`
(panic), `logging` (the Go runtime stops the program), `startup` (it exits, or
goes on as `Framework`).

## Proofs

All constants are arbitrary under the named `ASSUME`s of the modules; TLC
evaluates these in every run.

* `SchedPolicies_proofs`. The inductive invariant `IndInv` joins types, the
  queue (injective, exactly the tasks with instances left), the partition of the
  instances into pending, packed and launched, `Shutdown`, the totals of the
  current offer, and the loop positions. `PositionInQueue` is not inductive by
  itself: for max-min one needs how far `index` is from the end it started
  from, in terms of `i`, for either direction, and that a removal resets
  `start`. From `Invariance` follow `TypeCorrect`, `QueueCorrect`,
  `InstanceCorrect`, `ShutdownCorrect`, `OffersRespected`, `PositionCorrect`. The
  lemmas on `Without` and on sorting carry the argument about removal.
  `Refinement`: every step of `ConsumeOffers` is a `Reserve`, `TakeAndLaunch` or
  `LaunchReserved` of `Dispatch`, or leaves its state alone; it uses `IndInv` for
  "the queue holds exactly the pending tasks".

  The action properties are about what a scan has passed over. `PassedInv` says
  that no task before `i` fits the offer (first-fit, and the packing loops while
  nothing is packed), which gives `DeclineCorrect` and `FirstFitCorrect`: a task
  that did not fit cannot fit later, since the totals do not change before the
  first task is packed. `FirstPickCorrect` also needs that the queue is in order
  of watts while a sorting policy scans (`SortedInv`, kept by removal) and that
  max-greedymins and max-min have passed over what is heavier (`FirstPickInv`).
  It is stated without switching: with a window only a part of the queue is
  sorted.
* `Sums_proofs`. The sums of the model are `SumFunctionOnSet`, which folds a
  function over a set in the order in which `CHOOSE` picks the elements. The
  lemmas say that the fold exists, that it does not depend on the order, and how
  a sum changes with its set (`SumAdd`, `SumRemove`, `SumUnion`). Each is proved
  by a least counterexample among the cardinalities, since induction over a
  predicate is not available.
* `BaseScheduler_proofs`, for every workload, cluster, SPConfig, criterion and
  behaviour of Mesos. `BaseInv` joins `IndInv` with
  - `PlacedInv`: what Mesos has on an agent was launched, an update is repeated
    once and for an instance that is gone, and an agent the tracker does not know
    has neither;
  - `WithinCapacity`: Mesos never has more on an agent than the agent has. It
    holds because of `OffersInv` (an offer still to be answered is exactly what
    its agent has left, which answering the others does not change, as they come
    from other agents) and `TotalInv` (the totals a policy carries are the sums
    of what it packed), together with `NeverOverpacked`;
  - `AgreeInv`: the tracker's numbers as sums, from which
    `TrackerAgreesWithMesos` follows;
  - `WindowInv`: the counters and the window.

  A switch may leave no policy, and then nothing of this need hold; `Reached` is
  `BaseInv` or such a panic. From it `CountersReset`, `WindowFitsQueue`,
  `TrackerCorrect` and `SwitchingRefinement`, in every configuration.
  `WellConfigured` says when every switch finds a policy: some policy has a
  taskDist and, with round-robin, so have those to start with. Under it
  `PolicyAlwaysSelected`, `BaseTypeCorrect` and `WindowNeverExceeded`; the run
  `no_policy` is what happens without it, and `switching` an instance with it.

  Two results are about the algorithms rather than the steps.
  `ClassificationCorrect`: the last task of a window is needed to fill it, so
  what lies beyond the window is less than that task has, and a cluster that is
  not empty counts at least one instance; the two clusters are a partition, so
  their sums add up. `NearestPolicyCorrect`: policies can be sorted by their
  distributions (their ranks are the positions, `RingExists`), the binary search
  has a result (given in closed form, `SearchExists`), and any result is at the
  distribution or between two neighbours around it (`SearchEnds`, by the length
  of the interval).
* `ProgressiveExtrema_proofs`, for any number of hosts and failures:
  `StructuresAlwaysAgree`, `NeverTwoStepsOff`, `FurtherOnlyAfterEveryHost` and
  `TypeCorrect`. The inductive invariant adds `LoopInv`: each host the first loop
  has passed is capped or was tried in vain on this line (`triedInVain`), and the
  victims are all the hosts, so that the second loop starts with every other host
  capped.
* `Framework_proofs`. `ChannelInvariance` relates the three channels to the
  places of the goroutines and `Shutdown` to `pending`; from it `TypeCorrect`,
  `DoneCorrect`, `PCPLogCorrect`, `StopCorrect`, for any faults. `CountCorrect`
  needs `CountInv`: while Mesos behaves (`MesosBehaves`: no task has ended
  without running, no update was repeated) the map holds exactly the tasks whose
  last update was RUNNING, and Mesos knows nothing of an instance before its
  launch, so that misbehaviour lasts (`BehavedBefore`). Without the condition the
  count is wrong (`failed_start`).
* `Extrema_proofs`. `CapInvariance`, from it `StackCorrect`, `RecordCorrect` and
  `TypeCorrect`, for any number of hosts and failures.

* `Logging_proofs`, for any number of threads and any configurations.
  `FieldsNeverOutliveCalls` needs no more than types and that a field is only ever
  assigned by a call under way, but a reset must be shown to leave no field of the
  call that returns, in both of its steps. `AloneCallIsExact` needs what a call that was alone so far
  has written at each of its stages (the entries of the loggers passed, and the
  first of the current one's), that the map then holds its fields and nothing
  else, and that a thread alone is the only active one.
* `Startup_proofs`, for any flags and workloads. The inductive invariant says of
  each option that it is still in `options` or has had its effect (`Required`,
  `Optional`), and of each check that it was made once `main` is past it
  (`CheckedSoFar`); the lemmas `AppendPending`, `ConcatPending`, `TailPending` say
  how the options pending change. The table is made once from the workload
  (`TableIsMade`), and where names are unique an instance has an entry exactly when
  its task records it (`EntryOfInstance`, `NoEntryOfInstance`). From it `StartsOnlyIfValid`, `OptionsAgree`,
  `EveryInstanceRecorded`, `StartupTypes`.

The type invariants of `Framework`, `Logging` and `Startup` are part of these
proofs and need no run.

The assumptions that `SwitchAssumption` makes for the sake of the proofs are those
the code makes: finitely many agents and at least one, finitely many power
classes, `nil` not a policy and not an entry of the tracker, and that Mesos may
offer any part of an agent (so that what is free is an offer of `Offer`). Two are
the model's own: the distributions that are set are distinct (see
*BaseScheduler*), and `DistUnit` is a common multiple, so that distributions are
whole numbers.

Only model-checked: liveness (`EventuallyDrained`, `Terminates`,
`EventuallyAllLaunched`, `EventuallyAllAtLimit`, `EventuallyAllUncapped`,
`UncappedUnlessFailure`), which is outside the prover's reach. Every invariant and
every action property of a passing run has its theorem, `FirstPickIsExtreme`
without switching.

## Not modelled

* The throttle script: writes of kernel files on another machine.
* `runAvg`: nothing in the program calls it, and neither do `UpdateHost` and
  `SetTaskID`.
* The k-means library and the Mesos driver are external: what they may do is
  modelled from how the code uses them.
* Decoding of JSON and YAML, the text of log entries and their format.
* `HostNameToSlaveID`, `constants.Hosts` and `PowerClasses`: written, never read by
  code in use. Driver callbacks that only log are calls of `Logging`.
* Agents first offered while other frameworks use them.

## Plan

Done: all components but those above, and the proofs above. Left:

1. power capping composed with `Framework`: a panic or an exit in the middle of
   capping leaves hosts capped;
2. theorems beyond the runs' properties: that the window calculator never sizes
   a window beyond what is unused, and the choice of the first task within the
   sorted window when switching is enabled;
3. that `Framework` with the policies in place of `Dispatch` keeps its theorems,
   from `SwitchingRefinement`.
