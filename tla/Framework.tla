------------------------------ MODULE Framework ------------------------------
(***************************************************************************)
(* The life of the Elektron process, from its start to its exit: the       *)
(* callback thread of the Mesos driver (scheduling, abstracted to          *)
(* Dispatch, and StatusUpdate), the goroutine that waits on the Shutdown   *)
(* and Done channels, the goroutine that waits for a signal (scheduler.go, *)
(* main) and the goroutine that owns the pmdumptext process (pcp/pcp.go).  *)
(* Mesos is external: it runs the launched instances and reports each      *)
(* one's states in order, at least once.                                   *)
(***************************************************************************)
EXTENDS Dispatch, Integers, FiniteSets

CONSTANTS
    MayFailToStart,    \* an instance may end without ever running
    MaxRedeliveries,   \* bound: status updates Mesos delivers again
    MayInterrupt       \* the operator may send SIGINT

ASSUME FaultAssumption ==
    /\ MayFailToStart \in BOOLEAN
    /\ MaxRedeliveries \in Nat
    /\ MayInterrupt \in BOOLEAN

ASSUME InstanceAssumption == IsFiniteSet(Instance) /\ Instance # {}

VARIABLES
    mesos,             \* mesos[x]: what became of the instance
    seen,              \* seen[x]: the last update delivered for it
    redeliveries,
    Running,           \* BaseScheduler.Running, the agents left out
    tasksRunning,
    Done, PCPLog,      \* channels: "open", "closed", "panicked"
    shutdownPc,        \* the goroutine that waits for Shutdown, then Done
    signalPc,          \* the goroutine that waits for a signal
    driver,            \* "running", "stopped"
    exited,            \* main returned
    pcpPc,             \* pcp.Start
    pmdumptext         \* the child process: "none", "running", "killed"

mesosVars  == <<mesos, seen, redeliveries>>
statusVars == <<Running, tasksRunning>>
mainVars   == <<shutdownPc, signalPc, driver, exited>>
pcpVars    == <<pcpPc, pmdumptext>>
vars == <<dispatchVars, mesosVars, statusVars, Done, PCPLog, mainVars, pcpVars>>

------------------------------------------------------------------------------
(* close(c): closing a closed channel panics and ends the process.         *)
CloseChan(c) == IF c = "open" THEN "closed" ELSE "panicked"

Alive == ~exited /\ Done # "panicked" /\ PCPLog # "panicked"

(* The driver serialises its callbacks, and makes none once stopped.       *)
CallbackThread == Alive /\ driver = "running"

(* ResourceOffers: any behaviour Dispatch allows.  Until it has launched   *)
(* what it reserved, the callback has not returned.                        *)
Schedule ==
    /\ CallbackThread
    /\ DispatchNext
    /\ mesos' = [x \in Instance |-> IF x \in launched' \ launched
                                    THEN "staging" ELSE mesos[x]]
    /\ UNCHANGED <<seen, redeliveries, statusVars, Done, PCPLog, mainVars, pcpVars>>

CallbackFree == CallbackThread /\ reserved = {}

(* StatusUpdate for TASK_RUNNING.                                          *)
OnRunning(x) ==
    /\ Running' = Running \cup {x}
    /\ tasksRunning' = tasksRunning + 1
    /\ UNCHANGED Done

(* Mutant: Done is closed without a look at Shutdown.                      *)
DoneIgnoringShutdown(count) == IF count = 0 THEN CloseChan(Done) ELSE Done

(* Done after a terminal update has left count tasks running.              *)
DoneAfter(count) ==
    IF count = 0 /\ Shutdown = "closed" THEN CloseChan(Done) ELSE Done

(* Mutant: the count is not lowered for an instance that was running.      *)
TerminalKeepsCount(x) ==
    /\ Running' = Running \ {x}
    /\ tasksRunning' = tasksRunning
    /\ Done' = DoneAfter(tasksRunning')

(* StatusUpdate for a terminal state.                                      *)
OnTerminal(x) ==
    /\ Running' = Running \ {x}
    /\ tasksRunning' = tasksRunning - 1
    /\ Done' = DoneAfter(tasksRunning')

StatusRunning(x) ==
    /\ CallbackFree
    /\ seen[x] = "nothing"
    /\ mesos[x] \in {"running", "ended"}
    /\ seen' = [seen EXCEPT ![x] = "running"]
    /\ OnRunning(x)
    /\ UNCHANGED <<dispatchVars, mesos, redeliveries, PCPLog, mainVars, pcpVars>>

StatusTerminal(x) ==
    /\ CallbackFree
    /\ \/ seen[x] = "running" /\ mesos[x] = "ended"
       \/ seen[x] = "nothing" /\ mesos[x] = "failed"
    /\ seen' = [seen EXCEPT ![x] = "terminal"]
    /\ OnTerminal(x)
    /\ UNCHANGED <<dispatchVars, mesos, redeliveries, PCPLog, mainVars, pcpVars>>

(* An update whose acknowledgement was lost is delivered once more.        *)
StatusAgain(x) ==
    /\ CallbackFree
    /\ redeliveries < MaxRedeliveries
    /\ redeliveries' = redeliveries + 1
    /\ \/ seen[x] = "running" /\ OnRunning(x)
       \/ seen[x] = "terminal" /\ OnTerminal(x)
    /\ UNCHANGED <<dispatchVars, mesos, seen, PCPLog, mainVars, pcpVars>>

------------------------------------------------------------------------------
(* Mesos: the executor starts the instance, which runs to its end; or the  *)
(* agent, the image or the executor fails before it runs.                  *)
MesosStep(x, from, to) ==
    /\ mesos[x] = from
    /\ mesos' = [mesos EXCEPT ![x] = to]
    /\ UNCHANGED <<dispatchVars, seen, redeliveries, statusVars, Done, PCPLog,
                   mainVars, pcpVars>>

MesosRuns(x) == MesosStep(x, "staging", "running")

MesosEnds(x) == MesosStep(x, "running", "ended")

MesosFails(x) == MayFailToStart /\ MesosStep(x, "staging", "failed")

------------------------------------------------------------------------------
(* main's shutdown goroutine: <-shutdown, <-done, close(pcpLog), sleep     *)
(* five seconds, driver.Stop.                                              *)
ShutdownSeen ==
    /\ Alive
    /\ shutdownPc = "awaitShutdown"
    /\ Shutdown = "closed"
    /\ shutdownPc' = "awaitDone"
    /\ UNCHANGED <<dispatchVars, mesosVars, statusVars, Done, PCPLog, signalPc,
                   driver, exited, pcpVars>>

(* Mutant: the goroutine does not wait for Done.                           *)
DoneNotAwaited ==
    /\ Alive
    /\ shutdownPc = "awaitDone"
    /\ PCPLog' = CloseChan(PCPLog)
    /\ shutdownPc' = "sleep"
    /\ UNCHANGED <<dispatchVars, mesosVars, statusVars, Done, signalPc, driver,
                   exited, pcpVars>>

DoneSeen ==
    /\ Alive
    /\ shutdownPc = "awaitDone"
    /\ Done = "closed"
    /\ PCPLog' = CloseChan(PCPLog)
    /\ shutdownPc' = "sleep"
    /\ UNCHANGED <<dispatchVars, mesosVars, statusVars, Done, signalPc, driver,
                   exited, pcpVars>>

DriverStop ==
    /\ Alive
    /\ shutdownPc = "sleep"
    /\ driver' = "stopped"
    /\ shutdownPc' = "finished"
    /\ UNCHANGED <<dispatchVars, mesosVars, statusVars, Done, PCPLog, signalPc,
                   exited, pcpVars>>

(* driver.Run returns and with it main.                                    *)
MainReturns ==
    /\ Alive
    /\ driver = "stopped"
    /\ exited' = TRUE
    /\ UNCHANGED <<dispatchVars, mesosVars, statusVars, Done, PCPLog, shutdownPc,
                   signalPc, driver, pcpVars>>

(* main's signal goroutine on SIGINT.  (Its other branch is for os.Kill,   *)
(* which no process can catch.)  A second SIGINT finds no reader.          *)
Interrupt ==
    /\ Alive
    /\ MayInterrupt
    /\ signalPc = "await"
    /\ signalPc' = "handled"
    /\ Done' = CloseChan(Done)
    /\ UNCHANGED <<dispatchVars, mesosVars, statusVars, PCPLog, shutdownPc,
                   driver, exited, pcpVars>>

------------------------------------------------------------------------------
(* pcp.Start: run pmdumptext in a process group of its own, wait for quit, *)
(* sleep five seconds, kill the group.  Nothing else ends that group.      *)
PcpStart ==
    /\ Alive
    /\ pcpPc = "start"
    /\ pcpPc' = "awaitQuit"
    /\ pmdumptext' = "running"
    /\ UNCHANGED <<dispatchVars, mesosVars, statusVars, Done, PCPLog, mainVars>>

PcpQuit ==
    /\ Alive
    /\ pcpPc = "awaitQuit"
    /\ PCPLog = "closed"
    /\ pcpPc' = "sleep"
    /\ UNCHANGED <<dispatchVars, mesosVars, statusVars, Done, PCPLog, mainVars,
                   pmdumptext>>

PcpKill ==
    /\ Alive
    /\ pcpPc = "sleep"
    /\ pcpPc' = "finished"
    /\ pmdumptext' = "killed"
    /\ UNCHANGED <<dispatchVars, mesosVars, statusVars, Done, PCPLog, mainVars>>

------------------------------------------------------------------------------
Init ==
    /\ DispatchInit
    /\ mesos = [x \in Instance |-> "unknown"]
    /\ seen = [x \in Instance |-> "nothing"]
    /\ redeliveries = 0
    /\ Running = {}
    /\ tasksRunning = 0
    /\ Done = "open"
    /\ PCPLog = "open"
    /\ shutdownPc = "awaitShutdown"
    /\ signalPc = "await"
    /\ driver = "running"
    /\ exited = FALSE
    /\ pcpPc = "start"
    /\ pmdumptext = "none"

StatusUpdate == \E x \in Instance : StatusRunning(x) \/ StatusTerminal(x)

MesosProgress == \E x \in Instance : MesosRuns(x) \/ MesosEnds(x) \/ MesosFails(x)

MainSteps == ShutdownSeen \/ DoneSeen \/ DriverStop \/ MainReturns

PcpSteps == PcpStart \/ PcpQuit \/ PcpKill

Next ==
    \/ Schedule
    \/ StatusUpdate
    \/ \E x \in Instance : StatusAgain(x)
    \/ MesosProgress
    \/ MainSteps
    \/ Interrupt
    \/ PcpSteps

Spec == Init /\ [][Next]_vars

(* Goroutines and the callback thread are not starved, Mesos keeps         *)
(* offering (SchedPolicies!EventuallyDrained), runs what it accepted to    *)
(* its end and delivers every update.  Signals and repeated updates are    *)
(* never owed.                                                             *)
LiveSpec ==
    /\ Spec
    /\ WF_vars(Schedule)
    /\ WF_vars(MainSteps)
    /\ WF_vars(PcpSteps)
    /\ \A x \in Instance :
         /\ WF_vars(StatusRunning(x) \/ StatusTerminal(x))
         /\ WF_vars(MesosRuns(x) \/ MesosEnds(x) \/ MesosFails(x))

------------------------------------------------------------------------------
(* PROPERTIES *)

Chan == {"open", "closed", "panicked"}

(* Every variable has its type.                                            *)
TypeOK ==
    /\ pending \subseteq Instance
    /\ reserved \subseteq Instance
    /\ launched \subseteq Instance
    /\ Shutdown \in {"open", "closed"}
    /\ mesos \in [Instance -> {"unknown", "staging", "running", "ended", "failed"}]
    /\ seen \in [Instance -> {"nothing", "running", "terminal"}]
    /\ redeliveries \in 0 .. MaxRedeliveries
    /\ Running \subseteq Instance
    /\ tasksRunning \in Int
    /\ Done \in Chan /\ PCPLog \in Chan
    /\ shutdownPc \in {"awaitShutdown", "awaitDone", "sleep", "finished"}
    /\ signalPc \in {"await", "handled"}
    /\ driver \in {"running", "stopped"}
    /\ exited \in BOOLEAN
    /\ pcpPc \in {"start", "awaitQuit", "sleep", "finished"}
    /\ pmdumptext \in {"none", "running", "killed"}

(* So far every task ran before it ended and each update came once.        *)
MesosBehaves == redeliveries = 0 /\ \A x \in Instance : mesos[x] # "failed"

(* While Mesos reports RUNNING before every terminal state and delivers    *)
(* each update once, the counter tasksRunning, which StatusUpdate trusts   *)
(* to decide about Done, counts the tasks of the Running map.              *)
RunningCount == MesosBehaves => tasksRunning = Cardinality(Running)

(* Without a signal, Done is closed only after Shutdown: an early lull     *)
(* with no task running does not end the framework.                        *)
DoneAfterShutdown ==
    Done # "open" /\ signalPc = "await" => Shutdown = "closed"

(* Logging is told to quit only after both Shutdown and Done, signal or    *)
(* not, and told once: of the three channels only Done can be closed twice.*)
PCPLogAfterBoth ==
    PCPLog # "open" => PCPLog = "closed" /\ Done # "open" /\ Shutdown = "closed"

(* Without a signal, the driver is stopped only when every instance of the *)
(* workload was handed to it: no callback is left with tasks it reserved.  *)
StopOnlyWhenAllLaunched ==
    driver = "stopped" /\ signalPc = "await" => launched = Instance

Ended == exited \/ Done = "panicked"

(* While Mesos behaves and no one interrupts, the process ends.            *)
Terminates == [](MesosBehaves /\ signalPc = "await") => <>Ended

(* base.go: Done "is closed after shutdown is closed, and only when all    *)
(* outstanding tasks have been cleaned up".  The code closes it at the     *)
(* first lull after Shutdown, with launched tasks still to start.          *)
DoneWhenAllCleanedUp ==
    Done # "open" /\ signalPc = "await" => \A x \in Instance : seen[x] = "terminal"

(* scheduler.go: Done means "all scheduled tasks have completed execution  *)
(* and framework can shutdown".  When a task ended without running, the    *)
(* counter is off by one for good, and the process may never end.          *)
CompletionEndsProcess == (\A x \in Instance : seen[x] = "terminal") ~> Ended
==============================================================================
