-------------------------- MODULE Framework_proofs ---------------------------
(***************************************************************************)
(* Proofs about Framework, for every workload and any mix of failed        *)
(* starts, repeated updates and signals.                                   *)
(***************************************************************************)
EXTENDS Framework, FiniteSetTheorems, TLAPS

(* The workload is split into pending, reserved and launched instances,    *)
(* and Shutdown is closed exactly when none is pending.                    *)
DispatchInv ==
    /\ pending \cup reserved \cup launched = Instance
    /\ Shutdown = "closed" <=> pending = {}

(* Without a signal, Done is closed by a callback that comes after the     *)
(* last one that reserved an instance.                                     *)
DoneInv ==
    Done # "open" /\ signalPc = "await" => Shutdown = "closed" /\ reserved = {}

(* How far the shutdown goroutine is tells which channels are closed.      *)
ShutdownInv ==
    /\ shutdownPc # "awaitShutdown" => Shutdown = "closed"
    /\ PCPLog = IF shutdownPc \in {"sleep", "finished"} THEN "closed" ELSE "open"
    /\ shutdownPc \in {"sleep", "finished"} => Done # "open"
    /\ driver = "stopped" => shutdownPc = "finished"

ChannelInv == TypeOK /\ DispatchInv /\ DoneInv /\ ShutdownInv

------------------------------------------------------------------------------
(* A step of the scheduling half keeps the split of the workload.          *)
LEMMA DispatchStep ==
    ASSUME TypeOK, DispatchInv, DispatchNext
    PROVE  /\ pending' \subseteq Instance /\ reserved' \subseteq Instance
           /\ launched' \subseteq Instance /\ Shutdown' \in {"open", "closed"}
           /\ DispatchInv'
           /\ Shutdown = "closed" => Shutdown' = "closed"
           /\ Shutdown = "closed" /\ reserved = {} => reserved' = {}
<1>1. ASSUME NEW x \in pending, Reserve(x) \/ TakeAndLaunch(x)
      PROVE  /\ pending' = pending \ {x} /\ Shutdown = "open"
             /\ reserved' \cup launched' = reserved \cup launched \cup {x}
             /\ Shutdown' = IF pending' = {} THEN "closed" ELSE Shutdown
  BY <1>1 DEF Reserve, TakeAndLaunch, Take, TypeOK, DispatchInv
<1>2. ASSUME NEW x \in pending, Reserve(x) \/ TakeAndLaunch(x)
      PROVE  /\ pending' \cup reserved' \cup launched' = Instance
             /\ Shutdown' \in {"open", "closed"} /\ Shutdown = "open"
             /\ Shutdown' = "closed" <=> pending' = {}
  BY <1>1, <1>2 DEF DispatchInv
<1>3. ASSUME LaunchReserved
      PROVE  /\ pending' = pending /\ reserved' = {} /\ Shutdown' = Shutdown
             /\ launched' = launched \cup reserved
  BY <1>3 DEF LaunchReserved
<1>4. CASE \E x \in pending : Reserve(x) \/ TakeAndLaunch(x)
  BY <1>2, <1>4 DEF DispatchInv
<1>5. CASE LaunchReserved
  BY <1>3, <1>5 DEF DispatchInv, TypeOK
<1> QED
  BY <1>4, <1>5 DEF DispatchNext

(* Every step keeps the type invariant.                                    *)
LEMMA TypeStep ==
    ASSUME TypeOK, DispatchInv, Next
    PROVE  TypeOK'
<1>1. CASE Schedule
  <2>1. /\ pending' \subseteq Instance /\ reserved' \subseteq Instance
        /\ launched' \subseteq Instance /\ Shutdown' \in {"open", "closed"}
    BY <1>1, DispatchStep DEF Schedule
  <2> QED
    BY <1>1, <2>1 DEF Schedule, TypeOK, statusVars, mainVars, pcpVars
<1>2. ASSUME NEW x \in Instance,
             \/ StatusRunning(x) \/ StatusTerminal(x) \/ StatusAgain(x)
      PROVE  TypeOK'
  <2>1. ASSUME NEW c \in Int PROVE DoneAfter(c) \in Chan
    BY DEF DoneAfter, CloseChan, Chan, TypeOK
  <2>2. ASSUME OnRunning(x) \/ OnTerminal(x)
        PROVE  Running' \subseteq Instance /\ tasksRunning' \in Int /\ Done' \in Chan
    BY <2>1, <2>2 DEF OnRunning, OnTerminal, TypeOK
  <2>3. /\ Running' \subseteq Instance /\ tasksRunning' \in Int /\ Done' \in Chan
        /\ seen' \in [Instance -> {"nothing", "running", "terminal"}]
        /\ redeliveries' \in 0 .. MaxRedeliveries
    BY <1>2, <2>2, FaultAssumption DEF StatusRunning, StatusTerminal, StatusAgain, TypeOK
  <2>4. UNCHANGED <<dispatchVars, mesos, PCPLog, mainVars, pcpVars>>
    BY <1>2 DEF StatusRunning, StatusTerminal, StatusAgain
  <2> QED
    BY <2>3, <2>4 DEF TypeOK, dispatchVars, mainVars, pcpVars
<1>3. ASSUME NEW x \in Instance, MesosRuns(x) \/ MesosEnds(x) \/ MesosFails(x)
      PROVE  TypeOK'
  BY <1>3 DEF MesosRuns, MesosEnds, MesosFails, MesosStep, TypeOK, dispatchVars,
              statusVars, mainVars, pcpVars
<1>4. CASE MainSteps \/ Interrupt
  <2>1. exited' \in BOOLEAN
    BY <1>4, Zenon DEF MainSteps, ShutdownSeen, DoneSeen, DriverStop, MainReturns,
                       Interrupt, mainVars, TypeOK
  <2> QED
    BY <1>4, <2>1
    DEF MainSteps, ShutdownSeen, DoneSeen, DriverStop, MainReturns, Interrupt,
        CloseChan, Chan, TypeOK, dispatchVars, mesosVars, statusVars, pcpVars
<1>5. CASE PcpSteps
  BY <1>5 DEF PcpSteps, PcpStart, PcpQuit, PcpKill, TypeOK, dispatchVars,
              mesosVars, statusVars, mainVars
<1> QED
  BY <1>1, <1>2, <1>3, <1>4, <1>5 DEF Next, StatusUpdate, MesosProgress

(* Every step keeps the relations between the channels.                    *)
LEMMA ChannelStep ==
    ASSUME ChannelInv, Next
    PROVE  DispatchInv' /\ DoneInv' /\ ShutdownInv'
<1> USE DEF ChannelInv
<1>1. CASE Schedule
  <2>1. /\ DispatchInv' /\ (Shutdown = "closed" => Shutdown' = "closed")
        /\ Shutdown = "closed" /\ reserved = {} => reserved' = {}
    BY <1>1, DispatchStep DEF Schedule
  <2> QED
    BY <1>1, <2>1 DEF Schedule, DoneInv, ShutdownInv, mainVars
<1>2. ASSUME NEW x \in Instance,
             \/ StatusRunning(x) \/ StatusTerminal(x) \/ StatusAgain(x)
      PROVE  DispatchInv' /\ DoneInv' /\ ShutdownInv'
  <2>1. reserved = {} /\ UNCHANGED <<dispatchVars, PCPLog, mainVars>>
    BY <1>2 DEF StatusRunning, StatusTerminal, StatusAgain, CallbackFree
  <2>2. OnRunning(x) \/ OnTerminal(x)
    BY <1>2 DEF StatusRunning, StatusTerminal, StatusAgain
  <2>3. Done' = Done \/ (Shutdown = "closed" /\ Done' = CloseChan(Done))
    BY <2>2 DEF OnRunning, OnTerminal, DoneAfter
  <2> QED
    BY <2>1, <2>3
    DEF dispatchVars, mainVars, DispatchInv, DoneInv, ShutdownInv, CloseChan
<1>3. CASE MesosProgress \/ PcpSteps
  BY <1>3
  DEF MesosProgress, MesosRuns, MesosEnds, MesosFails, MesosStep, PcpSteps,
      PcpStart, PcpQuit, PcpKill, dispatchVars, mainVars, DispatchInv, DoneInv,
      ShutdownInv
<1>4. CASE MainSteps
  BY <1>4
  DEF MainSteps, ShutdownSeen, DoneSeen, DriverStop, MainReturns, CloseChan,
      dispatchVars, DispatchInv, DoneInv, ShutdownInv, TypeOK
<1>5. CASE Interrupt
  BY <1>5 DEF Interrupt, CloseChan, dispatchVars, DispatchInv, DoneInv, ShutdownInv
<1> QED
  BY <1>1, <1>2, <1>3, <1>4, <1>5 DEF Next, StatusUpdate

(* The channel invariant holds in every reachable state.                   *)
THEOREM ChannelInvariance == Spec => []ChannelInv
<1>1. Init => ChannelInv
  <2> SUFFICES ASSUME Init PROVE ChannelInv
    OBVIOUS
  <2>1. exited \in BOOLEAN
    BY Zenon DEF Init
  <2>2. TypeOK
    BY <2>1, FaultAssumption DEF Init, DispatchInit, TypeOK, Chan
  <2> QED
    BY <2>2, InstanceAssumption
    DEF Init, DispatchInit, ChannelInv, DispatchInv, DoneInv, ShutdownInv
<1>2. ASSUME ChannelInv, [Next]_vars PROVE ChannelInv'
  <2>1. CASE Next
    BY <1>2, <2>1, TypeStep, ChannelStep DEF ChannelInv
  <2>2. CASE UNCHANGED vars
    BY <1>2, <2>2
    DEF vars, dispatchVars, mesosVars, statusVars, mainVars, pcpVars, ChannelInv,
        TypeOK, DispatchInv, DoneInv, ShutdownInv
  <2> QED
    BY <1>2, <2>1, <2>2
<1> QED
  BY <1>1, <1>2, PTL DEF Spec

(* Every variable keeps its type.                                          *)
THEOREM TypeCorrect == Spec => []TypeOK
<1>1. ChannelInv => TypeOK
  BY DEF ChannelInv
<1> QED
  BY <1>1, ChannelInvariance, PTL

(* Without a signal StatusUpdate closes Done only after Shutdown, whatever *)
(* updates Mesos loses, repeats or invents.                                *)
THEOREM DoneCorrect == Spec => []DoneAfterShutdown
<1>1. ChannelInv => DoneAfterShutdown
  BY DEF ChannelInv, DoneInv, DoneAfterShutdown
<1> QED
  BY <1>1, ChannelInvariance, PTL

(* The shutdown goroutine tells logging to quit after both channels, once. *)
THEOREM PCPLogCorrect == Spec => []PCPLogAfterBoth
<1>1. ChannelInv => PCPLogAfterBoth
  BY DEF ChannelInv, ShutdownInv, PCPLogAfterBoth
<1> QED
  BY <1>1, ChannelInvariance, PTL

(* Without a signal the driver is stopped only when the whole workload was *)
(* handed to it.                                                           *)
THEOREM StopCorrect == Spec => []StopOnlyWhenAllLaunched
<1>1. ChannelInv => StopOnlyWhenAllLaunched
  BY DEF ChannelInv, DispatchInv, DoneInv, ShutdownInv, StopOnlyWhenAllLaunched
<1> QED
  BY <1>1, ChannelInvariance, PTL

------------------------------------------------------------------------------
(* What ties the counter to the map: the map holds the tasks whose last    *)
(* update was RUNNING.                                                     *)
Counted ==
    /\ Running = {x \in Instance : seen[x] = "running"}
    /\ tasksRunning = Cardinality(Running)

(* Mesos knows nothing of an instance before it is launched.               *)
UnknownBefore == \A x \in Instance : x \notin launched => mesos[x] = "unknown"

CountInv == UnknownBefore /\ (MesosBehaves => Counted)

(* A RUNNING update for a task not in the map.                             *)
LEMMA CountUp ==
    ASSUME TypeOK, Counted, NEW x \in Instance, StatusRunning(x)
    PROVE  Counted'
<1>1. IsFiniteSet(Running)
  BY InstanceAssumption, FS_Subset DEF TypeOK
<1>2. x \notin Running
  BY DEF Counted, StatusRunning
<1>3. Cardinality(Running') = Cardinality(Running) + 1
  BY <1>1, <1>2, FS_AddElement DEF StatusRunning, OnRunning
<1>4. Running' = {y \in Instance : seen'[y] = "running"}
  BY DEF Counted, StatusRunning, OnRunning, TypeOK
<1> QED
  BY <1>3, <1>4 DEF Counted, StatusRunning, OnRunning

(* A terminal update for a task of the map.                                *)
LEMMA CountDown ==
    ASSUME TypeOK, MesosBehaves, Counted, NEW x \in Instance, StatusTerminal(x)
    PROVE  Counted'
<1>1. IsFiniteSet(Running)
  BY InstanceAssumption, FS_Subset DEF TypeOK
<1>2. x \in Running
  BY DEF MesosBehaves, Counted, StatusTerminal
<1>3. Cardinality(Running') = Cardinality(Running) - 1
  BY <1>1, <1>2, FS_RemoveElement DEF StatusTerminal, OnTerminal
<1>4. Running' = {y \in Instance : seen'[y] = "running"}
  BY DEF Counted, StatusTerminal, OnTerminal, TypeOK
<1> QED
  BY <1>3, <1>4 DEF Counted, StatusTerminal, OnTerminal

(* The other steps leave the counter, the map and what was seen alone.     *)
LEMMA CountStutter ==
    ASSUME Counted, UNCHANGED <<statusVars, seen>>
    PROVE  Counted'
BY DEF Counted, statusVars

(* Launching makes Mesos know of an instance, which it forgets never.      *)
LEMMA UnknownStep ==
    ASSUME TypeOK, UnknownBefore, [Next]_vars
    PROVE  UnknownBefore'
<1>1. CASE Schedule
  <2>1. launched \subseteq launched'
    BY <1>1 DEF Schedule, DispatchNext, Reserve, TakeAndLaunch, LaunchReserved, Take
  <2> QED
    BY <1>1, <2>1 DEF Schedule, UnknownBefore
<1>2. CASE MesosProgress
  BY <1>2 DEF MesosProgress, MesosRuns, MesosEnds, MesosFails, MesosStep,
              dispatchVars, TypeOK, UnknownBefore
<1>3. CASE UNCHANGED <<dispatchVars, mesos>>
  BY <1>3 DEF dispatchVars, UnknownBefore
<1>4. CASE StatusUpdate \/ \E x \in Instance : StatusAgain(x)
  BY <1>3, <1>4 DEF StatusUpdate, StatusRunning, StatusTerminal, StatusAgain
<1>5. CASE MainSteps \/ Interrupt \/ PcpSteps \/ UNCHANGED vars
  BY <1>3, <1>5 DEF MainSteps, ShutdownSeen, DoneSeen, DriverStop, MainReturns,
                    Interrupt, PcpSteps, PcpStart, PcpQuit, PcpKill, mesosVars, vars
<1> QED
  BY <1>1, <1>2, <1>4, <1>5 DEF Next

(* Once Mesos has misbehaved it has for good.                              *)
LEMMA BehavedBefore ==
    ASSUME TypeOK, UnknownBefore, [Next]_vars, MesosBehaves'
    PROVE  MesosBehaves
<1>1. CASE Schedule
  <2>1. ASSUME NEW x \in Instance PROVE mesos[x] # "failed"
    <3>1. CASE x \in launched
      BY <1>1, <3>1 DEF Schedule, MesosBehaves
    <3>2. CASE x \notin launched
      BY <3>2 DEF UnknownBefore
    <3> QED
      BY <3>1, <3>2
  <2> QED
    BY <1>1, <2>1 DEF Schedule, MesosBehaves
<1>2. CASE MesosProgress
  BY <1>2 DEF MesosProgress, MesosRuns, MesosEnds, MesosFails, MesosStep, TypeOK,
              MesosBehaves
<1>3. CASE \E x \in Instance : StatusAgain(x)
  BY <1>3 DEF StatusAgain, TypeOK, MesosBehaves
<1>4. CASE UNCHANGED <<mesos, redeliveries>>
  BY <1>4 DEF MesosBehaves
<1>5. CASE StatusUpdate
  BY <1>4, <1>5 DEF StatusUpdate, StatusRunning, StatusTerminal
<1>6. CASE MainSteps \/ Interrupt \/ PcpSteps \/ UNCHANGED vars
  BY <1>4, <1>6 DEF MainSteps, ShutdownSeen, DoneSeen, DriverStop, MainReturns,
                    Interrupt, PcpSteps, PcpStart, PcpQuit, PcpKill, mesosVars, vars
<1> QED
  BY <1>1, <1>2, <1>3, <1>5, <1>6 DEF Next

(* While no task has failed to start and no update was repeated,           *)
(* tasksRunning is the number of tasks StatusUpdate has in its map.        *)
THEOREM CountCorrect == Spec => []RunningCount
<1>1. Init => CountInv
  <2>1. Cardinality({}) = 0
    BY FS_EmptySet
  <2> QED
    BY <2>1 DEF Init, CountInv, Counted, UnknownBefore
<1>2. ASSUME TypeOK, CountInv, [Next]_vars PROVE CountInv'
  <2>1. UnknownBefore'
    BY <1>2, UnknownStep DEF CountInv
  <2>2. ASSUME MesosBehaves' PROVE Counted'
    <3>1. MesosBehaves /\ Counted
      BY <1>2, <2>2, BehavedBefore DEF CountInv
    <3>2. CASE StatusUpdate
      BY <1>2, <3>1, <3>2, CountUp, CountDown DEF StatusUpdate
    <3>3. CASE \E x \in Instance : StatusAgain(x)
      BY <1>2, <2>2, <3>3 DEF StatusAgain, TypeOK, MesosBehaves
    <3>4. CASE UNCHANGED <<statusVars, seen>>
      BY <3>1, <3>4, CountStutter
    <3>5. CASE Schedule \/ MesosProgress
      BY <3>4, <3>5 DEF Schedule, MesosProgress, MesosRuns, MesosEnds, MesosFails,
                        MesosStep
    <3>6. CASE MainSteps \/ Interrupt \/ PcpSteps \/ UNCHANGED vars
      BY <3>4, <3>6 DEF MainSteps, ShutdownSeen, DoneSeen, DriverStop, MainReturns,
                        Interrupt, PcpSteps, PcpStart, PcpQuit, PcpKill, mesosVars,
                        vars
    <3> QED
      BY <1>2, <3>2, <3>3, <3>5, <3>6 DEF Next
  <2> QED
    BY <2>1, <2>2 DEF CountInv
<1>3. CountInv => RunningCount
  BY DEF CountInv, Counted, RunningCount
<1> QED
  BY <1>1, <1>2, <1>3, TypeCorrect, PTL DEF Spec
==============================================================================
