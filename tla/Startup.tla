------------------------------- MODULE Startup -------------------------------
(***************************************************************************)
(* main in scheduler.go up to driver.Run: the flags are checked one after  *)
(* the other, options for the scheduler are collected on the way, the      *)
(* workload is read and validated, SchedFactory applies the options in     *)
(* order, the logger is built and only then the PCP goroutine started.     *)
(* Any of these may end the process.  The flags, the files they name and   *)
(* the Mesos library (external) may be anything the constants allow.       *)
(***************************************************************************)
EXTENDS Integers, Sequences, Functions

CONSTANTS
    PolicyNames,        \* values of -schedPolicy
    SchedPolicies,      \* the keys of schedulers.SchedPolicies
    SwitchFlags,        \* values of the flags about switching
    PowerCaps,          \* values of -powercap
    Thresholds,         \* values of -hiThreshold and -loThreshold
    Workloads,          \* task files that can be decoded
    nil                 \* no value

Criteria == {"taskDist", "round-robin", "rev-round-robin"}

(* A task of the file; Instances is a pointer, and inst may be missing.    *)
TaskDef == [Name: STRING, Image: STRING, CPU: Int, RAM: Int, Watts: Int,
            Instances: Int \cup {nil}]

(* The flags about switching; an unknown criterion stands for all of them. *)
SwitchFlag == [file: {"none", "unreadable", "read"}, criteria: Criteria \cup {"unknown"},
               first: PolicyNames \cup {nil}, fix: BOOLEAN, size: Int]

ASSUME StartupAssumption ==
    /\ "first-fit" \in SchedPolicies
    /\ SwitchFlags \subseteq SwitchFlag
    /\ Thresholds \subseteq Int
    /\ Workloads \subseteq Seq(TaskDef)
    /\ nil \notin Int \cup SchedPolicies \cup Criteria

VARIABLES
    pc,                 \* how far main is
    flags,              \* the flags read so far that are used again
    options,            \* schedOptions: what SchedFactory will apply
    sched,              \* the BaseScheduler
    tasks,              \* the decoded workload
    taskResourceRequirement,  \* by name and instance
    pcpGoroutine        \* the PCP goroutine, nil while it is not started

vars == <<pc, flags, options, sched, tasks, taskResourceRequirement, pcpGoroutine>>

Init ==
    /\ pc = "list"
    /\ flags = [policy |-> "first-fit", waar |-> FALSE, cmw |-> FALSE,
                switch |-> [file |-> "none", criteria |-> "taskDist", first |-> nil,
                            fix |-> FALSE, size |-> 200],
                cap |-> "none", hi |-> 700, lo |-> 400]
    /\ options = <<>>
    /\ sched = [curSchedPolicy |-> nil, schedPolSwitchEnabled |-> FALSE,
                schedPolSwitchCriteria |-> nil, nameOfFstSchedPolToDeploy |-> nil,
                toFixSchedWindow |-> FALSE, schedWindowSize |-> 0,
                wattsAsAResource |-> FALSE, classMapWatts |-> FALSE,
                channels |-> {}, tasks |-> <<>>]
    /\ tasks = <<>>
    /\ taskResourceRequirement = <<>>
    /\ pcpGoroutine = nil

(* A check of main: on to the next one, or the end of the process.         *)
Continue(ok, next) == pc' = IF ok THEN next ELSE "exited"

(* -listSchedPolicies lists the policies and exits.                        *)
ListPolicies(list) ==
    /\ pc = "list"
    /\ Continue(~list, "policy")
    /\ UNCHANGED <<flags, options, sched, tasks, taskResourceRequirement, pcpGoroutine>>

CheckPolicy(name) ==
    /\ pc = "policy"
    /\ Continue(name \in SchedPolicies, "switching")
    /\ flags' = [flags EXCEPT !.policy = name]
    /\ options' = options \o <<"Shutdown", "Done", "SchedPolicy">>
    /\ UNCHANGED <<sched, tasks, taskResourceRequirement, pcpGoroutine>>

(* -switchSchedPolicy.  The error of InitSchedPolicyCharacteristics for a  *)
(* file that cannot be read is ignored.                                    *)
EnableSwitching(switch) ==
    /\ pc = "switching"
    /\ Continue(switch.file # "none", "watts")
    /\ flags' = [flags EXCEPT !.switch = switch]
    /\ options' = options \o <<"SchedPolSwitchEnabled", "NameOfFirstSchedPolToFix",
                               "FixedSchedulingWindow">>
    /\ UNCHANGED <<sched, tasks, taskResourceRequirement, pcpGoroutine>>

NoSwitching ==
    /\ pc = "switching"
    /\ pc' = "watts"
    /\ UNCHANGED <<flags, options, sched, tasks, taskResourceRequirement, pcpGoroutine>>

(* Mutant: the option for class-to-watts does not wait for -wattsAsAResource *)
WattsOptionsAlways(waar) ==
    (IF waar THEN <<"WattsAsAResource">> ELSE <<>>) \o <<"ClassMapWatts">>

WattsOptions(waar) ==
    IF waar THEN <<"WattsAsAResource", "ClassMapWatts">> ELSE <<>>

Watts(waar, cmw) ==
    /\ pc = "watts"
    /\ pc' = "powercap"
    /\ flags' = [flags EXCEPT !.waar = waar, !.cmw = cmw]
    /\ options' = options \o WattsOptions(waar) \o <<"RecordPCP", "PCPLog">>
    /\ UNCHANGED <<sched, tasks, taskResourceRequirement, pcpGoroutine>>

(* Mutant: the thresholds are only compared for extrema.                   *)
ThresholdsOKExtremaOnly(cap, hi, lo) == cap = "extrema" => hi >= lo

(* The thresholds only matter when a capper will use them.                 *)
ThresholdsOK(cap, hi, lo) == cap \in {"extrema", "prog-extrema"} => hi >= lo

PowerCap(cap, hi, lo) ==
    /\ pc = "powercap"
    /\ Continue(/\ cap \in {"none", "extrema", "prog-extrema"}
                /\ ThresholdsOK(cap, hi, lo), "tasks")
    /\ flags' = [flags EXCEPT !.cap = cap, !.hi = hi, !.lo = lo]
    /\ UNCHANGED <<options, sched, tasks, taskResourceRequirement, pcpGoroutine>>

------------------------------------------------------------------------------
(* The validators of a task: name, image and resources, in this order; any *)
(* error ends the process.  They do not look at inst.                      *)
NameOK(t) == t.Name \notin {"", "with space"}
ImageOK(t) == t.Image # ""
ResourcesOK(t) == t.CPU # 0 /\ t.RAM # 0

TaskOK(t) == NameOK(t) /\ ImageOK(t) /\ ResourcesOK(t)

(* Mutant: only the first task is validated.                               *)
ValidateFirst(w) == w = <<>> \/ TaskOK(w[1])

Validate(w) == \A k \in DOMAIN w : TaskOK(w[k])

(* Mutant: the loop over the instances stops one short.                    *)
InstancesToRecord(t) == 2 .. t.Instances

RecordedInstances(t) == 1 .. t.Instances

(* initTaskResourceRequirements: by TaskID, which is made of the name and  *)
(* the instance; a later task of the same name overwrites an earlier one.  *)
initTaskResourceRequirements(w) ==
    LET ids == UNION {{<<w[k].Name, n>> : n \in RecordedInstances(w[k])} :
                        k \in DOMAIN w}
        last(id) == CHOOSE k \in DOMAIN w :
                      /\ w[k].Name = id[1] /\ id[2] \in RecordedInstances(w[k])
                      /\ \A j \in DOMAIN w :
                           w[j].Name = id[1] /\ id[2] \in RecordedInstances(w[j])
                             => j <= k
    IN [id \in ids |-> [CPU |-> w[last(id)].CPU, Ram |-> w[last(id)].RAM,
                        Watts |-> w[last(id)].Watts]]

(* The instances of a task that first-fit, and the CheckFit of max-min and *)
(* max-greedymins, launch: each is numbered by the instances left, and the *)
(* task is removed when none is.  A task that never had any is launched    *)
(* all the same before that is looked at (by bin-packing it never is).     *)
LaunchedInstances(t) == IF t.Instances > 0 THEN 1 .. t.Instances ELSE {t.Instances}

(* No -workload, or TasksFromJSON cannot open or decode the file.          *)
NoTasks ==
    /\ pc = "tasks"
    /\ pc' = "exited"
    /\ UNCHANGED <<flags, options, sched, tasks, taskResourceRequirement, pcpGoroutine>>

(* TasksFromJSON.  A missing inst is a nil pointer when the requirements   *)
(* are recorded; an empty workload is refused after that.                  *)
ReadTasks(w) ==
    /\ pc = "tasks"
    /\ tasks' = w
    /\ IF ~Validate(w)
       THEN pc' = "exited" /\ UNCHANGED <<options, taskResourceRequirement>>
       ELSE IF \E k \in DOMAIN w : w[k].Instances = nil
       THEN pc' = "panicked" /\ UNCHANGED <<options, taskResourceRequirement>>
       ELSE /\ taskResourceRequirement' = initTaskResourceRequirements(w)
            /\ Continue(w # <<>>, "options")
            /\ options' = Append(options, "Tasks")
    /\ UNCHANGED <<flags, sched, pcpGoroutine>>

------------------------------------------------------------------------------
(* The options of schedulers/helpers.go: which are refused ...             *)
OptionFails(o) ==
    \/ o = "SchedPolicy" /\ flags.policy \notin SchedPolicies
    \/ o = "SchedPolSwitchEnabled" /\ flags.switch.criteria \notin Criteria
    \/ /\ o = "NameOfFirstSchedPolToFix"
       /\ flags.switch.first # nil /\ flags.switch.first \notin SchedPolicies
    \/ o = "FixedSchedulingWindow" /\ flags.switch.fix /\ flags.switch.size <= 0

(* ... and what they set.                                                  *)
Configured(o) ==
    CASE o = "SchedPolicy" -> [sched EXCEPT !.curSchedPolicy = flags.policy]
      [] o = "SchedPolSwitchEnabled" ->
            [sched EXCEPT !.schedPolSwitchEnabled = TRUE,
                          !.schedPolSwitchCriteria = flags.switch.criteria]
      [] o = "NameOfFirstSchedPolToFix" ->
            [sched EXCEPT !.nameOfFstSchedPolToDeploy = flags.switch.first]
      [] o = "FixedSchedulingWindow" ->
            IF flags.switch.fix
            THEN [sched EXCEPT !.toFixSchedWindow = TRUE,
                               !.schedWindowSize = flags.switch.size]
            ELSE sched
      [] o = "WattsAsAResource" -> [sched EXCEPT !.wattsAsAResource = flags.waar]
      [] o = "ClassMapWatts" -> [sched EXCEPT !.classMapWatts = flags.cmw]
      [] o = "Tasks" -> [sched EXCEPT !.tasks = tasks]
      [] OTHER -> [sched EXCEPT !.channels = @ \cup {o}]

(* One turn of the loop in BaseScheduler.init.                             *)
ApplyOption ==
    /\ pc = "options"
    /\ options # <<>>
    /\ IF OptionFails(Head(options))
       THEN pc' = "exited" /\ UNCHANGED <<options, sched>>
       ELSE /\ sched' = Configured(Head(options))
            /\ options' = Tail(options)
            /\ pc' = pc
    /\ UNCHANGED <<flags, tasks, taskResourceRequirement, pcpGoroutine>>

(* The driver is created (external, may fail) and the prefix checked.      *)
CreateDriver(created, prefixOK) ==
    /\ pc = "options"
    /\ options = <<>>
    /\ Continue(created /\ prefixOK, "logger")
    /\ UNCHANGED <<flags, options, sched, tasks, taskResourceRequirement, pcpGoroutine>>

(* BuildLogger fails without a usable logConfig.yaml, or when a directory  *)
(* it could not create leaves an enabled logger without a place for its    *)
(* file; a directory that exists already only costs the files.             *)
BuildLogger(configRead, dir, enabled) ==
    /\ pc = "logger"
    /\ Continue(configRead /\ (dir = "uncreatable" => ~enabled), "pcp")
    /\ UNCHANGED <<flags, options, sched, tasks, taskResourceRequirement, pcpGoroutine>>

StartPCP ==
    /\ pc = "pcp"
    /\ pc' = "running"
    /\ pcpGoroutine' = [cap |-> flags.cap, hi |-> flags.hi, lo |-> flags.lo]
    /\ UNCHANGED <<flags, options, sched, tasks, taskResourceRequirement>>

Next ==
    \/ \E list \in BOOLEAN : ListPolicies(list)
    \/ \E name \in PolicyNames : CheckPolicy(name)
    \/ \E switch \in SwitchFlags : EnableSwitching(switch)
    \/ NoSwitching
    \/ \E waar, cmw \in BOOLEAN : Watts(waar, cmw)
    \/ \E cap \in PowerCaps, hi, lo \in Thresholds : PowerCap(cap, hi, lo)
    \/ NoTasks
    \/ \E w \in Workloads : ReadTasks(w)
    \/ ApplyOption
    \/ \E created, prefixOK \in BOOLEAN : CreateDriver(created, prefixOK)
    \/ \E configRead, enabled \in BOOLEAN :
         \E dir \in {"exists", "created", "uncreatable"} :
           BuildLogger(configRead, dir, enabled)
    \/ StartPCP

Spec == Init /\ [][Next]_vars

------------------------------------------------------------------------------
(* PROPERTIES *)

Pcs == {"list", "policy", "switching", "watts", "powercap", "tasks", "options",
        "logger", "pcp", "running", "exited", "panicked"}

Options == {"Shutdown", "Done", "SchedPolicy", "SchedPolSwitchEnabled",
            "NameOfFirstSchedPolToFix", "FixedSchedulingWindow", "WattsAsAResource",
            "ClassMapWatts", "RecordPCP", "PCPLog", "Tasks"}

Channels == {"Shutdown", "Done", "RecordPCP", "PCPLog"}

Sched == [curSchedPolicy: SchedPolicies \cup {nil},
          schedPolSwitchEnabled: BOOLEAN, schedPolSwitchCriteria: Criteria \cup {nil},
          nameOfFstSchedPolToDeploy: SchedPolicies \cup {nil},
          toFixSchedWindow: BOOLEAN, schedWindowSize: Nat,
          wattsAsAResource: BOOLEAN, classMapWatts: BOOLEAN,
          channels: SUBSET Channels, tasks: Workloads \cup {<<>>}]

(* The scheduler is only ever given what BaseScheduler's fields may hold:  *)
(* known policies, a known criterion, a window of no negative size.        *)
TypeOK ==
    /\ pc \in Pcs
    /\ flags \in [policy: PolicyNames \cup {"first-fit"}, waar: BOOLEAN, cmw: BOOLEAN,
                  switch: SwitchFlag, cap: PowerCaps \cup {"none"}, hi: Int, lo: Int]
    /\ options \in Seq(Options)
    /\ sched \in Sched
    /\ tasks \in Workloads \cup {<<>>}
    /\ pcpGoroutine \in [cap: PowerCaps \cup {"none"}, hi: Int, lo: Int] \cup {nil}

(* When the goroutine that starts pmdumptext and caps hosts runs, every    *)
(* flag and every task has passed its check.  A check that came too late   *)
(* or was passed over would leave pmdumptext behind.  What main does not   *)
(* check is not claimed: a positive inst, names used once, and a readable  *)
(* schedPolConfig.json, which the models of the scheduler assume.          *)
StartedOnlyIfValid ==
    pcpGoroutine # nil =>
      /\ sched.curSchedPolicy \in SchedPolicies
      /\ sched.schedPolSwitchEnabled => sched.schedPolSwitchCriteria \in Criteria
      /\ sched.nameOfFstSchedPolToDeploy \in SchedPolicies \cup {nil}
      /\ sched.toFixSchedWindow => sched.schedWindowSize > 0
      /\ pcpGoroutine.cap # "none" => pcpGoroutine.hi >= pcpGoroutine.lo
      /\ sched.channels = Channels
      /\ sched.tasks # <<>>
      /\ \A k \in DOMAIN sched.tasks :
           TaskOK(sched.tasks[k]) /\ sched.tasks[k].Instances # nil

(* The options depend on one another as the flags' descriptions say:       *)
(* class-to-watts needs watts as a resource, and a first policy or a fixed *)
(* window needs switching.                                                 *)
OptionsConsistent ==
    pc = "running" =>
      /\ sched.classMapWatts => sched.wattsAsAResource
      /\ sched.toFixSchedWindow \/ sched.nameOfFstSchedPolToDeploy # nil
           => sched.schedPolSwitchEnabled

(* The table the resource tracker looks TaskIDs up in, "resource           *)
(* requirements for all the tasks", has the instance of a TaskID that is   *)
(* launched, with its own task's requirements, exactly when the task asks  *)
(* for a positive number of instances.  The validators do not look at      *)
(* inst: a task with none is still launched, once, and its lookup fails    *)
(* ("Shouldn't be here").  Names are taken not to be used twice, which     *)
(* nothing checks either.                                                  *)
RequirementsRecorded ==
    pc = "running" /\ IsInjective([k \in DOMAIN tasks |-> tasks[k].Name]) =>
      \A k \in DOMAIN tasks : \A n \in LaunchedInstances(tasks[k]) :
        LET id == <<tasks[k].Name, n>> IN
        /\ id \in DOMAIN taskResourceRequirement <=> tasks[k].Instances > 0
        /\ id \in DOMAIN taskResourceRequirement =>
             taskResourceRequirement[id] =
               [CPU |-> tasks[k].CPU, Ram |-> tasks[k].RAM, Watts |-> tasks[k].Watts]
==============================================================================
