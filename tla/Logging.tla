------------------------------- MODULE Logging -------------------------------
(***************************************************************************)
(* The loggers of logging/: a chain with one logger per log type that      *)
(* shares one map of fields (baseLogData) and one logrus logger, whose     *)
(* output is redirected before every write.  WithField or WithFields fill  *)
(* the map, Log walks the chain, the last logger clears the map; nothing   *)
(* is locked.  The Mesos callbacks log from the driver's thread while the  *)
(* PCP goroutines log from theirs, so the steps of two calls may mix; Go   *)
(* stops the program when it notices a map written to while in use, or a   *)
(* write to the nil map that resetFields leaves for a moment.              *)
(***************************************************************************)
EXTENDS Integers, Sequences, FiniteSetsExt

CONSTANTS
    Callback,           \* the threads that run callbacks of the scheduler
    PCPLogger,          \* the goroutines of pcp and powerCap
    Configs             \* the logConfig.yaml considered

(* logging/types: the log types, each also its logger's place in the chain *)
CONSOLE == 0
PCP == 1
SCHED_TRACE == 2
SPS == 3
SCHED_WINDOW == 4
CLSFN_TASKDISTR_OVERHEAD == 5

LogType == CONSOLE .. CLSFN_TASKDISTR_OVERHEAD

(* Where logrus writes: a log type's file, the console, nowhere.           *)
Stderr == -1
Stdout == -2
NoFile == -3

Sink == LogType \cup {Stderr, Stdout, NoFile}

(* A configuration, and whether the log directory could be created.        *)
Config == [Enabled: [LogType -> BOOLEAN], AllowOnConsole: [LogType -> BOOLEAN],
           hasLogDir: BOOLEAN]

ASSUME LoggingAssumption ==
    /\ Callback \cap PCPLogger = {}
    /\ Configs \subseteq Config

Thread == Callback \cup PCPLogger

Field == {"task", "state", "host", "taskID", "Name", "WindowSize",
          "Overhead", "AvgWattage"}

Call == [with: {"Log", "WithField", "WithFields"}, fields: SUBSET Field,
         logType: LogType]

(* A map of fields, the values known by the thread that supplied them.     *)
FieldMap == UNION {[S -> Thread] : S \in SUBSET Field}

NoFields == [f \in {} |-> f]

LogCall(with, fields, logType) ==
    [with |-> with, fields |-> fields, logType |-> logType]

(* The shapes of the calls made by the callbacks ...                       *)
CallbackCalls ==
    {LogCall("Log", {}, CONSOLE),
     LogCall("WithField", {"host"}, CONSOLE),
     LogCall("WithFields", {"task", "state"}, CONSOLE),
     LogCall("WithField", {"taskID"}, SCHED_TRACE),
     LogCall("WithField", {"Name"}, SPS),
     LogCall("WithFields", {"WindowSize", "Name"}, SCHED_WINDOW),
     LogCall("WithField", {"Overhead"}, CLSFN_TASKDISTR_OVERHEAD)}

(* ... and by the goroutines that log PCP and cap power.                   *)
PCPCalls ==
    {LogCall("Log", {}, CONSOLE),
     LogCall("Log", {}, PCP),
     LogCall("WithField", {"AvgWattage"}, CONSOLE),
     LogCall("WithFields", {"host", "AvgWattage"}, CONSOLE)}

CallsOf(t) == IF t \in Callback THEN CallbackCalls ELSE PCPCalls

VARIABLES
    config,             \* read once, by BuildLogger
    data,               \* the current map: which thread each field is from
    nilMap,             \* that map is nil, and reads as an empty one
    users,              \* the threads inside an operation on that map
    out,                \* the logrus logger's output
    call,               \* call[t]: the call t makes
    alone,              \* alone[t]: no other call overlapped it so far
    crashed             \* Go stopped the program

vars == <<config, data, nilMap, users, out, call, alone, crashed>>

(* stage: where the call is; logger: the logger reached in the chain;      *)
(* entry: how many entries that logger has written; copy: the fields of    *)
(* the entry under way; written: what the call has written.                *)
CallState == [stage: {"assign", "log", "copy", "copying", "write", "resetting",
                      "returned"},
              call: Call, logger: LogType, entry: Nat, copy: FieldMap,
              written: Seq([sink: Sink, fields: FieldMap])]

Active == {t \in Thread : call[t].stage # "returned"}

------------------------------------------------------------------------------
(* createLogFile: no directory, no file.                                   *)
LogFile(l) == IF config.hasLogDir THEN l ELSE NoFile

(* What a logger writes an entry of the given type to, in order: the       *)
(* console's logger, which never asks whether it may use the console, ...  *)
ConsoleOutputs(logType) ==
    IF config.Enabled[CONSOLE] /\ logType <= CONSOLE
    THEN <<Stdout, LogFile(CONSOLE)>> ELSE <<>>

(* ... and the others, each with a copy of the same code.                  *)
TypedOutputs(l, logType) ==
    IF ~config.Enabled[l] \/ logType # l THEN <<>>
    ELSE IF config.AllowOnConsole[l] THEN <<Stdout, LogFile(l)>>
    ELSE <<LogFile(l)>>

PCPOutputs(logType) == TypedOutputs(PCP, logType)
SchedTraceOutputs(logType) == TypedOutputs(SCHED_TRACE, logType)
SPSOutputs(logType) == TypedOutputs(SPS, logType)
SchedWindowOutputs(logType) == TypedOutputs(SCHED_WINDOW, logType)
TaskDistrOutputs(logType) == TypedOutputs(CLSFN_TASKDISTR_OVERHEAD, logType)

Outputs(l, logType) ==
    CASE l = CONSOLE -> ConsoleOutputs(logType)
      [] l = PCP -> PCPOutputs(logType)
      [] l = SCHED_TRACE -> SchedTraceOutputs(logType)
      [] l = SPS -> SPSOutputs(logType)
      [] l = SCHED_WINDOW -> SchedWindowOutputs(logType)
      [] OTHER -> TaskDistrOutputs(logType)

(* Mutant: the policy-switch logger was left out of the chain.             *)
ChainWithoutSPS(l, logType) ==
    Min({n \in l + 1 .. CLSFN_TASKDISTR_OVERHEAD : Outputs(n, logType) # <<>>
                                                   /\ n # SPS}
        \cup {CLSFN_TASKDISTR_OVERHEAD})

(* BuildLogger's chain has a logger of each type, in order: the next one   *)
(* that writes an entry of this type, or the last one.                     *)
NextLogger(l, logType) ==
    Min({n \in l + 1 .. CLSFN_TASKDISTR_OVERHEAD : Outputs(n, logType) # <<>>}
        \cup {CLSFN_TASKDISTR_OVERHEAD})

HasNext(l) == l < CLSFN_TASKDISTR_OVERHEAD

(* No call under way.                                                      *)
Returned == [stage |-> "returned", call |-> LogCall("Log", {}, CONSOLE),
             logger |-> CONSOLE, entry |-> 0, copy |-> NoFields, written |-> <<>>]

(* A call with nothing left to do but to make the new map.                 *)
Resetting == [Returned EXCEPT !.stage = "resetting"]

Init ==
    /\ config \in Configs
    /\ data = NoFields
    /\ nilMap = FALSE
    /\ users = {}
    /\ out = Stderr
    /\ call = [t \in Thread |-> Returned]
    /\ alone = [t \in Thread |-> TRUE]
    /\ crashed = FALSE

OwnFields(t, c) == [f \in c.fields |-> t]

(* The current map after the assignment of the call's field.               *)
WithOwn(t, c) == [f \in c.fields \cup DOMAIN data |->
                    IF f \in c.fields THEN t ELSE data[f]]

(* A thread calls Log, or WithField(s) and Log.  WithFields replaces the   *)
(* map; WithField begins an assignment to the current one, if there is one *)
Start(t, c) ==
    /\ ~crashed
    /\ t \notin Active
    /\ c.with = "WithField" => ~nilMap
    /\ call' = [call EXCEPT ![t] =
                  [stage |-> IF c.with = "WithField" THEN "assign" ELSE "log",
                   call |-> c, logger |-> CONSOLE, entry |-> 0, copy |-> NoFields,
                   written |-> <<>>]]
    /\ data' = IF c.with = "WithFields" THEN OwnFields(t, c) ELSE data
    /\ nilMap' = (nilMap /\ c.with # "WithFields")
    /\ users' = CASE c.with = "WithFields" -> {}
                  [] c.with = "WithField" -> users \cup {t}
                  [] OTHER -> users
    /\ alone' = [u \in Thread |-> IF u = t THEN Active = {}
                                  ELSE u \notin Active /\ alone[u]]
    /\ UNCHANGED <<config, out, crashed>>

(* WithField assigns to the map while it is nil, and panics.               *)
NilMapWrite(t, c) ==
    /\ ~crashed
    /\ t \notin Active
    /\ c.with = "WithField" /\ nilMap
    /\ crashed' = TRUE
    /\ UNCHANGED <<config, data, nilMap, users, out, call, alone>>

(* The assignment ends; it is lost if the map was replaced meanwhile.      *)
AssignField(t) ==
    /\ ~crashed
    /\ call[t].stage = "assign"
    /\ data' = IF t \in users THEN WithOwn(t, call[t].call) ELSE data
    /\ users' = users \ {t}
    /\ call' = [call EXCEPT ![t].stage = "log"]
    /\ UNCHANGED <<config, nilMap, out, alone, crashed>>

MoreOutputs(t) ==
    call[t].entry < Len(Outputs(call[t].logger, call[t].call.logType))

(* logger.SetOutput, ahead of each entry.                                  *)
SetOutput(t) ==
    /\ ~crashed
    /\ call[t].stage = "log"
    /\ MoreOutputs(t)
    /\ out' = Outputs(call[t].logger, call[t].call.logType)[call[t].entry + 1]
    /\ call' = [call EXCEPT ![t].stage = "copy"]
    /\ UNCHANGED <<config, data, nilMap, users, alone, crashed>>

(* logger.WithFields copies the map into the entry ...                     *)
BeginCopy(t) ==
    /\ ~crashed
    /\ call[t].stage = "copy"
    /\ users' = users \cup {t}
    /\ call' = [call EXCEPT ![t].stage = "copying", ![t].copy = data]
    /\ UNCHANGED <<config, data, nilMap, out, alone, crashed>>

EndCopy(t) ==
    /\ ~crashed
    /\ call[t].stage = "copying"
    /\ users' = users \ {t}
    /\ call' = [call EXCEPT ![t].stage = "write"]
    /\ UNCHANGED <<config, data, nilMap, out, alone, crashed>>

(* ... and Log writes it to what is now the output.                        *)
Write(t) ==
    /\ ~crashed
    /\ call[t].stage = "write"
    /\ call' = [call EXCEPT
                  ![t].stage = "log",
                  ![t].entry = @ + 1,
                  ![t].copy = NoFields,
                  ![t].written = Append(@, [sink |-> out, fields |-> call[t].copy])]
    /\ UNCHANGED <<config, data, nilMap, users, out, alone, crashed>>

Forward(t) ==
    /\ ~crashed
    /\ call[t].stage = "log"
    /\ ~MoreOutputs(t)
    /\ HasNext(call[t].logger)
    /\ call' = [call EXCEPT
                  ![t].logger = NextLogger(call[t].logger, call[t].call.logType),
                  ![t].entry = 0]
    /\ UNCHANGED <<config, data, nilMap, users, out, alone, crashed>>

(* The last logger of the chain is done.                                   *)
Returning(t) ==
    /\ call[t].stage = "log"
    /\ ~MoreOutputs(t)
    /\ ~HasNext(call[t].logger)

(* Mutant: the fields are only cleared when this logger wrote an entry.    *)
ResetIfWritten(t) ==
    /\ ~crashed
    /\ Returning(t)
    /\ IF call[t].entry > 0
       THEN /\ data' = NoFields /\ nilMap' = TRUE /\ users' = {}
            /\ call' = [call EXCEPT ![t] = Resetting]
       ELSE call' = [call EXCEPT ![t] = Returned] /\ UNCHANGED <<data, nilMap, users>>
    /\ UNCHANGED <<config, out, alone, crashed>>

(* The last logger of the chain: resetFields sets the map to nil ...       *)
ResetFields(t) ==
    /\ ~crashed
    /\ Returning(t)
    /\ data' = NoFields
    /\ nilMap' = TRUE
    /\ users' = {}
    /\ call' = [call EXCEPT ![t] = Resetting]
    /\ UNCHANGED <<config, out, alone, crashed>>

(* ... and then to a new map, whatever it is by then.                      *)
NewFields(t) ==
    /\ ~crashed
    /\ call[t].stage = "resetting"
    /\ data' = NoFields
    /\ nilMap' = FALSE
    /\ users' = {}
    /\ call' = [call EXCEPT ![t] = Returned]
    /\ UNCHANGED <<config, out, alone, crashed>>

(* The Go runtime: one thread assigns while another uses the same map.     *)
ConcurrentMapUse ==
    /\ ~crashed
    /\ \E t \in users : call[t].stage = "assign" /\ users # {t}
    /\ crashed' = TRUE
    /\ UNCHANGED <<config, data, nilMap, users, out, call, alone>>

Step(t) ==
    \/ \E c \in CallsOf(t) : Start(t, c) \/ NilMapWrite(t, c)
    \/ AssignField(t)
    \/ SetOutput(t)
    \/ BeginCopy(t)
    \/ EndCopy(t)
    \/ Write(t)
    \/ Forward(t)
    \/ ResetFields(t)
    \/ NewFields(t)

Next == ConcurrentMapUse \/ \E t \in Thread : Step(t)

Spec == Init /\ [][Next]_vars

------------------------------------------------------------------------------
(* PROPERTIES *)

(* The variables have their types.                                         *)
TypeOK ==
    /\ config \in Configs
    /\ data \in FieldMap
    /\ nilMap \in BOOLEAN
    /\ users \in SUBSET Thread
    /\ out \in Sink
    /\ call \in [Thread -> CallState]
    /\ alone \in [Thread -> BOOLEAN]
    /\ crashed \in BOOLEAN

(* However calls mix, the shared map only ever holds fields of calls that  *)
(* are still under way: nothing of a call that has returned can show up in *)
(* an entry that somebody logs later.                                      *)
FieldsOfActiveCalls == \A f \in DOMAIN data : data[f] \in Active

(* A call no other overlapped writes one entry to each output its log type *)
(* is configured for, in order, with its own fields, and nothing else.     *)
AloneIsExact ==
    \A t \in Thread : Returning(t) /\ alone[t] =>
        LET c == call[t].call
            outputs == Outputs(c.logType, c.logType)
        IN call[t].written = [k \in DOMAIN outputs |->
                                [sink |-> outputs[k], fields |-> OwnFields(t, c)]]

(* docs/Logs.md: "Once each task has fit into a resource offer, the taskID *)
(* and the corresponding hostname are logged."  Another thread's call in   *)
(* between can clear the field or redirect the entry.                      *)
TraceLogged ==
    \A t \in Thread :
        /\ Returning(t)
        /\ call[t].call.logType = SCHED_TRACE
        /\ config.Enabled[SCHED_TRACE] /\ config.hasLogDir
        => \E k \in DOMAIN call[t].written :
             call[t].written[k] = [sink |-> SCHED_TRACE,
                                   fields |-> OwnFields(t, call[t].call)]
==============================================================================
