--------------------------- MODULE Logging_proofs ----------------------------
(***************************************************************************)
(* Proofs about Logging, for any threads and any configurations.           *)
(***************************************************************************)
EXTENDS Logging, TLAPS

(* Numbers of the log types and outputs, and the calls.                    *)
USE DEF CONSOLE, PCP, SCHED_TRACE, SPS, SCHED_WINDOW, CLSFN_TASKDISTR_OVERHEAD,
        Stderr, Stdout, NoFile

(* A map is a FieldMap when its domain and its values are right.           *)
LEMMA FieldMapIntro ==
    ASSUME NEW S \in SUBSET Field, NEW m \in [S -> Thread]
    PROVE  m \in FieldMap
BY DEF FieldMap

LEMMA FieldMapElim ==
    ASSUME NEW m \in FieldMap
    PROVE  DOMAIN m \in SUBSET Field /\ m \in [DOMAIN m -> Thread]
BY DEF FieldMap

LEMMA NoFieldsMap == NoFields \in FieldMap /\ DOMAIN NoFields = {}
<1>1. NoFields \in [{} -> Thread]
  BY DEF NoFields
<1> QED
  BY <1>1, FieldMapIntro

(* The calls of a thread are calls, and a bare Log has no fields.          *)
LEMMA CallsAreCalls ==
    ASSUME NEW t, NEW c \in CallsOf(t)
    PROVE  c \in Call /\ (c.with = "Log" => c.fields = {})
<1>1. CASE c \in CallbackCalls
  <2>1. CASE c = LogCall("Log", {}, CONSOLE)
    BY <2>1 DEF LogCall, Call, Field, LogType
  <2>2. CASE c = LogCall("WithField", {"host"}, CONSOLE)
    BY <2>2 DEF LogCall, Call, Field, LogType
  <2>3. CASE c = LogCall("WithFields", {"task", "state"}, CONSOLE)
    BY <2>3 DEF LogCall, Call, Field, LogType
  <2>4. CASE c = LogCall("WithField", {"taskID"}, SCHED_TRACE)
    BY <2>4 DEF LogCall, Call, Field, LogType
  <2>5. CASE c = LogCall("WithField", {"Name"}, SPS)
    BY <2>5 DEF LogCall, Call, Field, LogType
  <2>6. CASE c = LogCall("WithFields", {"WindowSize", "Name"}, SCHED_WINDOW)
    BY <2>6 DEF LogCall, Call, Field, LogType
  <2>7. CASE c = LogCall("WithField", {"Overhead"}, CLSFN_TASKDISTR_OVERHEAD)
    BY <2>7 DEF LogCall, Call, Field, LogType
  <2> QED
    BY <1>1, <2>1, <2>2, <2>3, <2>4, <2>5, <2>6, <2>7 DEF CallbackCalls
<1>2. CASE c \in PCPCalls
  <2>1. CASE c = LogCall("Log", {}, CONSOLE)
    BY <2>1 DEF LogCall, Call, Field, LogType
  <2>2. CASE c = LogCall("Log", {}, PCP)
    BY <2>2 DEF LogCall, Call, Field, LogType
  <2>3. CASE c = LogCall("WithField", {"AvgWattage"}, CONSOLE)
    BY <2>3 DEF LogCall, Call, Field, LogType
  <2>4. CASE c = LogCall("WithFields", {"host", "AvgWattage"}, CONSOLE)
    BY <2>4 DEF LogCall, Call, Field, LogType
  <2> QED
    BY <1>2, <2>1, <2>2, <2>3, <2>4 DEF PCPCalls
<1> QED
  BY <1>1, <1>2 DEF CallsOf

(* Only the logger of the entry's type writes it.                          *)
LEMMA OutputsFacts ==
    ASSUME config \in Config, NEW l \in LogType, NEW y \in LogType
    PROVE  /\ Outputs(l, y) \in Seq(Sink)
           /\ Outputs(l, y) # <<>> => l = y
<1>1. /\ <<>> \in Seq(Sink)
      /\ \A n \in LogType : /\ <<Stdout, LogFile(n)>> \in Seq(Sink)
                            /\ <<LogFile(n)>> \in Seq(Sink)
  <2>1. \A n \in LogType : LogFile(n) \in Sink
    BY DEF LogFile, Sink
  <2>2. Stdout \in Sink
    BY DEF Sink
  <2> QED
    BY <2>1, <2>2
<1>2. CASE l = CONSOLE
  <2>1. Outputs(l, y) = ConsoleOutputs(y)
    BY <1>2 DEF Outputs
  <2>2. <<Stdout, LogFile(CONSOLE)>> \in Seq(Sink)
    BY <1>1, <1>2
  <2>3. y <= CONSOLE => l = y
    BY <1>2 DEF LogType
  <2> QED
    BY <1>1, <2>1, <2>2, <2>3 DEF ConsoleOutputs
<1>3. CASE l # CONSOLE
  <2>1. Outputs(l, y) = TypedOutputs(l, y)
    BY <1>3 DEF Outputs, LogType, PCPOutputs, SchedTraceOutputs, SPSOutputs,
                SchedWindowOutputs, TaskDistrOutputs
  <2> QED
    BY <1>1, <2>1 DEF TypedOutputs
<1> QED
  BY <1>2, <1>3

(* The next logger is that of the entry's type, if it writes and is still  *)
(* ahead, and else the last one.                                           *)
LEMMA NextLoggerIs ==
    ASSUME config \in Config, NEW l \in LogType, NEW y \in LogType, HasNext(l)
    PROVE  NextLogger(l, y) = IF l < y /\ Outputs(y, y) # <<>>
                              THEN y ELSE CLSFN_TASKDISTR_OVERHEAD
<1> DEFINE S == {n \in l + 1 .. 5 : Outputs(n, y) # <<>>} \cup {5}
<1>2. l \in Int /\ y \in 0 .. 5 /\ l >= 0 /\ LogType = 0 .. 5
  BY DEF LogType
<1>1. ASSUME NEW n \in l + 1 .. 5, Outputs(n, y) # <<>> PROVE n = y
  <2>1. n \in LogType
    BY <1>2
  <2> QED
    BY <1>1, <2>1, OutputsFacts
<1> DEFINE w == IF l < y /\ Outputs(y, y) # <<>> THEN y ELSE 5
<1>3. w \in S /\ \A n \in S : n \in Int /\ w <= n
  BY <1>1, <1>2
<1>4. \A x \in S : (\A n \in S : x <= n) => x = w
  BY <1>3
<1>5. NextLogger(l, y) = CHOOSE x \in S : \A n \in S : x <= n
  BY DEF NextLogger, Min
<1> HIDE DEF S, w
<1>6. (CHOOSE x \in S : \A n \in S : x <= n) = w
  BY <1>3, <1>4
<1> QED
  BY <1>5, <1>6 DEF w

------------------------------------------------------------------------------
LEMMA TypeInit == Init => TypeOK
<1> SUFFICES ASSUME Init PROVE TypeOK
  OBVIOUS
<1>1. Returned \in CallState
  BY NoFieldsMap DEF Returned, CallState, LogCall, Call, LogType
<1> QED
  BY <1>1, NoFieldsMap DEF Init, TypeOK, Sink

LEMMA TypeStep == TypeOK /\ [Next]_vars => TypeOK'
<1> SUFFICES ASSUME TypeOK, [Next]_vars PROVE TypeOK'
  OBVIOUS
<1>c. config \in Config
  BY LoggingAssumption DEF TypeOK
<1>r. Returned \in CallState
  BY NoFieldsMap DEF Returned, CallState, LogCall, Call, LogType
<1>1. ASSUME NEW t \in Thread, NEW c \in CallsOf(t), Start(t, c) PROVE TypeOK'
  <2>1. c \in Call
    BY CallsAreCalls
  <2>2. c.fields \in SUBSET Field /\ OwnFields(t, c) \in [c.fields -> Thread]
    BY <2>1 DEF Call, OwnFields
  <2>3. data' \in FieldMap
    BY <1>1, <2>2, FieldMapIntro DEF Start, TypeOK
  <2>4. users' \in SUBSET Thread
    BY <1>1 DEF Start, TypeOK
  <2>5. call' \in [Thread -> CallState]
    <3> DEFINE S == [stage |-> IF c.with = "WithField" THEN "assign" ELSE "log",
                     call |-> c, logger |-> CONSOLE, entry |-> 0,
                     copy |-> NoFields, written |-> <<>>]
    <3>1. S \in CallState
      BY <2>1, NoFieldsMap DEF CallState, LogType
    <3>2. call' = [call EXCEPT ![t] = S]
      BY <1>1 DEF Start
    <3> QED
      BY <3>1, <3>2 DEF TypeOK
  <2>6. alone' \in [Thread -> BOOLEAN]
    <3>1. \A u \in Thread : (u \notin Active /\ alone[u]) \in BOOLEAN
      BY DEF TypeOK
    <3> QED
      BY <1>1, <3>1 DEF Start
  <2>7. nilMap' \in BOOLEAN
    BY <1>1 DEF Start, TypeOK
  <2> QED
    BY <1>1, <2>3, <2>4, <2>5, <2>6, <2>7 DEF Start, TypeOK
<1>2. ASSUME NEW t \in Thread, AssignField(t) PROVE TypeOK'
  <2>1. call[t].call.fields \in SUBSET Field /\ data \in [DOMAIN data -> Thread]
        /\ DOMAIN data \in SUBSET Field
    BY FieldMapElim DEF TypeOK, CallState, Call
  <2>2. WithOwn(t, call[t].call) \in [call[t].call.fields \cup DOMAIN data -> Thread]
    BY <2>1 DEF WithOwn
  <2>3. WithOwn(t, call[t].call) \in FieldMap
    BY <2>1, <2>2, FieldMapIntro
  <2>4. data' \in FieldMap
    BY <1>2, <2>3 DEF AssignField, TypeOK
  <2> QED
    BY <1>2, <2>4 DEF AssignField, TypeOK, CallState
<1>3. ASSUME NEW t \in Thread, SetOutput(t) PROVE TypeOK'
  <2>1. /\ Outputs(call[t].logger, call[t].call.logType) \in Seq(Sink)
        /\ call[t].entry \in Nat
    BY <1>c, OutputsFacts DEF TypeOK, CallState, Call
  <2>2. out' \in Sink
    BY <1>3, <2>1 DEF SetOutput, MoreOutputs
  <2> QED
    BY <1>3, <2>2 DEF SetOutput, TypeOK, CallState
<1>4. ASSUME NEW t \in Thread, BeginCopy(t) PROVE TypeOK'
  <2> DEFINE state == [call[t] EXCEPT !.stage = "copying", !.copy = data]
  <2>1. call' = [call EXCEPT ![t] = state]
    BY <1>4 DEF BeginCopy, TypeOK
  <2>2. state \in CallState
    BY DEF TypeOK, CallState
  <2> HIDE DEF state
  <2>3. call' \in [Thread -> CallState]
    BY <2>1, <2>2 DEF TypeOK
  <2> QED
    BY <1>4, <2>3 DEF BeginCopy, TypeOK
<1>5. ASSUME NEW t \in Thread, EndCopy(t) PROVE TypeOK'
  BY <1>5 DEF EndCopy, TypeOK, CallState
<1>6. ASSUME NEW t \in Thread, Write(t) PROVE TypeOK'
  <2> DEFINE E == [sink |-> out, fields |-> call[t].copy]
  <2>1. E \in [sink: Sink, fields: FieldMap] /\ call[t] \in CallState
    BY DEF TypeOK, CallState
  <2>2. Append(call[t].written, E) \in Seq([sink: Sink, fields: FieldMap])
    BY <2>1 DEF CallState
  <2>3. call[t].entry + 1 \in Nat
    BY <2>1 DEF CallState
  <2> HIDE DEF E
  <2>4. call' = [call EXCEPT ![t] = [call[t] EXCEPT
                   !.stage = "log", !.entry = call[t].entry + 1,
                   !.copy = NoFields, !.written = Append(call[t].written, E)]]
    BY <1>6 DEF Write, E, TypeOK
  <2>5. call' \in [Thread -> CallState]
    BY <2>1, <2>2, <2>3, <2>4, NoFieldsMap DEF TypeOK, CallState
  <2> QED
    BY <1>6, <2>5 DEF Write, TypeOK
<1>7. ASSUME NEW t \in Thread, Forward(t) PROVE TypeOK'
  <2>1. NextLogger(call[t].logger, call[t].call.logType) \in LogType
    <3>1. call[t].logger \in LogType /\ call[t].call.logType \in LogType
      BY DEF TypeOK, CallState, Call
    <3> QED
      BY <1>c, <1>7, <3>1, NextLoggerIs DEF Forward, LogType
  <2> DEFINE state == [call[t] EXCEPT
               !.logger = NextLogger(call[t].logger, call[t].call.logType), !.entry = 0]
  <2>2. call' = [call EXCEPT ![t] = state]
    BY <1>7 DEF Forward, TypeOK
  <2>3. state \in CallState
    BY <2>1 DEF TypeOK, CallState
  <2> HIDE DEF state
  <2>4. call' \in [Thread -> CallState]
    BY <2>2, <2>3 DEF TypeOK
  <2> QED
    BY <1>7, <2>4 DEF Forward, TypeOK
<1>8. ASSUME NEW t \in Thread, ResetFields(t) PROVE TypeOK'
  <2>1. Resetting \in CallState
    BY <1>r DEF Resetting, CallState
  <2> QED
    BY <1>8, <2>1, NoFieldsMap DEF ResetFields, TypeOK
<1>11. ASSUME NEW t \in Thread, NewFields(t) PROVE TypeOK'
  BY <1>11, <1>r, NoFieldsMap DEF NewFields, TypeOK
<1>9. CASE ConcurrentMapUse \/ \E t \in Thread : \E c \in CallsOf(t) : NilMapWrite(t, c)
  BY <1>9 DEF ConcurrentMapUse, NilMapWrite, TypeOK
<1>10. CASE UNCHANGED vars
  BY <1>10 DEF vars, TypeOK
<1> QED
  BY <1>1, <1>2, <1>3, <1>4, <1>5, <1>6, <1>7, <1>8, <1>9, <1>10, <1>11 DEF Next, Step

(* The logging calls keep the types of the shared logger, however they mix *)
THEOREM LoggingTypes == Spec => []TypeOK
<1> QED
  BY TypeInit, TypeStep, PTL DEF Spec

------------------------------------------------------------------------------
(* What a step of t does to the set of active threads.                     *)
LEMMA ActiveStep ==
    ASSUME TypeOK, NEW t \in Thread
    PROVE  /\ \A c \in CallsOf(t) : Start(t, c) => Active' = Active \cup {t}
           /\ NewFields(t) => Active' = Active \ {t}
           /\ AssignField(t) \/ SetOutput(t) \/ BeginCopy(t) \/ EndCopy(t)
              \/ Write(t) \/ Forward(t) \/ ResetFields(t)
              => Active' = Active /\ t \in Active
<1>1. ASSUME NEW c \in CallsOf(t), Start(t, c) PROVE Active' = Active \cup {t}
  <2>1. /\ call'[t].stage # "returned"
        /\ \A u \in Thread : u # t => call'[u] = call[u]
    BY <1>1 DEF Start, TypeOK
  <2> QED
    BY <2>1 DEF Active
<1>2. ASSUME NewFields(t) PROVE Active' = Active \ {t}
  <2>1. /\ call'[t].stage = "returned"
        /\ \A u \in Thread : u # t => call'[u] = call[u]
    BY <1>2 DEF NewFields, Returned, TypeOK
  <2> QED
    BY <2>1 DEF Active
<1>3. ASSUME \/ AssignField(t) \/ SetOutput(t) \/ BeginCopy(t) \/ EndCopy(t)
             \/ Write(t) \/ Forward(t) \/ ResetFields(t)
      PROVE  Active' = Active /\ t \in Active
  <2>1. /\ call[t].stage # "returned" /\ call'[t].stage # "returned"
        /\ \A u \in Thread : u # t => call'[u] = call[u]
    <3>0. \A u \in Thread : call[u] \in CallState
      BY DEF TypeOK
    <3>1. CASE AssignField(t)
      BY <3>0, <3>1 DEF AssignField, TypeOK, CallState
    <3>2. CASE SetOutput(t)
      BY <3>0, <3>2 DEF SetOutput, TypeOK, CallState
    <3>3. CASE BeginCopy(t)
      BY <3>0, <3>3 DEF BeginCopy, TypeOK, CallState
    <3>4. CASE EndCopy(t)
      BY <3>0, <3>4 DEF EndCopy, TypeOK, CallState
    <3>5. CASE Write(t)
      BY <3>0, <3>5 DEF Write, TypeOK, CallState
    <3>6. CASE Forward(t)
      BY <3>0, <3>6 DEF Forward, TypeOK, CallState
    <3>7. CASE ResetFields(t)
      BY <3>0, <3>7 DEF ResetFields, Resetting, Returned, Returning, TypeOK
    <3> QED
      BY <1>3, <3>1, <3>2, <3>3, <3>4, <3>5, <3>6, <3>7
  <2> QED
    BY <2>1 DEF Active
<1> QED
  BY <1>1, <1>2, <1>3

LEMMA FieldsStep ==
    TypeOK /\ FieldsOfActiveCalls /\ [Next]_vars => FieldsOfActiveCalls'
<1> SUFFICES ASSUME TypeOK, FieldsOfActiveCalls, [Next]_vars
             PROVE  FieldsOfActiveCalls'
  OBVIOUS
<1>1. ASSUME NEW t \in Thread, NEW c \in CallsOf(t), Start(t, c)
      PROVE  FieldsOfActiveCalls'
  <2>1. Active' = Active \cup {t}
    BY <1>1, ActiveStep
  <2>2. \A f \in DOMAIN data' : data'[f] = t \/ (f \in DOMAIN data /\ data'[f] = data[f])
    BY <1>1 DEF Start, OwnFields
  <2> QED
    BY <2>1, <2>2 DEF FieldsOfActiveCalls
<1>2. ASSUME NEW t \in Thread, AssignField(t) PROVE FieldsOfActiveCalls'
  <2>1. Active' = Active /\ t \in Active
    BY <1>2, ActiveStep
  <2>2. \A f \in DOMAIN data' : data'[f] = t \/ (f \in DOMAIN data /\ data'[f] = data[f])
    BY <1>2 DEF AssignField, WithOwn
  <2> QED
    BY <2>1, <2>2 DEF FieldsOfActiveCalls
<1>3. ASSUME NEW t \in Thread,
             SetOutput(t) \/ BeginCopy(t) \/ EndCopy(t) \/ Write(t) \/ Forward(t)
      PROVE  FieldsOfActiveCalls'
  <2>1. Active' = Active
    BY <1>3, ActiveStep
  <2>2. data' = data
    BY <1>3 DEF SetOutput, BeginCopy, EndCopy, Write, Forward
  <2> QED
    BY <2>1, <2>2 DEF FieldsOfActiveCalls
<1>4. ASSUME NEW t \in Thread, ResetFields(t) \/ NewFields(t) PROVE FieldsOfActiveCalls'
  <2>1. DOMAIN data' = {}
    BY <1>4, NoFieldsMap DEF ResetFields, NewFields
  <2> QED
    BY <2>1 DEF FieldsOfActiveCalls
<1>5. CASE ConcurrentMapUse \/ \E t \in Thread : \E c \in CallsOf(t) : NilMapWrite(t, c)
  BY <1>5 DEF ConcurrentMapUse, NilMapWrite, FieldsOfActiveCalls, Active
<1>6. CASE UNCHANGED vars
  BY <1>6 DEF vars, FieldsOfActiveCalls, Active
<1> QED
  BY <1>1, <1>2, <1>3, <1>4, <1>5, <1>6 DEF Next, Step

(* The shared map of fields only holds fields of calls under way, for any  *)
(* number of threads and any mixture of their calls: resetFields at the    *)
(* end of every call leaves nothing behind.                                *)
THEOREM FieldsNeverOutliveCalls == Spec => []FieldsOfActiveCalls
<1>1. Init => FieldsOfActiveCalls
  BY NoFieldsMap DEF Init, FieldsOfActiveCalls
<1> QED
  BY <1>1, TypeInit, TypeStep, FieldsStep, PTL DEF Spec

------------------------------------------------------------------------------
(* A call that nobody has overlapped is the only one, the map holds its    *)
(* fields and no others, the output is where it last put it, and it has    *)
(* written what it should have by now.                                     *)
Due(t) ==
    LET y == call[t].call.logType
    IN IF call[t].logger < y THEN 0
       ELSE IF call[t].logger = y THEN call[t].entry ELSE Len(Outputs(y, y))

Entry(t, k) ==
    [sink |-> Outputs(call[t].call.logType, call[t].call.logType)[k],
     fields |-> OwnFields(t, call[t].call)]

AloneOK(t) ==
    LET own == OwnFields(t, call[t].call)
        outputs == Outputs(call[t].logger, call[t].call.logType)
        stage == call[t].stage
    IN /\ Active = {t}
       /\ IF stage = "assign" THEN data = NoFields /\ t \in users ELSE data = own
       /\ stage \in {"copying", "write"} => call[t].copy = own
       /\ stage \in {"copy", "copying", "write"} =>
            call[t].entry < Len(outputs) /\ out = outputs[call[t].entry + 1]
       /\ call[t].entry <= Len(outputs)
       /\ call[t].written = [k \in 1 .. Due(t) |-> Entry(t, k)]

AloneInv == \A t \in Active : alone[t] => AloneOK(t)

LogInv == TypeOK /\ FieldsOfActiveCalls /\ AloneInv

LEMMA OwnOfNone == ASSUME NEW t, NEW c, c.fields = {} PROVE OwnFields(t, c) = NoFields
BY DEF OwnFields, NoFields

LEMMA EmptyWhenIdle == ASSUME TypeOK, FieldsOfActiveCalls, Active = {}
                       PROVE  data = NoFields
<1>1. DOMAIN data = {}
  BY DEF FieldsOfActiveCalls
<1>2. data \in [DOMAIN data -> Thread]
  BY FieldMapElim DEF TypeOK
<1> QED
  BY <1>1, <1>2 DEF NoFields

(* Outputs, Due and Entry depend on the configuration and t's call only.   *)
LEMMA OutputsUnchanged ==
    ASSUME config' = config, NEW l, NEW y PROVE Outputs(l, y)' = Outputs(l, y)
BY DEF Outputs, ConsoleOutputs, PCPOutputs, SchedTraceOutputs, SPSOutputs,
       SchedWindowOutputs, TaskDistrOutputs, TypedOutputs, LogFile

LEMMA AloneStart ==
    ASSUME LogInv, NEW t \in Thread, NEW c \in CallsOf(t), Start(t, c)
    PROVE  AloneInv'
<1>1. Active' = Active \cup {t} /\ t \notin Active
  BY ActiveStep DEF LogInv, Start
<1>2. ASSUME NEW u \in Active', alone'[u] PROVE u = t /\ Active = {}
  BY <1>1, <1>2 DEF Start, Active
<1>3. ASSUME Active = {} PROVE AloneOK(t)'
  <2>1. data = NoFields
    BY <1>3, EmptyWhenIdle DEF LogInv
  <2>2. /\ call'[t].call = c /\ call'[t].entry = 0 /\ call'[t].logger = CONSOLE
        /\ call'[t].stage = IF c.with = "WithField" THEN "assign" ELSE "log"
        /\ call'[t].written = <<>>
    BY DEF Start, LogInv, TypeOK
  <2>3. c \in Call /\ (c.with = "Log" => OwnFields(t, c) = NoFields)
    BY CallsAreCalls, OwnOfNone
  <2>4. IF c.with = "WithField" THEN data' = NoFields /\ t \in users'
        ELSE data' = OwnFields(t, c)
    BY <2>1, <2>3 DEF Start, Call
  <2>5. config' = config /\ config \in Config
    BY LoggingAssumption DEF Start, LogInv, TypeOK
  <2>6. Outputs(CONSOLE, c.logType)' \in Seq(Sink) /\ c.logType \in LogType
    BY <2>3, <2>5, OutputsFacts, OutputsUnchanged DEF Call, LogType
  <2>7. Due(t)' = 0
    BY <2>2, <2>6 DEF Due, LogType
  <2>8. [k \in 1 .. 0 |-> Entry(t, k)'] = <<>>
    OBVIOUS
  <2>9. OwnFields(t, call[t].call)' = OwnFields(t, c)
    BY <2>2 DEF OwnFields
  <2>10. Active' = {t}
    BY <1>1, <1>3
  <2>11. 0 <= Len(Outputs(CONSOLE, c.logType)')
    BY <2>6
  <2> QED
    BY <2>2, <2>4, <2>7, <2>8, <2>9, <2>10, <2>11 DEF AloneOK
<1> QED
  BY <1>2, <1>3 DEF AloneInv

(* A call alone is the only one that can take a step.                      *)
LEMMA AloneOnly ==
    ASSUME LogInv, NEW t \in Thread, Active' = Active, t \in Active, alone' = alone,
           AloneOK(t) => AloneOK(t)'
    PROVE  AloneInv'
<1>1. ASSUME NEW u \in Active, alone[u] PROVE u = t /\ AloneOK(t)
  BY <1>1 DEF LogInv, AloneInv, AloneOK
<1> QED
  BY <1>1 DEF AloneInv

(* The same call goes on.                                                  *)
LEMMA SameCall ==
    ASSUME LogInv, NEW t \in Thread, config' = config,
           call'[t].call = call[t].call
    PROVE  /\ OwnFields(t, call[t].call)' = OwnFields(t, call[t].call)
           /\ Outputs(call[t].logger, call[t].call.logType)'
                = Outputs(call'[t].logger, call[t].call.logType)
           /\ \A k : Entry(t, k)' = Entry(t, k)
           /\ call'[t].logger = call[t].logger /\ call'[t].entry = call[t].entry
                => Due(t)' = Due(t)
           /\ config \in Config /\ call[t] \in CallState
           /\ call[t].call.logType \in LogType
<1>1. \A l, y : Outputs(l, y)' = Outputs(l, y)
  BY OutputsUnchanged
<1>2. OwnFields(t, call[t].call)' = OwnFields(t, call[t].call)
  BY DEF OwnFields
<1>3. \A k : Entry(t, k)' = Entry(t, k)
  BY <1>1, <1>2 DEF Entry
<1>4. config \in Config /\ call[t] \in CallState
  BY LoggingAssumption DEF LogInv, TypeOK
<1>5. call[t].call.logType \in LogType
  BY <1>4 DEF CallState, Call
<1> QED
  BY <1>1, <1>2, <1>3, <1>4, <1>5 DEF Due

LEMMA AloneAssign == ASSUME LogInv, NEW t \in Thread, AssignField(t) PROVE AloneInv'
<1>1. Active' = Active /\ t \in Active /\ alone' = alone /\ config' = config
  BY ActiveStep DEF LogInv, AssignField
<1>2. /\ call'[t].call = call[t].call /\ call'[t].logger = call[t].logger
      /\ call'[t].entry = call[t].entry /\ call'[t].written = call[t].written
      /\ call'[t].stage = "log" /\ call[t].stage = "assign"
  BY DEF AssignField, LogInv, TypeOK, CallState
<1>3. ASSUME AloneOK(t) PROVE AloneOK(t)'
  <2>1. data = NoFields /\ t \in users
    BY <1>2, <1>3 DEF AloneOK
  <2>2. WithOwn(t, call[t].call) = OwnFields(t, call[t].call)
    BY <2>1, NoFieldsMap DEF WithOwn, OwnFields
  <2>3. data' = OwnFields(t, call[t].call)
    BY <2>1, <2>2 DEF AssignField
  <2> QED
    BY <1>1, <1>2, <1>3, <2>3, SameCall DEF AloneOK
<1> QED
  BY <1>1, <1>3, AloneOnly

LEMMA AloneSetOutput == ASSUME LogInv, NEW t \in Thread, SetOutput(t) PROVE AloneInv'
<1>1. Active' = Active /\ t \in Active /\ alone' = alone /\ config' = config
      /\ data' = data
  BY ActiveStep DEF LogInv, SetOutput
<1>2. /\ call'[t].call = call[t].call /\ call'[t].logger = call[t].logger
      /\ call'[t].entry = call[t].entry /\ call'[t].written = call[t].written
      /\ call'[t].stage = "copy" /\ call[t].stage = "log"
  BY DEF SetOutput, LogInv, TypeOK, CallState
<1>3. /\ call[t].entry < Len(Outputs(call[t].logger, call[t].call.logType))
      /\ out' = Outputs(call[t].logger, call[t].call.logType)[call[t].entry + 1]
  BY DEF SetOutput, MoreOutputs
<1>4. ASSUME AloneOK(t) PROVE AloneOK(t)'
  BY <1>1, <1>2, <1>3, <1>4, SameCall DEF AloneOK
<1> QED
  BY <1>1, <1>4, AloneOnly

LEMMA AloneCopy ==
    ASSUME LogInv, NEW t \in Thread, BeginCopy(t) \/ EndCopy(t) PROVE AloneInv'
<1>1. Active' = Active /\ t \in Active /\ alone' = alone /\ config' = config
      /\ data' = data /\ out' = out
  BY ActiveStep DEF LogInv, BeginCopy, EndCopy
<1>2. /\ call'[t].call = call[t].call /\ call'[t].logger = call[t].logger
      /\ call'[t].entry = call[t].entry /\ call'[t].written = call[t].written
      /\ \/ call[t].stage = "copy" /\ call'[t].stage = "copying" /\ call'[t].copy = data
         \/ call[t].stage = "copying" /\ call'[t].stage = "write"
            /\ call'[t].copy = call[t].copy
  BY DEF BeginCopy, EndCopy, LogInv, TypeOK, CallState
<1>3. ASSUME AloneOK(t) PROVE AloneOK(t)'
  BY <1>1, <1>2, <1>3, SameCall DEF AloneOK
<1> QED
  BY <1>1, <1>3, AloneOnly

LEMMA AloneWrite == ASSUME LogInv, NEW t \in Thread, Write(t) PROVE AloneInv'
<1>1. Active' = Active /\ t \in Active /\ alone' = alone /\ config' = config
      /\ data' = data
  BY ActiveStep DEF LogInv, Write
<1> DEFINE E == [sink |-> out, fields |-> call[t].copy]
           y == call[t].call.logType
<1>2. /\ call'[t].call = call[t].call /\ call'[t].logger = call[t].logger
      /\ call'[t].entry = call[t].entry + 1
      /\ call'[t].written = Append(call[t].written, E)
      /\ call'[t].stage = "log" /\ call[t].stage = "write"
  BY DEF Write, LogInv, TypeOK, CallState
<1>3. ASSUME AloneOK(t) PROVE AloneOK(t)'
  <2>1. /\ call[t].entry < Len(Outputs(call[t].logger, y))
        /\ out = Outputs(call[t].logger, y)[call[t].entry + 1]
        /\ call[t].copy = OwnFields(t, call[t].call)
        /\ call[t].written = [k \in 1 .. Due(t) |-> Entry(t, k)]
        /\ data = OwnFields(t, call[t].call) /\ Active = {t}
    BY <1>2, <1>3 DEF AloneOK
  <2>2. /\ call[t].entry \in Nat /\ call[t].logger \in LogType /\ y \in LogType
        /\ Outputs(call[t].logger, y) \in Seq(Sink)
    BY <1>1, <1>2, SameCall, OutputsFacts DEF CallState
  <2>3. call[t].logger = y
    <3>1. Outputs(call[t].logger, y) # <<>>
      BY <2>1, <2>2
    <3> QED
      BY <1>1, <1>2, <2>2, <3>1, SameCall, OutputsFacts
  <2>4. Due(t) = call[t].entry /\ Due(t)' = call[t].entry + 1
    BY <1>2, <2>2, <2>3 DEF Due, LogType
  <2>5. E = Entry(t, call[t].entry + 1)
    BY <2>1, <2>3 DEF Entry
  <2>6. Append(call[t].written, E) = [k \in 1 .. call[t].entry + 1 |-> Entry(t, k)]
    <3> DEFINE n == call[t].entry
               F(k) == Entry(t, k)
    <3>1. n \in Nat /\ call[t].written = [k \in 1 .. n |-> F(k)] /\ E = F(n + 1)
      BY <2>1, <2>2, <2>4, <2>5
    <3> HIDE DEF n, F, E
    <3>2. Append([k \in 1 .. n |-> F(k)], F(n + 1)) = [k \in 1 .. n + 1 |-> F(k)]
      BY <3>1
    <3> QED
      BY <3>1, <3>2 DEF n, F
  <2>7. call'[t].written = [k \in 1 .. Due(t)' |-> Entry(t, k)']
    BY <1>1, <1>2, <2>4, <2>6, SameCall
  <2>8. call'[t].entry <= Len(Outputs(call[t].logger, y))
    BY <1>2, <2>1, <2>2
  <2> HIDE DEF E, y
  <2>9. call'[t].entry <= Len(Outputs(call[t].logger, call[t].call.logType)')
    BY <1>1, <1>2, <2>8, SameCall DEF y
  <2> QED
    BY <1>1, <1>2, <2>1, <2>7, <2>9, SameCall DEF AloneOK
<1> QED
  BY <1>1, <1>3, AloneOnly

LEMMA AloneForward == ASSUME LogInv, NEW t \in Thread, Forward(t) PROVE AloneInv'
<1>1. Active' = Active /\ t \in Active /\ alone' = alone /\ config' = config
      /\ data' = data
  BY ActiveStep DEF LogInv, Forward
<1> DEFINE y == call[t].call.logType
           n == NextLogger(call[t].logger, y)
<1>2. /\ call'[t].call = call[t].call /\ call'[t].logger = n
      /\ call'[t].entry = 0 /\ call'[t].written = call[t].written
      /\ call'[t].stage = "log" /\ call[t].stage = "log"
  BY DEF Forward, LogInv, TypeOK, CallState
<1>3. /\ call[t].entry \in Nat /\ call[t].logger \in LogType /\ y \in LogType
      /\ config \in Config
      /\ Outputs(call[t].logger, y) \in Seq(Sink) /\ Outputs(y, y) \in Seq(Sink)
      /\ ~(call[t].entry < Len(Outputs(call[t].logger, y))) /\ call[t].logger < 5
  <2>1. config \in Config /\ call[t] \in CallState /\ y \in LogType
    BY <1>1, <1>2, SameCall
  <2>2. call[t].entry \in Nat /\ call[t].logger \in LogType
    BY <2>1 DEF CallState
  <2>3. Outputs(call[t].logger, y) \in Seq(Sink) /\ Outputs(y, y) \in Seq(Sink)
    BY <2>1, <2>2, OutputsFacts
  <2> QED
    BY <2>1, <2>2, <2>3 DEF Forward, MoreOutputs, HasNext
<1>4. n = IF call[t].logger < y /\ Outputs(y, y) # <<>> THEN y ELSE 5
  BY <1>3, NextLoggerIs DEF HasNext
<1>5. n \in LogType /\ Outputs(n, y) \in Seq(Sink)
  <2>1. n \in LogType
    BY <1>3, <1>4 DEF LogType
  <2> HIDE DEF n
  <2> QED
    BY <1>3, <2>1, OutputsFacts
<1>6. ASSUME AloneOK(t) PROVE AloneOK(t)'
  <2>1. call[t].entry <= Len(Outputs(call[t].logger, y))
        /\ call[t].written = [k \in 1 .. Due(t) |-> Entry(t, k)]
    BY <1>6 DEF AloneOK
  <2>2. call[t].entry = Len(Outputs(call[t].logger, y))
    BY <1>3, <2>1
  <2>3. Due(t) = IF call[t].logger < y THEN 0 ELSE Len(Outputs(y, y))
    BY <1>3, <2>2 DEF Due, LogType
  <2>4. Due(t)' = IF n < y THEN 0 ELSE IF n = y THEN 0 ELSE Len(Outputs(y, y)')
    BY <1>2 DEF Due
  <2>5. Outputs(y, y)' = Outputs(y, y)
    BY <1>1, <1>2, OutputsUnchanged
  <2>6. Due(t)' = Due(t)
    <3>1. CASE Outputs(y, y) = <<>>
      BY <1>3, <2>3, <2>4, <2>5, <3>1
    <3>2. CASE Outputs(y, y) # <<>> /\ call[t].logger < y
      BY <1>4, <2>3, <2>4, <3>2
    <3>3. CASE ~(call[t].logger < y)
      BY <1>3, <1>4, <2>3, <2>4, <2>5, <3>3 DEF LogType
    <3> QED
      BY <3>1, <3>2, <3>3
  <2>7. 0 <= Len(Outputs(n, y))
    BY <1>5
  <2> HIDE DEF n, y
  <2>8. 0 <= Len(Outputs(call[t].logger, call[t].call.logType)')
    BY <1>1, <1>2, <2>7, SameCall DEF y
  <2>9. call'[t].written = [k \in 1 .. Due(t)' |-> Entry(t, k)']
    BY <1>1, <1>2, <2>1, <2>6, SameCall
  <2> QED
    BY <1>1, <1>2, <1>6, <2>8, <2>9, SameCall DEF AloneOK
<1> QED
  BY <1>1, <1>6, AloneOnly

LEMMA AloneReset == ASSUME LogInv, NEW t \in Thread, ResetFields(t) PROVE AloneInv'
<1>1. Active' = Active /\ t \in Active /\ alone' = alone /\ config' = config
      /\ data' = NoFields
  BY ActiveStep DEF LogInv, ResetFields
<1>2. /\ call'[t].call = LogCall("Log", {}, CONSOLE) /\ call'[t].logger = CONSOLE
      /\ call'[t].entry = 0 /\ call'[t].written = <<>> /\ call'[t].stage = "resetting"
  BY DEF ResetFields, Resetting, Returned, LogInv, TypeOK
<1>3. ASSUME AloneOK(t) PROVE AloneOK(t)'
  <2>1. LogCall("Log", {}, CONSOLE).fields = {} /\ LogCall("Log", {}, CONSOLE).logType = CONSOLE
    BY DEF LogCall
  <2>2. OwnFields(t, call[t].call)' = NoFields
    <3>1. OwnFields(t, call'[t].call) = NoFields
      BY <1>2, <2>1, OwnOfNone
    <3> QED
      BY <3>1 DEF OwnFields
  <2>3. Outputs(CONSOLE, CONSOLE)' \in Seq(Sink)
    <3>1. config \in Config /\ CONSOLE \in LogType
      BY LoggingAssumption DEF LogInv, TypeOK, LogType
    <3>2. Outputs(CONSOLE, CONSOLE) \in Seq(Sink)
      BY <3>1, OutputsFacts
    <3> QED
      BY <1>1, <3>2, OutputsUnchanged
  <2>4. Due(t)' = 0
    BY <1>2, <2>1 DEF Due
  <2>5. [k \in 1 .. 0 |-> Entry(t, k)'] = <<>>
    OBVIOUS
  <2>6. 0 <= Len(Outputs(CONSOLE, CONSOLE)')
    BY <2>3
  <2>7. Active' = {t}
    BY <1>1, <1>3 DEF AloneOK
  <2> QED
    BY <1>1, <1>2, <2>1, <2>2, <2>4, <2>5, <2>6, <2>7 DEF AloneOK
<1> QED
  BY <1>1, <1>3, AloneOnly

LEMMA AloneNewFields == ASSUME LogInv, NEW t \in Thread, NewFields(t) PROVE AloneInv'
<1>1. Active' = Active \ {t} /\ alone' = alone /\ t \in Active
  BY ActiveStep DEF LogInv, NewFields, Active
<1>2. ASSUME NEW u \in Active', alone'[u] PROVE FALSE
  BY <1>1, <1>2 DEF LogInv, AloneInv, AloneOK
<1> QED
  BY <1>2 DEF AloneInv

LEMMA LogInvInit == Init => LogInv
<1> SUFFICES ASSUME Init PROVE LogInv
  OBVIOUS
<1>1. Active = {}
  BY DEF Init, Active, Returned
<1> QED
  BY <1>1, TypeInit, NoFieldsMap DEF Init, LogInv, FieldsOfActiveCalls, AloneInv

LEMMA LogInvStep == LogInv /\ [Next]_vars => LogInv'
<1> SUFFICES ASSUME LogInv, [Next]_vars PROVE AloneInv'
  BY TypeStep, FieldsStep DEF LogInv
<1> DEFINE NilWrite == \E t \in Thread : \E c \in CallsOf(t) : NilMapWrite(t, c)
<1>1. ASSUME NEW t \in Thread, Step(t) PROVE AloneInv' \/ NilWrite
  BY <1>1, AloneStart, AloneAssign, AloneSetOutput, AloneCopy, AloneWrite,
     AloneForward, AloneReset, AloneNewFields DEF Step
<1>2. CASE ConcurrentMapUse \/ NilWrite \/ UNCHANGED vars
  <2>1. /\ config' = config /\ data' = data /\ users' = users /\ out' = out
        /\ call' = call /\ alone' = alone
    BY <1>2 DEF ConcurrentMapUse, NilMapWrite, vars
  <2> QED
    <3>1. Active' = Active
      BY <2>1 DEF Active
    <3>2. ASSUME NEW t \in Active, AloneOK(t) PROVE AloneOK(t)'
      <4>1. t \in Thread
        BY DEF Active
      <4> QED
        BY <2>1, <3>1, <3>2, <4>1, SameCall DEF AloneOK
    <3> QED
      BY <2>1, <3>1, <3>2 DEF LogInv, AloneInv
<1> QED
  BY <1>1, <1>2 DEF Next

(* A log call that no other call overlaps writes its entry, with its own   *)
(* fields and no others, to exactly the outputs configured for its type:   *)
(* for any configuration and whatever was logged before, mixed or not.     *)
THEOREM AloneCallIsExact == Spec => []AloneIsExact
<1>1. LogInv => AloneIsExact
  <2> SUFFICES ASSUME LogInv, NEW t \in Thread, Returning(t), alone[t]
               PROVE  call[t].written =
                        [k \in DOMAIN Outputs(call[t].call.logType, call[t].call.logType)
                           |-> Entry(t, k)]
    BY DEF AloneIsExact, Entry
  <2> DEFINE y == call[t].call.logType
  <2>1. config \in Config /\ call[t] \in CallState /\ y \in LogType
    BY LoggingAssumption DEF LogInv, TypeOK, CallState, Call
  <2>2. Outputs(call[t].logger, y) \in Seq(Sink) /\ Outputs(y, y) \in Seq(Sink)
    BY <2>1, OutputsFacts DEF CallState
  <2>3. AloneOK(t)
    BY DEF LogInv, AloneInv, Returning, Active
  <2>4. /\ call[t].logger \in LogType /\ ~(call[t].logger < 5) /\ call[t].entry \in Nat
        /\ ~(call[t].entry < Len(Outputs(call[t].logger, y)))
        /\ call[t].entry <= Len(Outputs(call[t].logger, y))
        /\ call[t].written = [k \in 1 .. Due(t) |-> Entry(t, k)]
    <3>1. call[t].logger \in LogType /\ call[t].entry \in Nat
      BY <2>1 DEF CallState
    <3>2. ~(call[t].logger < 5) /\ ~(call[t].entry < Len(Outputs(call[t].logger, y)))
      BY DEF Returning, HasNext, MoreOutputs
    <3> QED
      BY <2>3, <3>1, <3>2 DEF AloneOK
  <2>5. Due(t) = Len(Outputs(y, y))
    <3>1. call[t].logger = 5 /\ ~(call[t].logger < y)
      BY <2>1, <2>4 DEF LogType
    <3>2. call[t].logger = y => call[t].entry = Len(Outputs(y, y))
      BY <2>2, <2>4
    <3> QED
      BY <3>1, <3>2 DEF Due
  <2>6. DOMAIN Outputs(y, y) = 1 .. Len(Outputs(y, y))
    BY <2>2
  <2> QED
    BY <2>4, <2>5, <2>6
<1> QED
  BY <1>1, LogInvInit, LogInvStep, PTL DEF Spec
==============================================================================
