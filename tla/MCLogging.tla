------------------------------ MODULE MCLogging ------------------------------
(* The driver's thread and one PCP goroutine, three configurations.        *)
EXTENDS Logging

CONSTANTS mesos, pcp

ConfigOf(enabled, onConsole, dir) ==
    [Enabled |-> [l \in LogType |-> l \in enabled],
     AllowOnConsole |-> [l \in LogType |-> l \in onConsole],
     hasLogDir |-> dir]

(* logConfig.yaml as shipped; every type enabled and on the console, PCP   *)
(* too; and every type but PCP enabled without a log directory.            *)
MCConfigs == {ConfigOf({CONSOLE, PCP, SCHED_TRACE}, LogType \ {PCP}, TRUE),
              ConfigOf(LogType, LogType, TRUE),
              ConfigOf(LogType \ {PCP}, {SCHED_TRACE}, FALSE)}
==============================================================================
