------------------------------ MODULE PowerCap -------------------------------
(***************************************************************************)
(* What the two power-capping policies share: the mean power of the        *)
(* cluster they read from PCP, the victims they order by power, and        *)
(* rapl.Cap, which caps a host over ssh and may fail (rapl/cap.go).  A cap *)
(* is a percentage in hundredths, 10000 is uncapped.  Power readings are   *)
(* the environment's: any mean of Mean and any order of the hosts.         *)
(***************************************************************************)
EXTENDS Integers, Sequences, FiniteSets, Functions

CONSTANTS
    Host,                     \* hosts with RAPL columns in the PCP output
    Mean,                     \* means of the cluster's power, naturals
    hiThreshold, loThreshold, \* flags -hiThreshold and -loThreshold
    MaxFailures,              \* bound: calls of rapl.Cap that return an error
    MayLoseReply,             \* a failed call may have capped the host
    MayRefuseSession          \* sshd may accept a connection but no session

ASSUME PowerAssumption ==
    /\ IsFiniteSet(Host)
    /\ Mean \subseteq Nat
    /\ hiThreshold \in Nat /\ loThreshold \in Nat
    /\ loThreshold <= hiThreshold
    /\ MaxFailures \in Nat
    /\ MayLoseReply \in BOOLEAN
    /\ MayRefuseSession \in BOOLEAN

VARIABLES
    clusterMean,              \* AverageClusterPowerHistory at the last line
    actual,                   \* actual[h]: the cap in force on the host
    failures,
    process,                  \* "alive", "panicked" (a nil dereference)
    seconds                   \* lines read, modulo 2: every line is a step

line == <<clusterMean, seconds>>
rapl == <<actual, failures, process>>

Uncapped == 10000

(* rapl.Cap returns nil: the script ran.                                   *)
CapSucceeds(h, percentage) ==
    /\ percentage \in 0 .. Uncapped
    /\ actual' = [actual EXCEPT ![h] = percentage]
    /\ UNCHANGED <<failures, process>>

(* rapl.Cap does not return nil: the percentage is out of range; there is  *)
(* no connection; the end of the script was not seen, in which case it may *)
(* have done its work; or there is no session, and the deferred            *)
(* session.Close() dereferences nil.                                       *)
CapFails(h, percentage) ==
    IF percentage \notin 0 .. Uncapped THEN UNCHANGED rapl
    ELSE /\ failures < MaxFailures
         /\ failures' = failures + 1
         /\ \/ UNCHANGED <<actual, process>>
            \/ /\ MayLoseReply
               /\ actual' = [actual EXCEPT ![h] = percentage]
               /\ UNCHANGED process
            \/ MayRefuseSession /\ process' = "panicked" /\ UNCHANGED actual

(* sort.Sort(VictimSorter(victims)): by power, that is in any order.       *)
VictimOrders == {v \in [1 .. Cardinality(Host) -> Host] : IsInjective(v)}

(* A line is read and the mean recomputed.                                 *)
ReadLine(mean) ==
    /\ clusterMean' = mean
    /\ seconds' = (seconds + 1) % 2

PowerInit ==
    /\ clusterMean = 0
    /\ seconds = 0
    /\ actual = [h \in Host |-> Uncapped]
    /\ failures = 0
    /\ process = "alive"

PowerTypeOK ==
    /\ clusterMean \in Nat
    /\ seconds \in 0 .. 1
    /\ actual \in [Host -> 0 .. Uncapped]
    /\ failures \in 0 .. MaxFailures
    /\ process \in {"alive", "panicked"}
==============================================================================
