--------------------------- MODULE MCBaseScheduler ---------------------------
(* Two agents, three tasks and the policies of the default SPConfig.       *)
EXTENDS BaseScheduler, TLC

CONSTANTS t1, t2, t3, a1, a2, A, B

TaskOf(cpu, ram, watts, inst, host, classes) ==
    [CPU |-> cpu, RAM |-> ram, Watts |-> watts, Instances |-> inst,
     Host |-> host, ClassToWatts |-> classes]

AnyHost == {a1, a2}

MCClassOf == a1 :> A @@ a2 :> B

MCCapacity == a1 :> [cpu |-> 3, ram |-> 3, watts |-> 6] @@
              a2 :> [cpu |-> 2, ram |-> 2, watts |-> 4]

(* t3 is heavy and only fits a1 while it is idle.                          *)
MCDef == t1 :> TaskOf(1, 1, 1, 2, AnyHost, A :> 1 @@ B :> 1) @@
         t2 :> TaskOf(2, 1, 2, 1, {a2}, A :> 2 @@ B :> 3) @@
         t3 :> TaskOf(3, 2, 3, 1, AnyHost, A :> 5 @@ B :> 3)

(* Every offer Mesos can make of these agents.                             *)
MCOffer == [agent: {a1, a2}, cpus: 0 .. 3, mem: 0 .. 3, watts: 0 .. 6]

(* schedPolConfig.json, its distributions in units of 1/12000.             *)
MCDistUnit == 12000

MCTaskDist == "first-fit" :> 0 @@ "bin-packing" :> 120000 @@
              "max-greedymins" :> 80004 @@ "max-min" :> 4992

(* docs/SchedulingPolicySwitching.md, which also lists first-fit; with     *)
(* max-greedymins at 1.667, within reach of four instances.                *)
MCTaskDistAll == "first-fit" :> 600 @@ "bin-packing" :> 120000 @@
                 "max-greedymins" :> 20004 @@ "max-min" :> 4992

(* Below, at, between and above the configured distributions.              *)
MCDistributions == {0, 600, 2400, 2796, 2797, 4992, 12498, 12499, 20004, 70002, 70003,
                    120000, 144000}
==============================================================================
