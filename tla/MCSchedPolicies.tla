--------------------------- MODULE MCSchedPolicies ---------------------------
(* Small workloads and offers for SchedPolicies.                           *)
EXTENDS SchedPolicies, TLC

CONSTANTS t1, t2, t3, a1, a2, A, B

TaskOf(cpu, ram, watts, inst, host, classes) ==
    [CPU |-> cpu, RAM |-> ram, Watts |-> watts, Instances |-> inst,
     Host |-> host, ClassToWatts |-> classes]

AnyHost == {a1, a2}

MCClassOf == a1 :> A @@ a2 :> B

(* t2 runs on a2 only and t3 has a class map that makes it heavy on B.     *)
MCDef ==
    t1 :> TaskOf(1, 1, 1, 2, AnyHost, nil) @@
    t2 :> TaskOf(1, 2, 2, 1, {a2}, nil) @@
    t3 :> TaskOf(2, 1, 2, 2, AnyHost, A :> 2 @@ B :> 3)

(* A workload one task of which has neither watts nor a class map, and     *)
(* none of the others fits the small offer.                                *)
MCDefNoWatts ==
    t1 :> TaskOf(2, 1, 1, 1, AnyHost, nil) @@
    t2 :> TaskOf(1, 1, 0, 2, {a2}, nil) @@
    t3 :> TaskOf(2, 1, 2, 1, AnyHost, nil)

OfferOf(agent, cpus, mem, watts) ==
    [agent |-> agent, cpus |-> cpus, mem |-> mem, watts |-> watts]

(* A small and a large offer of a1, and one of a2.                         *)
MCOffer == {OfferOf(a1, 1, 1, 1), OfferOf(a1, 4, 3, 4), OfferOf(a2, 2, 3, 4)}
==============================================================================
