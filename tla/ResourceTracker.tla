--------------------------- MODULE ResourceTracker ---------------------------
(***************************************************************************)
(* The resource availability tracker (utilities/trackResourceUsage.go): per*)
(* agent, the resources of the first offer it made and what the tasks      *)
(* launched there have left of them.  Its lock makes each update atomic.   *)
(***************************************************************************)
EXTENDS TaskQueue, FiniteSetsExt

VARIABLE perHostResourceAvailability   \* [Agent -> ResourceCount or nil]

Resources == [cpu: Int, ram: Int, watts: Int]

ResourceCount == [total: Resources, unused: Resources]

Plus(r, s) == [cpu |-> r.cpu + s.cpu, ram |-> r.ram + s.ram,
               watts |-> r.watts + s.watts]

Minus(r, s) == [cpu |-> r.cpu - s.cpu, ram |-> r.ram - s.ram,
                watts |-> r.watts - s.watts]

(* GetResourceRequirement: what an instance asks for, by its task ID.  The *)
(* watts are the task's own, whatever its class map says.                  *)
GetResourceRequirement(x) ==
    [cpu |-> Def[x[1]].CPU, ram |-> Def[x[1]].RAM, watts |-> Def[x[1]].Watts]

SumOf(ids) == [cpu   |-> SumFunction([x \in ids |-> GetResourceRequirement(x).cpu]),
               ram   |-> SumFunction([x \in ids |-> GetResourceRequirement(x).ram]),
               watts |-> SumFunction([x \in ids |-> GetResourceRequirement(x).watts])]

TrackerInit == perHostResourceAvailability = [a \in Agent |-> nil]

(* RecordTotalResourceAvailability: the first offer of an agent is taken   *)
(* for all it has.                                                         *)
RecordTotalResourceAvailability(os) ==
    [a \in Agent |->
        LET from == {k \in DOMAIN os : os[k].agent = a}
            r == [cpu |-> os[Min(from)].cpus, ram |-> os[Min(from)].mem,
                  watts |-> os[Min(from)].watts]
        IN IF perHostResourceAvailability[a] = nil /\ from # {}
           THEN [total |-> r, unused |-> r]
           ELSE perHostResourceAvailability[a]]

(* ON_TASK_ACTIVE_STATE for each of ids, launched on agent a.              *)
OnTaskActive(ids, a) ==
    perHostResourceAvailability' =
        IF perHostResourceAvailability[a] = nil \/ ids = {}
        THEN perHostResourceAvailability
        ELSE [perHostResourceAvailability EXCEPT ![a].unused = Minus(@, SumOf(ids))]

(* Mutant: a task that ends gives nothing back.                            *)
TerminalIgnored(x, a) == UNCHANGED perHostResourceAvailability

(* ON_TASK_TERMINAL_STATE.                                                 *)
OnTaskTerminal(x, a) ==
    perHostResourceAvailability' =
        IF perHostResourceAvailability[a] = nil THEN perHostResourceAvailability
        ELSE [perHostResourceAvailability EXCEPT
                ![a].unused = Plus(@, GetResourceRequirement(x))]

(* GetClusterwideResourceAvailability, its unused CPU and RAM.             *)
Clusterwide(avail) ==
    LET known == {a \in Agent : avail[a] # nil}
    IN [cpu |-> SumFunction([a \in known |-> avail[a].unused.cpu]),
        ram |-> SumFunction([a \in known |-> avail[a].unused.ram])]
==============================================================================
