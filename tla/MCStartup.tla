------------------------------ MODULE MCStartup ------------------------------
(* Valid and invalid values of every flag, and workloads of up to two tasks. *)
EXTENDS Startup

TaskWith(name, image, cpu, ram, inst) ==
    [Name |-> name, Image |-> image, CPU |-> cpu, RAM |-> ram, Watts |-> cpu + 1,
     Instances |-> inst]

(* Two valid tasks, a second one of the same name, two without a positive  *)
(* number of instances, and one per defect.                                *)
MCTasks == {TaskWith("a", "img", 1, 1, 2), TaskWith("b", "img", 2, 1, 1),
            TaskWith("a", "img", 3, 2, 1), TaskWith("c", "img", 1, 1, 0), TaskWith("d", "img", 1, 1, -1),
            TaskWith("", "img", 1, 1, 1), TaskWith("with space", "img", 1, 1, 1),
            TaskWith("a", "", 1, 1, 1), TaskWith("a", "img", 0, 1, 1),
            TaskWith("a", "img", 1, 0, 1), TaskWith("a", "img", 1, 1, nil)}

MCWorkloads == UNION {[1 .. n -> MCTasks] : n \in 0 .. 2}

MCSwitchFlags == [file: {"none", "unreadable", "read"}, criteria: {"taskDist", "unknown"},
                  first: {nil, "max-min", "unknown"}, fix: BOOLEAN, size: {-1, 0, 1}]

MCPolicies == {"first-fit", "max-min"}

MCPolicyNames == MCPolicies \cup {"unknown"}

MCPowerCaps == {"none", "extrema", "prog-extrema", "unknown"}
==============================================================================
