---------------------------- MODULE Startup_proofs ----------------------------
(***************************************************************************)
(* For any flags, any workload and any set of policies: what Startup's     *)
(* invariants say of the scheduler that main sets up.  The options are a   *)
(* sequence whose order matters, so the inductive invariant says of each   *)
(* of them that it is still to be applied or has had its effect.           *)
(***************************************************************************)
EXTENDS Startup, TLAPS

Has(s, o) == \E i \in 1 .. Len(s) : s[i] = o

Pending(o) == Has(options, o)

(* The places main is at from a given one on, unless the process ended.    *)
FromLogger == {"logger", "pcp", "running"}
FromOptions == {"options"} \cup FromLogger
FromTasks == {"tasks"} \cup FromOptions
FromPowercap == {"powercap"} \cup FromTasks
FromSwitching == {"switching", "watts"} \cup FromPowercap

ValidTasks(w) == w # <<>> /\ \A k \in DOMAIN w : TaskOK(w[k]) /\ w[k].Instances # nil

(* The goroutine starts last, with the flags that were checked.            *)
PCPLast ==
    /\ pcpGoroutine # nil => pc = "running"
    /\ pc = "running" => pcpGoroutine = [cap |-> flags.cap, hi |-> flags.hi, lo |-> flags.lo]

(* What has been checked by the time main is that far.                     *)
CheckedSoFar ==
    /\ pc \in FromTasks =>
         /\ flags.cap \in {"none", "extrema", "prog-extrema"}
         /\ flags.cap # "none" => flags.hi >= flags.lo
    /\ pc \in FromOptions => ValidTasks(tasks)
    /\ pc \in FromLogger => options = <<>>

(* What each required option has set, unless it is still to be applied.    *)
Required ==
    /\ pc \in FromSwitching =>
         /\ Pending("SchedPolicy") \/ sched.curSchedPolicy # nil
         /\ Pending("Shutdown") \/ "Shutdown" \in sched.channels
         /\ Pending("Done") \/ "Done" \in sched.channels
    /\ pc \in FromPowercap =>
         /\ Pending("RecordPCP") \/ "RecordPCP" \in sched.channels
         /\ Pending("PCPLog") \/ "PCPLog" \in sched.channels
    /\ pc \in FromOptions => Pending("Tasks") \/ sched.tasks = tasks

(* The optional ones: what each sets, and which other one comes with it.   *)
Optional ==
    /\ sched.schedPolSwitchEnabled => sched.schedPolSwitchCriteria # nil
    /\ sched.toFixSchedWindow => sched.schedWindowSize > 0
    /\ \/ Pending("NameOfFirstSchedPolToFix") \/ Pending("FixedSchedulingWindow")
       \/ sched.toFixSchedWindow \/ sched.nameOfFstSchedPolToDeploy # nil
       => Pending("SchedPolSwitchEnabled") \/ sched.schedPolSwitchEnabled
    /\ Pending("ClassMapWatts") \/ sched.classMapWatts
       => /\ flags.waar /\ pc \notin {"list", "policy", "switching", "watts"}
          /\ Pending("WattsAsAResource") \/ sched.wattsAsAResource

IInv == TypeOK /\ PCPLast /\ CheckedSoFar /\ Required /\ Optional

------------------------------------------------------------------------------
LEMMA AppendPending ==
    ASSUME NEW S, NEW s \in Seq(S), NEW e \in S
    PROVE  /\ Append(s, e) \in Seq(S)
           /\ \A o : Has(Append(s, e), o) <=> Has(s, o) \/ o = e
  <1>1. Len(Append(s, e)) = Len(s) + 1 /\ Len(s) \in Nat /\ Append(s, e) \in Seq(S)
    OBVIOUS
  <1>2. \A i \in 1 .. Len(s) : Append(s, e)[i] = s[i]
    OBVIOUS
  <1>3. Append(s, e)[Len(s) + 1] = e
    OBVIOUS
  <1>4. 1 .. Len(Append(s, e)) = (1 .. Len(s)) \cup {Len(s) + 1}
    BY <1>1
  <1> QED  BY <1>1, <1>2, <1>3, <1>4, Zenon DEF Has

LEMMA TailPending ==
    ASSUME NEW S, NEW s \in Seq(S), s # <<>>
    PROVE  /\ Tail(s) \in Seq(S) /\ Head(s) \in S
           /\ \A o : Has(s, o) => Has(Tail(s), o) \/ o = Head(s)
           /\ \A o : Has(Tail(s), o) => Has(s, o)
           /\ Has(s, Head(s))
  <1>1. /\ Len(Tail(s)) = Len(s) - 1 /\ Len(s) \in Nat /\ Len(s) > 0
        /\ Tail(s) \in Seq(S) /\ Head(s) = s[1] /\ Head(s) \in S
    OBVIOUS
  <1>2. \A i \in 1 .. Len(Tail(s)) : Tail(s)[i] = s[i + 1] /\ i + 1 \in 1 .. Len(s)
    BY <1>1
  <1>3. \A i \in 1 .. Len(s) : i = 1 \/ (i - 1 \in 1 .. Len(Tail(s)) /\ s[i] = Tail(s)[i - 1])
    BY <1>1
  <1>4. 1 \in 1 .. Len(s)
    BY <1>1
  <1> QED  BY <1>1, <1>2, <1>3, <1>4, Zenon DEF Has

LEMMA ConcatPending ==
    ASSUME NEW S, NEW s \in Seq(S), NEW t \in Seq(S)
    PROVE  /\ s \o t \in Seq(S)
           /\ \A o : Has(s \o t, o) <=> Has(s, o) \/ Has(t, o)
  <1>1. /\ Len(s \o t) = Len(s) + Len(t) /\ Len(s) \in Nat /\ Len(t) \in Nat
        /\ s \o t \in Seq(S)
    OBVIOUS
  <1>2. \A i \in 1 .. Len(s) : (s \o t)[i] = s[i] /\ i \in 1 .. Len(s \o t)
    BY <1>1
  <1>3. \A i \in 1 .. Len(t) : (s \o t)[Len(s) + i] = t[i] /\ Len(s) + i \in 1 .. Len(s \o t)
    BY <1>1
  <1>4. \A i \in 1 .. Len(s \o t) : \/ i \in 1 .. Len(s)
                                    \/ /\ i - Len(s) \in 1 .. Len(t)
                                       /\ (s \o t)[i] = t[i - Len(s)]
    BY <1>1
  <1> QED  BY <1>1, <1>2, <1>3, <1>4, Zenon DEF Has

LEMMA InitInv == ASSUME Init PROVE IInv
  <1> USE StartupAssumption DEF Init
  <1>2. options \in Seq(Options)
    OBVIOUS
  <1>3. \A o : ~Pending(o)
    BY DEF Pending, Has
  <1>4. flags.switch \in SwitchFlag
    <2>1. flags.switch = [file |-> "none", criteria |-> "taskDist", first |-> nil,
                          fix |-> FALSE, size |-> 200]
      BY Zenon
    <2>2. 200 \in Int
      OBVIOUS
    <2> QED  BY <2>1, <2>2, Zenon DEF SwitchFlag, Criteria
  <1>5. TypeOK
    <2>1. pc \in Pcs /\ tasks \in Workloads \cup {<<>>} /\ pcpGoroutine = nil
      BY DEF Pcs
    <2>2. flags \in [policy: PolicyNames \cup {"first-fit"}, waar: BOOLEAN, cmw: BOOLEAN,
                    switch: SwitchFlag, cap: PowerCaps \cup {"none"}, hi: Int, lo: Int]
      BY <1>4
    <2>3. sched \in Sched
      BY DEF Sched
    <2> QED  BY <1>2, <2>1, <2>2, <2>3 DEF TypeOK
  <1>6. PCPLast /\ CheckedSoFar
    BY DEF PCPLast, CheckedSoFar, FromTasks, FromOptions, FromLogger
  <1>7. Required
    BY <1>3 DEF Required, FromSwitching, FromPowercap, FromTasks, FromOptions, FromLogger
  <1>8. Optional
    BY <1>3 DEF Optional
  <1> QED  BY <1>5, <1>6, <1>7, <1>8 DEF IInv

LEMMA ListPoliciesInv == ASSUME IInv, NEW list \in BOOLEAN, ListPolicies(list) PROVE IInv'
  <1> USE DEF ListPolicies, Continue, IInv
  <1>1. \A o : Pending(o)' <=> Pending(o)
    BY DEF Pending
  <1>2. TypeOK'
    BY DEF TypeOK, Pcs
  <1>3. PCPLast' /\ CheckedSoFar'
    BY DEF PCPLast, CheckedSoFar, FromTasks, FromOptions, FromLogger
  <1>4. Required' /\ Optional'
    BY <1>1 DEF Required, Optional, FromSwitching, FromPowercap, FromTasks,
                FromOptions, FromLogger
  <1> QED  BY <1>2, <1>3, <1>4

LEMMA CheckPolicyInv == ASSUME IInv, NEW name \in PolicyNames, CheckPolicy(name) PROVE IInv'
  <1> USE DEF CheckPolicy, Continue, IInv
  <1> DEFINE new == <<"Shutdown", "Done", "SchedPolicy">>
  <1>1. /\ options' \in Seq(Options)
        /\ \A o : Pending(o)' <=> Pending(o) \/ o \in {"Shutdown", "Done", "SchedPolicy"}
    <2>1. /\ new \in Seq(Options) /\ Len(new) = 3
          /\ new[1] = "Shutdown" /\ new[2] = "Done" /\ new[3] = "SchedPolicy"
      BY DEF Options
    <2>2. \A o : Has(new, o) <=> o \in {"Shutdown", "Done", "SchedPolicy"}
      BY <2>1 DEF Has
    <2>3. options \in Seq(Options) /\ options' = options \o new
      BY DEF TypeOK
    <2> HIDE DEF new
    <2>4. /\ options \o new \in Seq(Options)
          /\ \A o : Has(options \o new, o) <=> Pending(o) \/ Has(new, o)
      BY <2>1, <2>3, ConcatPending, Zenon DEF Pending
    <2> QED  BY <2>2, <2>3, <2>4, Zenon DEF Pending
  <1>2. TypeOK'
    BY <1>1 DEF TypeOK, Pcs
  <1>3. PCPLast' /\ CheckedSoFar'
    BY DEF PCPLast, CheckedSoFar, FromTasks, FromOptions, FromLogger
  <1>4. flags'.waar = flags.waar
    BY DEF TypeOK
  <1>5. Required'
    BY <1>1 DEF Required, FromSwitching, FromPowercap, FromTasks, FromOptions, FromLogger
  <1>6. Optional'
    <2>1. /\ UNCHANGED sched /\ pc = "policy" /\ Optional
          /\ ~(Pending("ClassMapWatts") \/ sched.classMapWatts)
      BY DEF Optional
    <2>2. \A o \in {"NameOfFirstSchedPolToFix", "FixedSchedulingWindow",
                   "SchedPolSwitchEnabled", "ClassMapWatts"} : Pending(o)' <=> Pending(o)
      BY <1>1
    <2> QED  BY <2>1, <2>2 DEF Optional
  <1> QED  BY <1>2, <1>3, <1>5, <1>6

LEMMA SwitchingInv ==
    ASSUME IInv, NoSwitching \/ \E switch \in SwitchFlags : EnableSwitching(switch)
    PROVE  IInv'
  <1> USE DEF NoSwitching, EnableSwitching, Continue, IInv
  <1> DEFINE new == <<"SchedPolSwitchEnabled", "NameOfFirstSchedPolToFix",
                      "FixedSchedulingWindow">>
  <1>1. /\ new \in Seq(Options) /\ Len(new) = 3 /\ new[1] = "SchedPolSwitchEnabled"
        /\ new[2] = "NameOfFirstSchedPolToFix" /\ new[3] = "FixedSchedulingWindow"
    BY DEF Options
  <1>2. \A o : Has(new, o)
              <=> o \in {"SchedPolSwitchEnabled", "NameOfFirstSchedPolToFix",
                         "FixedSchedulingWindow"}
    BY <1>1 DEF Has
  <1>3. \/ options' = options
        \/ /\ options' \in Seq(Options)
           /\ \A o : Pending(o)' <=> \/ Pending(o)
                                    \/ o \in {"SchedPolSwitchEnabled",
                                        "NameOfFirstSchedPolToFix", "FixedSchedulingWindow"}
    <2> HIDE DEF new
    <2>1. options' = options \/ options' = options \o new
      BY DEF new
    <2>2. options \in Seq(Options)
      BY DEF TypeOK
    <2>3. /\ options \o new \in Seq(Options)
          /\ \A o : Has(options \o new, o) <=> Pending(o) \/ Has(new, o)
      BY <1>1, <2>2, ConcatPending, Zenon DEF Pending
    <2> QED  BY <1>2, <2>1, <2>3, Zenon DEF Pending
  <1>4. options' = options => \A o : Pending(o)' <=> Pending(o)
    BY DEF Pending
  <1>5. TypeOK' /\ flags'.waar = flags.waar
    <2>1. flags' = flags \/ \E switch \in SwitchFlag : flags' = [flags EXCEPT !.switch = switch]
      BY StartupAssumption
    <2> HIDE DEF NoSwitching, EnableSwitching
    <2>2. /\ pc' \in {"watts", "exited"}
          /\ UNCHANGED <<sched, tasks, taskResourceRequirement, pcpGoroutine>>
      BY DEF NoSwitching, EnableSwitching
    <2> QED  BY <1>3, <2>1, <2>2 DEF TypeOK, Pcs
  <1>6. PCPLast' /\ CheckedSoFar'
    BY DEF PCPLast, CheckedSoFar, FromTasks, FromOptions, FromLogger
  <1>7. Required' /\ Optional'
    BY <1>3, <1>4, <1>5 DEF Required, Optional, FromSwitching, FromPowercap, FromTasks,
                FromOptions, FromLogger
  <1> QED  BY <1>5, <1>6, <1>7

LEMMA WattsOptionsPending ==
    /\ WattsOptions(TRUE) \in Seq(Options)
    /\ \A o : Has(WattsOptions(TRUE), o) <=> o \in {"WattsAsAResource", "ClassMapWatts"}
    /\ WattsOptions(FALSE) = <<>> /\ WattsOptions(FALSE) \in Seq(Options)
    /\ \A o : ~Has(WattsOptions(FALSE), o)
  <1>1. WattsOptions(TRUE) = <<"WattsAsAResource", "ClassMapWatts">>
    BY DEF WattsOptions
  <1>2. WattsOptions(FALSE) = <<>>
    BY DEF WattsOptions
  <1>3. \A s : s = <<"WattsAsAResource", "ClassMapWatts">> =>
          /\ s \in Seq(Options) /\ Len(s) = 2
          /\ s[1] = "WattsAsAResource" /\ s[2] = "ClassMapWatts"
    BY DEF Options
  <1>4. /\ WattsOptions(TRUE) \in Seq(Options)
        /\ \A o : Has(WattsOptions(TRUE), o) <=> o \in {"WattsAsAResource", "ClassMapWatts"}
    <2> DEFINE s == WattsOptions(TRUE)
    <2>1. /\ s \in Seq(Options) /\ Len(s) = 2
          /\ s[1] = "WattsAsAResource" /\ s[2] = "ClassMapWatts"
      BY <1>1, <1>3, Zenon
    <2> HIDE DEF s
    <2>2. \A o : Has(s, o) <=> o \in {"WattsAsAResource", "ClassMapWatts"}
      BY <2>1 DEF Has
    <2> QED  BY <2>1, <2>2, Zenon DEF s
  <1>5. \A s : s = <<>> => s \in Seq(Options) /\ \A o : ~Has(s, o)
    BY DEF Has
  <1> QED  BY <1>2, <1>4, <1>5

LEMMA WattsInv == ASSUME IInv, NEW waar \in BOOLEAN, NEW cmw \in BOOLEAN, Watts(waar, cmw)
                  PROVE  IInv'
  <1> USE DEF IInv
  <1> DEFINE last == <<"RecordPCP", "PCPLog">>
             first == options \o WattsOptions(waar)
  <1>1. /\ pc = "watts" /\ pc' = "powercap"
        /\ flags' = [flags EXCEPT !.waar = waar, !.cmw = cmw]
        /\ options' = first \o last
        /\ UNCHANGED <<sched, tasks, taskResourceRequirement, pcpGoroutine>>
    BY DEF Watts
  <1>2. /\ last \in Seq(Options)
        /\ \A o : Has(last, o) <=> o \in {"RecordPCP", "PCPLog"}
    <2>1. last \in Seq(Options) /\ Len(last) = 2 /\ last[1] = "RecordPCP" /\ last[2] = "PCPLog"
      BY DEF Options
    <2> QED  BY <2>1 DEF Has
  <1>3. /\ first \in Seq(Options)
        /\ \A o : Has(first, o) <=> Pending(o) \/ Has(WattsOptions(waar), o)
    <2>1. options \in Seq(Options)
      BY DEF TypeOK
    <2>2. waar = TRUE \/ waar = FALSE
      OBVIOUS
    <2>3. WattsOptions(waar) \in Seq(Options)
      BY <2>2, WattsOptionsPending, Zenon
    <2> QED  BY <2>1, <2>3, ConcatPending, Zenon DEF Pending
  <1> HIDE DEF last, first
  <1>4. /\ options' \in Seq(Options)
        /\ \A o : Pending(o)' <=> Has(first, o) \/ Has(last, o)
    <2>1. /\ first \o last \in Seq(Options)
          /\ \A o : Has(first \o last, o) <=> Has(first, o) \/ Has(last, o)
      BY <1>2, <1>3, ConcatPending, Zenon
    <2> QED  BY <1>1, <2>1, Zenon DEF Pending
  <1>5. flags'.waar = waar /\ TypeOK'
    <2> DEFINE Flags == [policy: PolicyNames \cup {"first-fit"}, waar: BOOLEAN, cmw: BOOLEAN,
                         switch: SwitchFlag, cap: PowerCaps \cup {"none"}, hi: Int, lo: Int]
    <2>1. ASSUME NEW f \in Flags, NEW v \in BOOLEAN, NEW c \in BOOLEAN
          PROVE  LET g == [f EXCEPT !.waar = v, !.cmw = c] IN g \in Flags /\ g.waar = v
      BY Zenon
    <2>2. flags' \in Flags /\ flags'.waar = waar
      BY <1>1, <2>1, Zenon DEF TypeOK
    <2> HIDE DEF Flags
    <2>3. pc' \in Pcs
      BY <1>1 DEF Pcs
    <2> QED  BY <1>1, <1>4, <2>2, <2>3, Zenon DEF TypeOK, Flags
  <1>6. PCPLast' /\ CheckedSoFar'
    BY <1>1 DEF PCPLast, CheckedSoFar, FromTasks, FromOptions, FromLogger
  <1>7. Required'
    <2>1. /\ \A o : Pending(o) => Pending(o)'
          /\ Pending("RecordPCP")' /\ Pending("PCPLog")'
      BY <1>2, <1>3, <1>4, Zenon
    <2> QED  BY <1>1, <2>1 DEF Required, FromSwitching, FromPowercap, FromTasks,
                               FromOptions, FromLogger
  <1>8. Optional'
    <2>1. CASE waar = TRUE
      <3>1. \A o : Pending(o)' <=> \/ Pending(o) \/ o \in {"RecordPCP", "PCPLog"}
                                    \/ o \in {"WattsAsAResource", "ClassMapWatts"}
        BY <1>2, <1>3, <1>4, <2>1, WattsOptionsPending, Zenon
      <3> QED  BY <1>1, <1>5, <2>1, <3>1 DEF Optional
    <2>2. CASE waar = FALSE
      <3>1. \A o : Pending(o)' <=> Pending(o) \/ o \in {"RecordPCP", "PCPLog"}
        BY <1>2, <1>3, <1>4, <2>2, WattsOptionsPending, Zenon
      <3> QED  BY <1>1, <1>5, <2>2, <3>1 DEF Optional
    <2> QED  BY <2>1, <2>2
  <1> QED  BY <1>5, <1>6, <1>7, <1>8

LEMMA PowerCapInv ==
    ASSUME IInv, NEW cap \in PowerCaps, NEW hi \in Thresholds, NEW lo \in Thresholds,
           PowerCap(cap, hi, lo)
    PROVE  IInv'
  <1> USE DEF PowerCap, Continue, IInv
  <1>1. \A o : Pending(o)' <=> Pending(o)
    BY DEF Pending
  <1>2. /\ TypeOK' /\ flags'.waar = flags.waar
        /\ flags'.cap = cap /\ flags'.hi = hi /\ flags'.lo = lo
    BY StartupAssumption DEF TypeOK, Pcs
  <1>3. PCPLast' /\ CheckedSoFar'
    BY <1>2 DEF PCPLast, CheckedSoFar, FromTasks, FromOptions, FromLogger, ThresholdsOK
  <1>4. Required' /\ Optional'
    BY <1>1, <1>2 DEF Required, Optional, FromSwitching, FromPowercap, FromTasks,
                FromOptions, FromLogger
  <1> QED  BY <1>2, <1>3, <1>4

LEMMA TasksInv == ASSUME IInv, NoTasks \/ \E w \in Workloads : ReadTasks(w) PROVE IInv'
  <1> USE DEF NoTasks, ReadTasks, Continue, IInv
  <1>1. /\ options' \in Seq(Options)
        /\ \/ \A o : Pending(o)' <=> Pending(o)
           \/ \A o : Pending(o)' <=> Pending(o) \/ o = "Tasks"
    <2>1. options \in Seq(Options) /\ "Tasks" \in Options
      BY DEF TypeOK, Options
    <2>2. options' = options \/ options' = Append(options, "Tasks")
      OBVIOUS
    <2>3. /\ Append(options, "Tasks") \in Seq(Options)
          /\ \A o : Has(Append(options, "Tasks"), o) <=> Pending(o) \/ o = "Tasks"
      BY <2>1, AppendPending, Zenon DEF Pending
    <2> QED  BY <2>1, <2>2, <2>3, Zenon DEF Pending
  <1>2. pc = "tasks" /\ pc' \in {"exited", "panicked", "options"}
        /\ UNCHANGED <<flags, sched, pcpGoroutine>>
    OBVIOUS
  <1>3. TypeOK'
    <2>1. tasks' \in Workloads \cup {<<>>}
      BY DEF TypeOK
    <2> HIDE DEF NoTasks, ReadTasks
    <2> QED  BY <1>1, <1>2, <2>1 DEF TypeOK, Pcs
  <1>4. pc' = "options" => ValidTasks(tasks') /\ Pending("Tasks")'
    <2> SUFFICES ASSUME pc' = "options" PROVE ValidTasks(tasks') /\ Pending("Tasks")'
      OBVIOUS
    <2>1. /\ Validate(tasks') /\ tasks' # <<>> /\ options' = Append(options, "Tasks")
          /\ ~\E k \in DOMAIN tasks' : tasks'[k].Instances = nil
      OBVIOUS
    <2>2. options \in Seq(Options) /\ "Tasks" \in Options
      BY DEF TypeOK, Options
    <2>3. Pending("Tasks")'
      BY <2>1, <2>2, AppendPending, Zenon DEF Pending
    <2> QED  BY <2>1, <2>3, Zenon DEF ValidTasks, Validate
  <1> HIDE DEF NoTasks, ReadTasks
  <1>5. PCPLast' /\ CheckedSoFar'
    BY <1>2, <1>4 DEF PCPLast, CheckedSoFar, FromTasks, FromOptions, FromLogger
  <1>6. Required'
    BY <1>1, <1>2, <1>4 DEF Required, FromSwitching, FromPowercap, FromTasks, FromOptions,
                            FromLogger
  <1>7. Optional'
    BY <1>1, <1>2 DEF Optional
  <1> QED  BY <1>3, <1>5, <1>6, <1>7

(* What one option changes of the scheduler, c being the scheduler after   *)
(* option h.                                                               *)
Effect(h, c) ==
    /\ c \in Sched
    /\ c.curSchedPolicy # nil \/ (h # "SchedPolicy" /\ c.curSchedPolicy = sched.curSchedPolicy)
    /\ sched.channels \subseteq c.channels
    /\ h \in Channels => h \in c.channels
    /\ c.tasks = tasks \/ (h # "Tasks" /\ c.tasks = sched.tasks)
    /\ \/ c.schedPolSwitchEnabled = TRUE /\ c.schedPolSwitchCriteria # nil
       \/ /\ h # "SchedPolSwitchEnabled"
          /\ c.schedPolSwitchEnabled = sched.schedPolSwitchEnabled
          /\ c.schedPolSwitchCriteria = sched.schedPolSwitchCriteria
    /\ \/ h = "NameOfFirstSchedPolToFix"
       \/ c.nameOfFstSchedPolToDeploy = sched.nameOfFstSchedPolToDeploy
    /\ \/ h = "FixedSchedulingWindow" /\ c.schedWindowSize > 0
       \/ /\ c.toFixSchedWindow = sched.toFixSchedWindow
          /\ c.schedWindowSize = sched.schedWindowSize
    /\ \/ h = "WattsAsAResource" /\ c.wattsAsAResource = flags.waar
       \/ h # "WattsAsAResource" /\ c.wattsAsAResource = sched.wattsAsAResource
    /\ h = "ClassMapWatts" \/ c.classMapWatts = sched.classMapWatts

LEMMA OptionEffect ==
    ASSUME TypeOK, NEW h \in Options, ~OptionFails(h)
    PROVE  Effect(h, Configured(h))
  <1> DEFINE c == Configured(h)
  <1>0. /\ sched \in Sched /\ flags.waar \in BOOLEAN /\ flags.cmw \in BOOLEAN
        /\ tasks \in Workloads \cup {<<>>} /\ flags.switch.size \in Int
        /\ flags.switch.fix \in BOOLEAN
    BY DEF TypeOK, SwitchFlag
  <1> USE <1>0, StartupAssumption DEF Sched, Effect
  <1>1. CASE h = "SchedPolicy"
    <2>1. c = [sched EXCEPT !.curSchedPolicy = flags.policy] /\ flags.policy \in SchedPolicies
      BY <1>1 DEF Configured, OptionFails
    <2> HIDE DEF c
    <2>2. Effect(h, c)
      BY <1>1, <2>1 DEF Channels
    <2> QED  BY <2>2 DEF c
  <1>2. CASE h = "SchedPolSwitchEnabled"
    <2>1. /\ c = [sched EXCEPT !.schedPolSwitchEnabled = TRUE,
                               !.schedPolSwitchCriteria = flags.switch.criteria]
          /\ flags.switch.criteria \in Criteria
      BY <1>2 DEF Configured, OptionFails
    <2> HIDE DEF c
    <2>2. Effect(h, c)
      BY <1>2, <2>1 DEF Channels
    <2> QED  BY <2>2 DEF c
  <1>3. CASE h = "NameOfFirstSchedPolToFix"
    <2>1. /\ c = [sched EXCEPT !.nameOfFstSchedPolToDeploy = flags.switch.first]
          /\ flags.switch.first \in SchedPolicies \cup {nil}
      BY <1>3 DEF Configured, OptionFails
    <2> HIDE DEF c
    <2>2. Effect(h, c)
      BY <1>3, <2>1 DEF Channels
    <2> QED  BY <2>2 DEF c
  <1>4. CASE h = "FixedSchedulingWindow"
    <2>1. \/ c = sched
          \/ /\ c = [sched EXCEPT !.toFixSchedWindow = TRUE,
                                  !.schedWindowSize = flags.switch.size]
             /\ flags.switch.size \in Nat /\ flags.switch.size > 0
      BY <1>4 DEF Configured, OptionFails
    <2> HIDE DEF c
    <2>2. Effect(h, c)
      BY <1>4, <2>1 DEF Channels
    <2> QED  BY <2>2 DEF c
  <1>5. CASE h = "WattsAsAResource"
    <2>1. c = [sched EXCEPT !.wattsAsAResource = flags.waar]
      BY <1>5 DEF Configured
    <2> HIDE DEF c
    <2>2. Effect(h, c)
      BY <1>5, <2>1 DEF Channels
    <2> QED  BY <2>2 DEF c
  <1>6. CASE h = "ClassMapWatts"
    <2>1. c = [sched EXCEPT !.classMapWatts = flags.cmw]
      BY <1>6 DEF Configured
    <2> HIDE DEF c
    <2>2. Effect(h, c)
      BY <1>6, <2>1 DEF Channels
    <2> QED  BY <2>2 DEF c
  <1>7. CASE h = "Tasks"
    <2>1. c = [sched EXCEPT !.tasks = tasks]
      BY <1>7 DEF Configured
    <2> HIDE DEF c
    <2>2. Effect(h, c)
      BY <1>7, <2>1 DEF Channels
    <2> QED  BY <2>2 DEF c
  <1>8. CASE h \in Channels
    <2>1. c = [sched EXCEPT !.channels = sched.channels \cup {h}]
      BY <1>8 DEF Configured, Channels
    <2> HIDE DEF c
    <2>2. Effect(h, c)
      BY <1>8, <2>1 DEF Channels
    <2> QED  BY <2>2 DEF c
  <1> QED  BY <1>1, <1>2, <1>3, <1>4, <1>5, <1>6, <1>7, <1>8 DEF Options, Channels

LEMMA ApplyOptionInv == ASSUME IInv, ApplyOption PROVE IInv'
  <1> USE DEF IInv
  <1> DEFINE h == Head(options)
  <1>1. /\ pc = "options" /\ options # <<>> /\ options \in Seq(Options)
        /\ UNCHANGED <<flags, tasks, taskResourceRequirement, pcpGoroutine>>
    BY DEF ApplyOption, TypeOK
  <1>2. CASE OptionFails(h)
    <2>1. pc' = "exited" /\ UNCHANGED <<options, sched>>
      BY <1>2 DEF ApplyOption
    <2>2. \A o : Pending(o)' <=> Pending(o)
      BY <2>1 DEF Pending
    <2>3. TypeOK'
      BY <1>1, <2>1 DEF TypeOK, Pcs
    <2>4. PCPLast' /\ CheckedSoFar' /\ Required'
      BY <1>1, <2>1 DEF PCPLast, CheckedSoFar, Required, FromSwitching, FromPowercap,
                        FromTasks, FromOptions, FromLogger
    <2>5. Optional'
      BY <1>1, <2>1, <2>2 DEF Optional
    <2> QED  BY <2>3, <2>4, <2>5
  <1>3. CASE ~OptionFails(h)
    <2>1. pc' = "options" /\ sched' = Configured(h) /\ options' = Tail(options)
      BY <1>1, <1>3 DEF ApplyOption
    <2>2. /\ options' \in Seq(Options) /\ h \in Options /\ Pending(h)
          /\ \A o : Pending(o) => Pending(o)' \/ o = h
          /\ \A o : Pending(o)' => Pending(o)
      BY <1>1, <2>1, TailPending, Zenon DEF Pending
    <2> HIDE DEF h
    <2>3. Effect(h, sched')
      BY <1>3, <2>1, <2>2, OptionEffect, Zenon
    <2>4. PCPLast' /\ CheckedSoFar'
      BY <1>1, <2>1 DEF PCPLast, CheckedSoFar, FromTasks, FromOptions, FromLogger
    <2>5. TypeOK'
      <3>1. pc' \in Pcs
        BY <2>1 DEF Pcs
      <3> QED  BY <1>1, <2>2, <2>3, <3>1, Zenon DEF TypeOK, Effect
    <2>6. Required'
      BY <1>1, <2>1, <2>2, <2>3 DEF Effect, Required, Channels, FromSwitching, FromPowercap,
                                    FromTasks, FromOptions, FromLogger
    <2>7. Optional'
      BY <1>1, <2>1, <2>2, <2>3 DEF Effect, Optional, Sched, TypeOK
    <2> QED  BY <2>4, <2>5, <2>6, <2>7
  <1> QED  BY <1>2, <1>3

LEMMA LastStepsInv ==
    ASSUME IInv,
           \/ \E created, prefixOK \in BOOLEAN : CreateDriver(created, prefixOK)
           \/ \E configRead, enabled \in BOOLEAN :
                \E dir \in {"exists", "created", "uncreatable"} :
                  BuildLogger(configRead, dir, enabled)
           \/ StartPCP
           \/ UNCHANGED vars
    PROVE  IInv'
  <1> USE DEF IInv
  <1>1. /\ \/ pc = "options" /\ options = <<>> /\ pc' \in {"exited", "logger"}
           \/ pc = "logger" /\ pc' \in {"exited", "pcp"}
           \/ pc = "pcp" /\ pc' = "running"
           \/ pc' = pc
        /\ \/ pc = "pcp" /\ pc' = "running"
              /\ pcpGoroutine' = [cap |-> flags.cap, hi |-> flags.hi, lo |-> flags.lo]
           \/ (pc = "pcp" => pc' = pc) /\ pcpGoroutine' = pcpGoroutine
        /\ UNCHANGED <<flags, options, sched, tasks, taskResourceRequirement>>
    BY DEF CreateDriver, BuildLogger, StartPCP, Continue, vars
  <1>2. \A o : Pending(o)' <=> Pending(o)
    BY <1>1 DEF Pending
  <1>3. TypeOK'
    BY <1>1 DEF TypeOK, Pcs
  <1>4. PCPLast' /\ CheckedSoFar'
    BY <1>1 DEF PCPLast, CheckedSoFar, FromTasks, FromOptions, FromLogger
  <1>5. Required'
    BY <1>1, <1>2 DEF Required, FromSwitching, FromPowercap, FromTasks, FromOptions, FromLogger
  <1>6. Optional'
    BY <1>1, <1>2 DEF Optional
  <1> QED  BY <1>3, <1>4, <1>5, <1>6

THEOREM StartupInv == Spec => []IInv
  <1>1. Init => IInv
    BY InitInv
  <1>2. IInv /\ [Next]_vars => IInv'
    <2> SUFFICES ASSUME IInv, [Next]_vars PROVE IInv'
      OBVIOUS
    <2>1. ASSUME NEW list \in BOOLEAN, ListPolicies(list) PROVE IInv'
      BY <2>1, ListPoliciesInv
    <2>2. ASSUME NEW name \in PolicyNames, CheckPolicy(name) PROVE IInv'
      BY <2>2, CheckPolicyInv
    <2>3. CASE NoSwitching \/ \E switch \in SwitchFlags : EnableSwitching(switch)
      BY <2>3, SwitchingInv
    <2>4. ASSUME NEW waar \in BOOLEAN, NEW cmw \in BOOLEAN, Watts(waar, cmw) PROVE IInv'
      BY <2>4, WattsInv
    <2>5. ASSUME NEW cap \in PowerCaps, NEW hi \in Thresholds, NEW lo \in Thresholds,
                 PowerCap(cap, hi, lo)
          PROVE  IInv'
      BY <2>5, PowerCapInv
    <2>6. CASE NoTasks \/ \E w \in Workloads : ReadTasks(w)
      BY <2>6, TasksInv
    <2>7. CASE ApplyOption
      BY <2>7, ApplyOptionInv
    <2>8. CASE \/ \E created, prefixOK \in BOOLEAN : CreateDriver(created, prefixOK)
               \/ \E configRead, enabled \in BOOLEAN :
                    \E dir \in {"exists", "created", "uncreatable"} :
                      BuildLogger(configRead, dir, enabled)
               \/ StartPCP
               \/ UNCHANGED vars
      BY <2>8, LastStepsInv
    <2> QED  BY <2>1, <2>2, <2>3, <2>4, <2>5, <2>6, <2>7, <2>8, Zenon DEF Next
  <1> QED  BY <1>1, <1>2, PTL DEF Spec

(* The scheduler's fields only ever hold what the options may set.         *)
THEOREM StartupTypes == Spec => []TypeOK
  BY StartupInv, PTL DEF IInv

(* The PCP goroutine runs only after every check of main, SchedFactory and *)
(* the validators has passed, with the values they passed.                 *)
THEOREM StartsOnlyIfValid == Spec => []StartedOnlyIfValid
  <1>1. IInv => StartedOnlyIfValid
    <2> SUFFICES ASSUME IInv, pcpGoroutine # nil PROVE StartedOnlyIfValid
      BY DEF StartedOnlyIfValid
    <2>0. /\ pc = "running" /\ pcpGoroutine.cap = flags.cap
          /\ pcpGoroutine.hi = flags.hi /\ pcpGoroutine.lo = flags.lo
      <3>1. pc = "running"
        BY DEF IInv, PCPLast
      <3>2. pcpGoroutine = [cap |-> flags.cap, hi |-> flags.hi, lo |-> flags.lo]
        BY <3>1, Zenon DEF IInv, PCPLast
      <3> QED  BY <3>1, <3>2
    <2>1. /\ pc = "running" /\ options = <<>> /\ ValidTasks(tasks)
          /\ pcpGoroutine.cap # "none" => pcpGoroutine.hi >= pcpGoroutine.lo
      <3>1. pc \in FromTasks /\ pc \in FromOptions /\ pc \in FromLogger
        BY <2>0 DEF FromTasks, FromOptions, FromLogger
      <3>2. options = <<>> /\ ValidTasks(tasks)
        BY <3>1, Zenon DEF IInv, CheckedSoFar
      <3>3. flags.cap # "none" => flags.hi >= flags.lo
        BY <3>1, Zenon DEF IInv, CheckedSoFar
      <3>4. flags.hi \in Int /\ flags.lo \in Int
        BY DEF IInv, TypeOK
      <3> QED  BY <2>0, <3>2, <3>3, <3>4
    <2>2. \A o : ~Pending(o)
      BY <2>1 DEF Pending, Has
    <2>3. /\ sched.curSchedPolicy # nil /\ sched.tasks = tasks
          /\ Channels \subseteq sched.channels
      BY <2>1, <2>2 DEF IInv, Required, Channels, FromSwitching, FromPowercap, FromTasks,
                        FromOptions, FromLogger
    <2>4. /\ sched.curSchedPolicy \in SchedPolicies
          /\ sched.schedPolSwitchEnabled => sched.schedPolSwitchCriteria \in Criteria
          /\ sched.nameOfFstSchedPolToDeploy \in SchedPolicies \cup {nil}
          /\ sched.toFixSchedWindow => sched.schedWindowSize > 0
          /\ sched.channels = Channels
      BY <2>3 DEF IInv, TypeOK, Sched, Optional
    <2>5. /\ sched.tasks # <<>>
          /\ \A k \in DOMAIN sched.tasks :
               TaskOK(sched.tasks[k]) /\ sched.tasks[k].Instances # nil
      BY <2>1, <2>3, Zenon DEF ValidTasks
    <2> QED  BY <2>1, <2>4, <2>5, Zenon DEF StartedOnlyIfValid
  <1> QED  BY <1>1, StartupInv, PTL

(* In the running scheduler class-to-watts comes with watts as a resource, *)
(* and a first policy or a fixed window with switching.                    *)
THEOREM OptionsAgree == Spec => []OptionsConsistent
  <1>1. IInv => OptionsConsistent
    <2> SUFFICES ASSUME IInv, pc = "running" PROVE OptionsConsistent
      BY DEF OptionsConsistent
    <2>1. options = <<>>
      BY DEF IInv, CheckedSoFar, FromLogger
    <2>2. \A o : ~Pending(o)
      BY <2>1 DEF Pending, Has
    <2> QED  BY <2>2 DEF IInv, Optional, OptionsConsistent
  <1> QED  BY <1>1, StartupInv, PTL

(* The table is made once, from the workload the scheduler is given.       *)
TableMade ==
    pc \in FromOptions => taskResourceRequirement = initTaskResourceRequirements(tasks)

LEMMA TableIsMade == Spec => []TableMade
  <1>1. Init => TableMade
    BY DEF Init, TableMade, FromOptions, FromLogger
  <1>2. TableMade /\ [Next]_vars => TableMade'
    <2> SUFFICES ASSUME TableMade, [Next]_vars PROVE TableMade'
      OBVIOUS
    <2>1. CASE UNCHANGED <<tasks, taskResourceRequirement>> /\ pc \in FromOptions
      BY <2>1 DEF TableMade
    <2>2. CASE pc' \notin FromOptions
      BY <2>2 DEF TableMade
    <2>3. ASSUME NEW w \in Workloads, ReadTasks(w) PROVE TableMade'
      <3>1. \/ pc' \in {"exited", "panicked"}
            \/ /\ tasks' = w
               /\ taskResourceRequirement' = initTaskResourceRequirements(w)
        BY <2>3 DEF ReadTasks, Continue
      <3> QED  BY <2>2, <3>1 DEF TableMade, FromOptions, FromLogger
    <2>4. \/ UNCHANGED <<tasks, taskResourceRequirement>> /\ pc \in FromOptions
          \/ pc' \notin FromOptions
          \/ \E w \in Workloads : ReadTasks(w)
          \/ UNCHANGED vars
      BY DEF Next, ListPolicies, CheckPolicy, EnableSwitching, NoSwitching, Watts, PowerCap,
             NoTasks, ApplyOption, CreateDriver, BuildLogger, StartPCP, Continue,
             FromOptions, FromLogger
    <2>5. CASE UNCHANGED vars
      BY <2>5 DEF vars, TableMade
    <2> QED  BY <2>1, <2>2, <2>3, <2>4, <2>5
  <1> QED  BY <1>1, <1>2, PTL DEF Spec

(* Where no name is used twice, an instance's entry is its own task's.     *)
LEMMA EntryOfInstance ==
    ASSUME NEW w, NEW k \in DOMAIN w, NEW n \in RecordedInstances(w[k]),
           \A i, j \in DOMAIN w : w[i].Name = w[j].Name => i = j,
           DOMAIN w \subseteq Int
    PROVE  /\ <<w[k].Name, n>> \in DOMAIN initTaskResourceRequirements(w)
           /\ initTaskResourceRequirements(w)[<<w[k].Name, n>>] =
                [CPU |-> w[k].CPU, Ram |-> w[k].RAM, Watts |-> w[k].Watts]
  <1> DEFINE id == <<w[k].Name, n>>
             ids == UNION {{<<w[j].Name, m>> : m \in RecordedInstances(w[j])} :
                             j \in DOMAIN w}
             Last(d, l) == /\ w[l].Name = d[1] /\ d[2] \in RecordedInstances(w[l])
                           /\ \A j \in DOMAIN w :
                                w[j].Name = d[1] /\ d[2] \in RecordedInstances(w[j])
                                  => j <= l
             last(d) == CHOOSE l \in DOMAIN w : Last(d, l)
  <1>1. id \in ids
    OBVIOUS
  <1>2. id[1] = w[k].Name /\ id[2] = n
    OBVIOUS
  <1>3. Last(id, k)
    <2> SUFFICES ASSUME NEW j \in DOMAIN w, w[j].Name = id[1] PROVE j <= k
      BY <1>2, Zenon
    <2>1. j = k /\ k \in Int
      BY <1>2, Zenon
    <2> QED  BY <2>1
  <1>4. \A l \in DOMAIN w : Last(id, l) => l = k
    BY <1>2, Zenon
  <1> HIDE DEF Last
  <1>5. last(id) = k
    BY <1>3, <1>4, Zenon
  <1>6. initTaskResourceRequirements(w) =
          [d \in ids |-> [CPU |-> w[last(d)].CPU, Ram |-> w[last(d)].RAM,
                          Watts |-> w[last(d)].Watts]]
    BY Zenon DEF initTaskResourceRequirements, Last
  <1> HIDE DEF last, id, ids
  <1>7. /\ id \in DOMAIN initTaskResourceRequirements(w)
        /\ initTaskResourceRequirements(w)[id] =
             [CPU |-> w[last(id)].CPU, Ram |-> w[last(id)].RAM, Watts |-> w[last(id)].Watts]
    BY <1>1, <1>6, Zenon
  <1> QED  BY <1>5, <1>7, Zenon DEF id

(* An instance that is not recorded for its task has no entry at all.      *)
LEMMA NoEntryOfInstance ==
    ASSUME NEW w, NEW k \in DOMAIN w, NEW n, n \notin RecordedInstances(w[k]),
           \A i, j \in DOMAIN w : w[i].Name = w[j].Name => i = j
    PROVE  <<w[k].Name, n>> \notin DOMAIN initTaskResourceRequirements(w)
  <1> DEFINE ids == UNION {{<<w[j].Name, m>> : m \in RecordedInstances(w[j])} :
                             j \in DOMAIN w}
  <1>1. DOMAIN initTaskResourceRequirements(w) = ids
    BY DEF initTaskResourceRequirements
  <1>2. ASSUME <<w[k].Name, n>> \in ids PROVE FALSE
    <2>1. PICK j \in DOMAIN w : \E m \in RecordedInstances(w[j]) :
                                  <<w[k].Name, n>> = <<w[j].Name, m>>
      BY <1>2
    <2>2. PICK m \in RecordedInstances(w[j]) : <<w[k].Name, n>> = <<w[j].Name, m>>
      BY <2>1
    <2>3. w[k].Name = w[j].Name /\ n = m
      BY <2>2
    <2>4. j = k
      BY <2>3
    <2> QED  BY <2>3, <2>4
  <1> QED  BY <1>1, <1>2

(* Where names are unique, the resource tracker finds the requirements of  *)
(* every instance that is launched, its own task's, but for the one of a   *)
(* task without a positive number of instances, which it never finds.      *)
THEOREM EveryInstanceRecorded == Spec => []RequirementsRecorded
  <1>1. IInv /\ TableMade => RequirementsRecorded
    <2> SUFFICES ASSUME IInv, TableMade, pc = "running",
                        IsInjective([k \in DOMAIN tasks |-> tasks[k].Name]),
                        NEW k \in DOMAIN tasks, NEW n \in LaunchedInstances(tasks[k])
                 PROVE  /\ <<tasks[k].Name, n>> \in DOMAIN taskResourceRequirement
                             <=> tasks[k].Instances > 0
                        /\ <<tasks[k].Name, n>> \in DOMAIN taskResourceRequirement =>
                             taskResourceRequirement[<<tasks[k].Name, n>>] =
                               [CPU |-> tasks[k].CPU, Ram |-> tasks[k].RAM,
                                Watts |-> tasks[k].Watts]
      BY Zenon DEF RequirementsRecorded
    <2>1. \A i, j \in DOMAIN tasks : tasks[i].Name = tasks[j].Name => i = j
      BY Zenon DEF IsInjective
    <2>2. DOMAIN tasks \subseteq Int
      <3>1. tasks \in Seq(TaskDef)
        BY StartupAssumption DEF IInv, TypeOK
      <3> QED  BY <3>1
    <2>3. taskResourceRequirement = initTaskResourceRequirements(tasks)
      BY DEF TableMade, FromOptions, FromLogger
    <2>4. tasks[k].Instances \in Int
      <3>1. tasks \in Seq(TaskDef)
        BY StartupAssumption DEF IInv, TypeOK
      <3>2. tasks[k] \in TaskDef
        BY <3>1
      <3>3. ValidTasks(tasks)
        BY DEF IInv, CheckedSoFar, FromOptions, FromLogger
      <3>4. tasks[k].Instances # nil
        BY <3>3 DEF ValidTasks
      <3>5. tasks[k].Instances \in Int \cup {nil}
        BY <3>2 DEF TaskDef
      <3> QED  BY <3>4, <3>5
    <2>5. n \in RecordedInstances(tasks[k]) <=> tasks[k].Instances > 0
      BY <2>4 DEF RecordedInstances, LaunchedInstances
    <2>6. CASE tasks[k].Instances > 0
      BY <2>1, <2>2, <2>3, <2>5, <2>6, EntryOfInstance, Zenon
    <2>7. CASE ~(tasks[k].Instances > 0)
      BY <2>1, <2>3, <2>5, <2>7, NoEntryOfInstance, Zenon
    <2> QED  BY <2>6, <2>7
  <1> QED  BY <1>1, StartupInv, TableIsMade, PTL
==============================================================================
