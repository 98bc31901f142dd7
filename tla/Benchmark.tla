------------------------------ MODULE Benchmark -----------------------------
(***************************************************************************)
(* The benchmark harness, nexus_bench_run of src/src/benchmark/harness.c   *)
(* with the workload of engine_workload.cpp: it creates a container, joins *)
(* its cgroup, starts it, opens a pool and lets the policy of module       *)
(* Adaptation resize it while the workload runs; then it takes everything  *)
(* down again.  Every call may fail.  The calls of the container runtime   *)
(* are single steps here; module Container has them in detail.             *)
(*                                                                         *)
(* The harness uses the default configuration of the policy; the model     *)
(* runs it with each of Configs, as its other users may.  Iterations that  *)
(* only fetch pages and gather statistics change nothing here.             *)
(***************************************************************************)
EXTENDS Adaptation

VARIABLES pc,       \* where nexus_bench_run is; "idle" between runs
          managed,  \* manage_container of this run
          reg,      \* the container's state in the registry of this process
          child,    \* the container's workload, a child of this process, is alive
          stray,    \* a workload a killed harness started is still alive
          inside,   \* this process is in the container's cgroup
          bound,    \* `bound`
          spoiled   \* the last container could not be taken down: a call failed, or
                    \* a stray workload was in its cgroup

runVars == <<managed, reg, child, stray, inside, bound, spoiled>>
vars    == <<adaptVars, pc, runVars>>

Pcs == {"idle", "create", "stop_old", "delete_old", "recreate", "bind", "start",
        "open", "loop", "unbind", "stop", "delete"}

TypeOK ==
    /\ AdaptTypeOK
    /\ pc \in Pcs
    /\ managed \in BOOLEAN
    /\ reg \in {"none", "CREATED", "RUNNING", "STOPPED", "DELETED"}
    /\ child \in BOOLEAN
    /\ stray \in BOOLEAN
    /\ inside \in BOOLEAN
    /\ bound \in BOOLEAN
    /\ spoiled \in BOOLEAN

Fails(f) == f \in Faults

Init ==
    /\ cfg \in Configs /\ limit \in Limits /\ load \in Loads
    /\ capacity = 0 /\ last = 0 /\ outside = FALSE
    /\ pc = "idle" /\ managed = FALSE
    /\ reg = "none" /\ child = FALSE /\ stray = FALSE
    /\ inside = FALSE /\ bound = FALSE /\ spoiled = FALSE

-----------------------------------------------------------------------------
(* Setting up *)

\* nexus_policy_init is part of it.
Begin ==
    /\ pc = "idle"
    /\ managed' \in BOOLEAN
    /\ pc' = IF managed' THEN "create" ELSE "open"
    /\ bound' = FALSE
    /\ last' = 0
    /\ outside' = FALSE
    /\ UNCHANGED <<envVars, capacity, reg, child, stray, inside, spoiled>>

\* container_create: a name that is in use is an error of its own.
Create ==
    /\ pc \in {"create", "recreate"}
    /\ \/ /\ reg \in {"none", "DELETED"}
          /\ reg' = "CREATED"
          /\ pc' = "bind"
       \/ /\ reg \notin {"none", "DELETED"}
          /\ pc' = IF pc = "create" THEN "stop_old" ELSE "idle"
          /\ UNCHANGED reg
       \/ /\ Fails("create")
          /\ reg \in {"none", "DELETED"}
          /\ pc' = "idle"
          /\ UNCHANGED reg
    /\ UNCHANGED <<adaptVars, managed, child, stray, inside, bound, spoiled>>

\* A process that cannot join runs its workload outside of the limits.
BindSelf ==
    /\ pc = "bind"
    /\ bound' \in {TRUE} \cup (IF Fails("bind") THEN {FALSE} ELSE {})
    /\ inside' = bound'
    /\ pc' = "start"
    /\ UNCHANGED <<adaptVars, managed, reg, child, stray, spoiled>>

Start ==
    /\ pc = "start"
    /\ \/ reg' = "RUNNING" /\ child' = TRUE /\ pc' = "open"
       \/ Fails("start") /\ pc' = "unbind" /\ UNCHANGED <<reg, child>>
    /\ UNCHANGED <<adaptVars, managed, stray, inside, bound, spoiled>>

\* Mutant: a workload that cannot be opened ends the run at once.
OpenGivesUp ==
    /\ pc = "open"
    /\ \/ capacity' \in 1..MaxFrames /\ pc' = "loop"
       \/ Fails("open") /\ UNCHANGED capacity /\ pc' = "idle"
    /\ UNCHANGED <<envVars, last, outside, runVars>>

\* bench_engine_open.
Open ==
    /\ pc = "open"
    /\ \/ /\ capacity' \in 1..MaxFrames
          /\ pc' = "loop"
       \/ /\ Fails("open")
          /\ pc' = IF managed THEN "unbind" ELSE "idle"
          /\ UNCHANGED capacity
    /\ UNCHANGED <<envVars, last, outside, runVars>>

-----------------------------------------------------------------------------
(* The run *)

BenchSample == pc = "loop" /\ Sample /\ UNCHANGED <<pc, runVars>>

Disturbance ==
    /\ pc = "loop"
    /\ LoadChanges \/ OtherResize
    /\ UNCHANGED <<pc, runVars>>

\* The iterations are done: bench_engine_close.
Close ==
    /\ pc = "loop"
    /\ capacity' = 0
    /\ pc' = IF managed THEN "unbind" ELSE "idle"
    /\ UNCHANGED <<envVars, last, outside, runVars>>

-----------------------------------------------------------------------------
(* Taking down: no result is looked at *)

\* Mutant: the process stays where it is.
UnbindForgotten ==
    /\ pc = "unbind"
    /\ pc' = "stop"
    /\ UNCHANGED <<adaptVars, runVars>>

\* The process moves to the parent cgroup.
UnbindSelf ==
    /\ pc = "unbind"
    /\ pc' = "stop"
    /\ \/ inside' = (inside /\ ~bound) /\ UNCHANGED spoiled
       \/ Fails("unbind") /\ bound /\ spoiled' = TRUE /\ UNCHANGED inside
    /\ UNCHANGED <<adaptVars, managed, reg, child, stray, bound>>

\* container_stop, of this run's container or of one an earlier run left.
Stop ==
    /\ pc \in {"stop", "stop_old"}
    /\ pc' = IF pc = "stop" THEN "delete" ELSE "delete_old"
    /\ \/ /\ reg = "RUNNING"
          /\ reg' = "STOPPED"
          /\ child' = FALSE
          /\ UNCHANGED spoiled
       \/ /\ reg = "RUNNING"
          /\ Fails("stop")
          /\ spoiled' = TRUE
          /\ UNCHANGED <<reg, child>>
       \/ reg # "RUNNING" /\ UNCHANGED <<reg, child, spoiled>>
    /\ UNCHANGED <<adaptVars, managed, stray, inside, bound>>

\* container_delete: cgroup_destroy refuses a cgroup with a process in it.
Delete ==
    /\ pc \in {"delete", "delete_old"}
    /\ pc' = IF pc = "delete" THEN "idle" ELSE "recreate"
    /\ \/ /\ reg \in {"CREATED", "STOPPED"}
          /\ ~(inside \/ child \/ stray)
          /\ reg' = "DELETED"
          /\ spoiled' = FALSE
       \/ /\ \/ reg \notin {"CREATED", "STOPPED"}
             \/ inside \/ child \/ stray
          /\ spoiled' = (spoiled \/ stray)
          /\ UNCHANGED reg
       \/ /\ Fails("destroy")
          /\ reg \in {"CREATED", "STOPPED"}
          /\ spoiled' = TRUE
          /\ UNCHANGED reg
    /\ UNCHANGED <<adaptVars, managed, child, stray, inside, bound>>

-----------------------------------------------------------------------------
(* The processes *)

\* A workload ends by itself.
WorkloadEnds ==
    /\ \/ child /\ child' = FALSE /\ UNCHANGED stray
       \/ stray /\ stray' = FALSE /\ UNCHANGED child
    /\ UNCHANGED <<adaptVars, pc, managed, reg, inside, bound, spoiled>>

\* The harness ends between two runs or is killed in one; another process takes
\* its place, with an empty registry.
Restart ==
    /\ pc = "idle" \/ Fails("kill")
    /\ pc' = "idle"
    /\ capacity' = 0 /\ last' = 0 /\ outside' = FALSE
    /\ managed' = FALSE
    /\ reg' = "none"
    /\ child' = FALSE
    /\ stray' = (stray \/ child)
    /\ inside' = FALSE /\ bound' = FALSE
    /\ spoiled' = FALSE
    /\ UNCHANGED envVars

Next ==
    \/ Begin \/ Create \/ BindSelf \/ Start \/ Open
    \/ BenchSample \/ Disturbance \/ Close
    \/ UnbindSelf \/ Stop \/ Delete
    \/ WorkloadEnds \/ Restart

Spec == Init /\ [][Next]_vars

\* While it runs, the harness goes on taking samples.
FairSpec == Spec /\ WF_vars(BenchSample)
-----------------------------------------------------------------------------
\* The policy remembers the capacity its last request gave the pool, or nothing:
\* as long as nobody else resizes the pool, no request is ever suppressed as a
\* duplicate, also after requests that failed and were never applied.
NeverSuppressed == last \notin {0, capacity} => outside \/ pc # "loop"

\* "each step is bounded" (adaptation_policy.h): no request shrinks the pool
\* below the floor, grows it past the ceiling or its share of the limit, or
\* wraps around, whatever the steps configured.  A shrink may well end above
\* max_frames, if somebody else had made the pool that large.
StepsBounded ==
    [][BenchSample =>
         /\ capacity' < capacity => /\ capacity' >= cfg.min
                                    /\ capacity - capacity' <= cfg.down
         /\ capacity' > capacity => /\ capacity' <= Ceiling
                                    /\ capacity' - capacity <= cfg.up]_vars

\* From now on samples are readable, requests succeed and nobody interferes.
Undisturbed ==
    <>[][pc = "loop" /\ (Shrinks \/ Grows) /\ UNCHANGED <<pc, runVars>>]_vars

\* Lasting pressure takes the pool down to its floor.
Relieves ==
    Undisturbed /\ <>[](pc = "loop" /\ ConfigValid /\ cfg.down > 0 /\ High /\ ~outside)
        => <>[](capacity <= cfg.min)

\* Memory that stays free is used up to the pool's share of the limit.
Expands ==
    Undisturbed /\ <>[](pc = "loop" /\ ConfigValid /\ cfg.up > 0 /\ Low /\ ~outside)
        => <>[](capacity >= Ceiling)

\* The policy answers lasting pressure and lasting room, each as far as it may.
Responds == Relieves /\ Expands

\* The dead band is wider than the smaller of the two steps.
WideBand ==
    /\ limit # 0
    /\ 100 * cfg.page * Least(cfg.down, cfg.up) < (cfg.shrink - cfg.grow) * limit

\* The thresholds are a hysteresis: under a steady load the pool's capacity
\* comes to rest, and does not go up and down for ever, provided the dead band
\* is wider than one of the steps.
Settles ==
    <>[]WideBand /\ <>[][BenchSample]_vars => <>[][capacity' = capacity]_vars

\* A run that ends, also by an error at any step of setting up, leaves neither
\* its container nor a workload behind, and the process is back outside of the
\* container's cgroup, unless a call that takes things down failed itself.
LeavesNothing ==
    pc = "idle" /\ ~spoiled =>
        /\ reg \in {"none", "DELETED"}
        /\ ~child
        /\ ~inside
=============================================================================
