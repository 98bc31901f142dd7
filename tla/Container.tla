------------------------------ MODULE Container -----------------------------
(***************************************************************************)
(* The container runtime of src/src/container: the registry and lifecycle  *)
(* of container.c, the gated spawn and the stop of process.c, and the      *)
(* cgroup directories of cgroup.c.  A runtime r is a process that has the  *)
(* library linked in, with a registry slot[r] of its own; its call in      *)
(* progress is job[r].  Workload processes and the kernel run beside it:   *)
(* a child can die between any two steps of the call that starts it, and so*)
(* can the runtime.                                                        *)
(*                                                                         *)
(* A spawned child is "gated" until its runtime sends the release byte,    *)
(* "released" until it execs, "running" as the workload, and a "zombie"    *)
(* until its parent reaps it.  When a runtime ends, the Reaper (process 1) *)
(* inherits its children.                                                  *)
(***************************************************************************)
EXTENDS FiniteSets, Naturals

CONSTANTS Runtimes,  \* processes that use the runtime library
          Names,     \* container names
          Pids,      \* process ids of workloads
          MaxSlots,  \* NEXUS_MAX_CONTAINERS
          Faults,    \* the failures that may happen
          Reaper, NoPid, NoName

ASSUME ContainerAssumption ==
    /\ Reaper \notin Runtimes
    /\ NoPid \notin Pids
    /\ NoName \notin Names
    /\ MaxSlots \in Nat

VARIABLES proc,  \* proc[p]: the process table entry of p
          cg,    \* cg[n]: the cgroup directory of n
          slot,  \* slot[r][n]: the registry record of n in r
          job    \* job[r]: the call r is executing

osVars        == <<proc, cg>>
containerVars == <<proc, cg, slot, job>>

States == {"none", "CREATED", "RUNNING", "STOPPED", "DELETED"}

\* A record; its cgroup path is empty, that of its own directory, or only the
\* beginning of that, which names another container's directory or nobody's.
Record == [state : States, pid : Pids \cup {NoPid}, path : {"none", "own", "cut"}]

\* `member` is the container whose cgroup the process has joined, `report` what
\* the child wrote to its status pipe.
Process == [st     : {"free", "gated", "released", "running", "zombie"},
            parent : Runtimes \cup {Reaper},
            of     : Names \cup {NoName},
            member : Names \cup {NoName},
            report : {"none", "errno"}]

Job == [pc   : {"idle", "limits", "attach", "release", "status", "await",
                "grace", "reap", "destroy", "ok", "error", "write"},
        op   : {"none", "create", "start", "stop", "delete"},
        name : Names \cup {NoName},
        pid  : Pids \cup {NoPid}]

ContainerTypeOK ==
    /\ proc \in [Pids -> Process]
    /\ cg \in [Names -> {"absent", "bare", "limited"}]
    /\ slot \in [Runtimes -> [Names -> Record]]
    /\ job \in [Runtimes -> Job]

NoRecord == [state |-> "none", pid |-> NoPid, path |-> "none"]
FreeProc == [st |-> "free", parent |-> Reaper, of |-> NoName,
             member |-> NoName, report |-> "none"]
NoJob    == [pc |-> "idle", op |-> "none", name |-> NoName, pid |-> NoPid]

ContainerInit ==
    /\ proc = [p \in Pids |-> FreeProc]
    /\ cg = [n \in Names |-> "absent"]
    /\ slot = [r \in Runtimes |-> [n \in Names |-> NoRecord]]
    /\ job = [r \in Runtimes |-> NoJob]

-----------------------------------------------------------------------------
Fault(f) == f \in Faults

\* process_is_alive: a zombie counts as alive.
Alive(p) == proc[p].st # "free"

\* What cgroup.procs of n lists; the kernel drops zombies from it.
Procs(n) == {p \in Pids : /\ proc[p].member = n
                          /\ proc[p].st \notin {"free", "zombie"}}

\* Process p has ended; the Reaper collects its own children at once.
Ended(p, report) ==
    IF proc[p].parent = Reaper
    THEN FreeProc
    ELSE [proc[p] EXCEPT !.st = "zombie", !.report = report]

\* The call op on n reaches the place pc, about process p.
At(r, op, n, pc, p) ==
    job' = [job EXCEPT ![r] = [pc |-> pc, op |-> op, name |-> n, pid |-> p]]

\* The call in progress returns.
Return(r, rc) == At(r, job[r].op, job[r].name, rc, NoPid)

Idle(r) == job[r].pc = "idle"

\* The record of the container this call is about.
Mine(r) == slot[r][job[r].name]

SetMine(r, rec) == slot' = [slot EXCEPT ![r][job[r].name] = rec]

\* Whose directory the path of that record may name; NoName: nobody's.
Named(r) == CASE Mine(r).path = "none" -> {}
              [] Mine(r).path = "own"  -> {job[r].name}
              [] Mine(r).path = "cut"  -> (Names \cup {NoName}) \ {job[r].name}

-----------------------------------------------------------------------------
(* The checks at the head of each call, and their refusal *)

CanCreate(r, n) ==
    \/ slot[r][n].state = "DELETED"
    \/ /\ slot[r][n].state = "none"
       /\ Cardinality({m \in Names : slot[r][m].state # "none"}) < MaxSlots

CanStart(r, n) ==
    /\ slot[r][n].state \in {"CREATED", "STOPPED"}
    /\ slot[r][n].pid # NoPid => ~Alive(slot[r][n].pid)

CanStop(r, n) == slot[r][n].state = "RUNNING"

CanDelete(r, n) == slot[r][n].state \in {"CREATED", "STOPPED"}

Refused(r, op, n) ==
    /\ Idle(r)
    /\ CASE op = "create" -> ~CanCreate(r, n)
         [] op = "start"  -> ~CanStart(r, n)
         [] op = "stop"   -> ~CanStop(r, n)
         [] op = "delete" -> ~CanDelete(r, n)
    /\ At(r, op, n, "error", NoPid)
    /\ UNCHANGED <<osVars, slot>>

-----------------------------------------------------------------------------
(* container_create_ex: the directory, then the limits, then the slot *)

\* An existing directory will do.
CreateCgroup(r, n) ==
    /\ Idle(r)
    /\ CanCreate(r, n)
    /\ cg' = [cg EXCEPT ![n] = IF @ = "absent" THEN "bare" ELSE @]
    /\ At(r, "create", n, "limits", NoPid)
    /\ UNCHANGED <<proc, slot>>

CreateCgroupFails(r, n) ==
    /\ Idle(r)
    /\ CanCreate(r, n)
    /\ Fault("cgroup")
    /\ At(r, "create", n, "error", NoPid)
    /\ UNCHANGED <<osVars, slot>>

SetLimits(r) ==
    /\ job[r].pc = "limits"
    /\ cg[job[r].name] # "absent"
    /\ cg' = [cg EXCEPT ![job[r].name] = "limited"]
    /\ SetMine(r, [state |-> "CREATED", pid |-> NoPid, path |-> "own"])
    /\ Return(r, "ok")
    /\ UNCHANGED proc

\* Mutant: a limit that could not be written is taken for written.
SetLimitsIgnored(r) ==
    /\ job[r].pc = "limits"
    /\ Fault("cgroup")
    /\ SetMine(r, [state |-> "CREATED", pid |-> NoPid, path |-> "own"])
    /\ Return(r, "ok")
    /\ UNCHANGED osVars

\* A limit cannot be written: the directory is removed if that is possible.
SetLimitsFails(r) ==
    /\ job[r].pc = "limits"
    /\ Fault("cgroup") \/ cg[job[r].name] = "absent"
    /\ \E gone \in BOOLEAN :
          /\ gone => Procs(job[r].name) = {}
          /\ cg' = [cg EXCEPT ![job[r].name] = IF gone THEN "absent" ELSE @]
    /\ Return(r, "error")
    /\ UNCHANGED <<proc, slot>>

-----------------------------------------------------------------------------
(* container_start: spawn gated, attach, release, read the status pipe *)

\* The id of a process that is gone may be given to the next one, whatever
\* records still name it.
Spawn(r, n, p) ==
    /\ Idle(r)
    /\ CanStart(r, n)
    /\ ~Alive(p)
    /\ proc' = [proc EXCEPT ![p] = [st |-> "gated", parent |-> r, of |-> n,
                                    member |-> NoName, report |-> "none"]]
    /\ At(r, "start", n, "attach", p)
    /\ UNCHANGED <<cg, slot>>

\* No process can be created.
SpawnFails(r, n) ==
    /\ Idle(r)
    /\ CanStart(r, n)
    /\ Fault("spawn") \/ \A p \in Pids : Alive(p)
    /\ At(r, "start", n, "error", NoPid)
    /\ UNCHANGED <<osVars, slot>>

\* The kernel accepts a pid that has become a zombie, without effect.
Attach(r) ==
    LET p == job[r].pid IN
    /\ job[r].pc = "attach"
    /\ \E d \in Named(r) :
          /\ d \in Names => cg[d] # "absent"
          /\ proc' = [proc EXCEPT ![p].member = IF proc[p].st = "zombie" THEN @ ELSE d]
    /\ At(r, "start", job[r].name, "release", p)
    /\ UNCHANGED <<cg, slot>>

\* Mutant: the workload is released although it could not join its cgroup.
AttachIgnored(r) ==
    /\ job[r].pc = "attach"
    /\ Fault("attach")
    /\ At(r, "start", job[r].name, "release", job[r].pid)
    /\ UNCHANGED <<osVars, slot>>

\* The child is killed and reaped while it is still blocked.
AttachFails(r) ==
    /\ job[r].pc = "attach"
    /\ \/ Fault("attach")
       \/ proc[job[r].pid].st = "zombie"
       \/ Mine(r).path # "own"
       \/ cg[job[r].name] = "absent"
    /\ proc' = [proc EXCEPT ![job[r].pid] = FreeProc]
    /\ SetMine(r, [Mine(r) EXCEPT !.pid = NoPid])
    /\ Return(r, "error")
    /\ UNCHANGED cg

Release(r) ==
    /\ job[r].pc = "release"
    /\ proc[job[r].pid].st = "gated"
    /\ proc' = [proc EXCEPT ![job[r].pid].st = "released"]
    /\ At(r, "start", job[r].name, "status", job[r].pid)
    /\ UNCHANGED <<cg, slot>>

\* Mutant: a child that died before its release is not reaped.
ReleaseUnreaped(r) ==
    /\ job[r].pc = "release"
    /\ proc[job[r].pid].st = "zombie"
    /\ SetMine(r, [Mine(r) EXCEPT !.pid = NoPid])
    /\ Return(r, "error")
    /\ UNCHANGED osVars

\* The child died before its release: the send fails, the child is reaped.
ReleaseFails(r) ==
    /\ job[r].pc = "release"
    /\ proc[job[r].pid].st = "zombie"
    /\ proc' = [proc EXCEPT ![job[r].pid] = FreeProc]
    /\ SetMine(r, [Mine(r) EXCEPT !.pid = NoPid])
    /\ Return(r, "error")
    /\ UNCHANGED cg

\* Mutant: the status pipe is not read.
Unwatched(r) ==
    /\ job[r].pc = "status"
    /\ SetMine(r, [Mine(r) EXCEPT !.state = "RUNNING", !.pid = job[r].pid])
    /\ Return(r, "ok")
    /\ UNCHANGED osVars

\* End of file on the status pipe: the child has execed, or died silently.
Started(r) ==
    /\ job[r].pc = "status"
    /\ proc[job[r].pid].st \in {"running", "zombie"}
    /\ proc[job[r].pid].report = "none"
    /\ SetMine(r, [Mine(r) EXCEPT !.state = "RUNNING", !.pid = job[r].pid])
    /\ Return(r, "ok")
    /\ UNCHANGED osVars

\* The status pipe cannot be read: the runtime waits for its child to end.
StatusUnreadable(r) ==
    /\ job[r].pc = "status"
    /\ Fault("status")
    /\ At(r, "start", job[r].name, "await", job[r].pid)
    /\ UNCHANGED <<osVars, slot>>

\* The child reported an error, or has ended after all: it is reaped.
StartFails(r) ==
    /\ \/ job[r].pc = "status" /\ proc[job[r].pid].report = "errno"
       \/ job[r].pc = "await" /\ proc[job[r].pid].st = "zombie"
    /\ proc' = [proc EXCEPT ![job[r].pid] = FreeProc]
    /\ SetMine(r, [Mine(r) EXCEPT !.pid = NoPid])
    /\ Return(r, "error")
    /\ UNCHANGED cg

-----------------------------------------------------------------------------
(* container_stop and container_delete.  SIGTERM asks the workload to end, *)
(* which it may do at any time, or never.                                  *)

Stop(r, n) ==
    /\ Idle(r)
    /\ CanStop(r, n)
    /\ IF slot[r][n].pid # NoPid
       THEN At(r, "stop", n, "grace", slot[r][n].pid) /\ UNCHANGED slot
       ELSE /\ At(r, "stop", n, "ok", NoPid)
            /\ slot' = [slot EXCEPT ![r][n].state = "STOPPED"]
    /\ UNCHANGED osVars

Delete(r, n) ==
    LET p == slot[r][n].pid IN
    /\ Idle(r)
    /\ CanDelete(r, n)
    /\ IF p # NoPid /\ Alive(p)
       THEN At(r, "delete", n, "grace", p) /\ UNCHANGED slot
       ELSE /\ At(r, "delete", n, "destroy", NoPid)
            /\ slot' = [slot EXCEPT ![r][n].pid = NoPid]
    /\ UNCHANGED osVars

\* Mutant: the record keeps the pid of the process that was stopped.
StoppedKeepsPid(r) ==
    IF job[r].op = "stop"
    THEN /\ SetMine(r, [Mine(r) EXCEPT !.state = "STOPPED"])
         /\ Return(r, "ok")
    ELSE At(r, "delete", job[r].name, "destroy", NoPid) /\ UNCHANGED slot

\* process_stop has returned.
Stopped(r) ==
    IF job[r].op = "stop"
    THEN /\ SetMine(r, [Mine(r) EXCEPT !.state = "STOPPED", !.pid = NoPid])
         /\ Return(r, "ok")
    ELSE /\ SetMine(r, [Mine(r) EXCEPT !.pid = NoPid])
         /\ At(r, "delete", job[r].name, "destroy", NoPid)

\* process_stop has failed: stop gives up, delete carries on.
NotStopped(r) == IF job[r].op = "stop"
                 THEN Return(r, "error") /\ UNCHANGED slot
                 ELSE Stopped(r)

\* SIGTERM may not be sent, as when the pid now belongs to another user.
SignalFails(r) ==
    /\ job[r].pc = "grace"
    /\ Fault("signal")
    /\ proc[job[r].pid].parent # r
    /\ NotStopped(r)
    /\ UNCHANGED osVars

\* waitpid answers ECHILD: the process is not a child of this runtime.
StopForeign(r) ==
    /\ job[r].pc = "grace"
    /\ proc[job[r].pid].parent # r
    /\ Stopped(r)
    /\ UNCHANGED osVars

\* The child ended within the grace period.
ReapInGrace(r) ==
    /\ job[r].pc = "grace"
    /\ proc[job[r].pid].parent = r
    /\ proc[job[r].pid].st = "zombie"
    /\ proc' = [proc EXCEPT ![job[r].pid] = FreeProc]
    /\ Stopped(r)
    /\ UNCHANGED cg

\* Mutant: the stop waits for the workload as long as it takes.
GraceForever(r) ==
    /\ FALSE
    /\ UNCHANGED containerVars

\* The grace period is over: SIGKILL.
GraceOver(r) ==
    /\ job[r].pc = "grace"
    /\ proc[job[r].pid].parent = r
    /\ proc' = [proc EXCEPT ![job[r].pid] = Ended(job[r].pid, @.report)]
    /\ At(r, job[r].op, job[r].name, "reap", job[r].pid)
    /\ UNCHANGED <<cg, slot>>

ReapKilled(r) ==
    /\ job[r].pc = "reap"
    /\ proc[job[r].pid].st = "zombie"
    /\ proc' = [proc EXCEPT ![job[r].pid] = FreeProc]
    /\ Stopped(r)
    /\ UNCHANGED cg

\* A signal interrupts the last wait: the killed child stays a zombie.
ReapInterrupted(r) ==
    /\ job[r].pc = "reap"
    /\ Fault("interrupt")
    /\ NotStopped(r)
    /\ UNCHANGED osVars

\* A directory that is not there counts as removed.
Destroy(r) ==
    /\ job[r].pc = "destroy"
    /\ \E d \in Named(r) :
          /\ d \in Names => Procs(d) = {}
          /\ cg' = [n \in Names |-> IF n = d THEN "absent" ELSE cg[n]]
    /\ SetMine(r, [Mine(r) EXCEPT !.state = "DELETED"])
    /\ Return(r, "ok")
    /\ UNCHANGED proc

\* Mutant: the tombstone is set although the cgroup still has a process.
DestroyIgnored(r) ==
    /\ job[r].pc = "destroy"
    /\ SetMine(r, [Mine(r) EXCEPT !.state = "DELETED"])
    /\ Return(r, "ok")
    /\ UNCHANGED osVars

\* The record has no path, the cgroup has a process or cannot be removed: the
\* state is kept for another try.
DestroyFails(r) ==
    /\ job[r].pc = "destroy"
    /\ \/ Fault("cgroup")
       \/ Named(r) = {}
       \/ \E d \in Named(r) : d \in Names /\ Procs(d) # {}
    /\ Return(r, "error")
    /\ UNCHANGED <<osVars, slot>>

-----------------------------------------------------------------------------
(* The child and the kernel *)

\* Mutant: the child keeps its own copy of the parent's end open.
GateHeldOpen(p) ==
    /\ FALSE
    /\ UNCHANGED containerVars

\* The release channel was closed without a byte.
GateCloses(p) ==
    /\ proc[p].st = "gated"
    /\ proc[p].parent = Reaper
    /\ proc' = [proc EXCEPT ![p] = Ended(p, "none")]
    /\ UNCHANGED <<cg, slot, job>>

Exec(p) ==
    /\ proc[p].st = "released"
    /\ proc' = [proc EXCEPT ![p].st = "running"]
    /\ UNCHANGED <<cg, slot, job>>

\* The child cannot go on: it reports its errno and exits.
Aborts(p, why) ==
    /\ proc[p].st = "released"
    /\ Fault(why)
    /\ proc' = [proc EXCEPT ![p] = Ended(p, "errno")]
    /\ UNCHANGED <<cg, slot, job>>

ExecFails(p) == Aborts(p, "exec")

\* The host name or the mount propagation of its namespaces cannot be set.
NamespaceFails(p) == Aborts(p, "namespace")

\* The workload ends by itself, or a signal from outside kills the process.
Dies(p) ==
    /\ proc[p].st = "running" \/ (Fault("kill") /\ proc[p].st \in {"gated", "released"})
    /\ proc' = [proc EXCEPT ![p] = Ended(p, "none")]
    /\ UNCHANGED <<cg, slot, job>>

\* Runtime r ends: its registry is gone, its children get a new parent.
Exits(r) ==
    /\ proc' = [p \in Pids |->
                  IF proc[p].parent # r THEN proc[p]
                  ELSE IF proc[p].st = "zombie" THEN FreeProc
                  ELSE [proc[p] EXCEPT !.parent = Reaper]]
    /\ slot' = [slot EXCEPT ![r] = [n \in Names |-> NoRecord]]
    /\ job' = [job EXCEPT ![r] = NoJob]
    /\ UNCHANGED cg
=============================================================================
