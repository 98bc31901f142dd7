------------------------------- MODULE Manager ------------------------------
(***************************************************************************)
(* The commands of src/src/manager/manager.cpp over the container runtime. *)
(* Every command is a process of its own: it reads the container's metadata*)
(* file, adopts the record into its empty registry, makes one call of the  *)
(* runtime and writes the file again, first truncating it.  Database       *)
(* commands read the file and open the database unless it says RUNNING.    *)
(* "tool" callers (examples, benchmark) use the runtime directly, with     *)
(* any number of calls and no metadata.                                    *)
(***************************************************************************)
EXTENDS Container

CONSTANT Callers  \* the kinds of callers: a subset of {"cli", "db", "tool"}

VARIABLES saved,  \* saved[n]: the metadata file of n, NoRecord when absent
          kind,   \* kind[r]: what process r is, "none" when it does not exist
          cmd     \* cmd[r]: the command of a "cli" or "db" process

managerVars == <<saved, kind, cmd>>
vars        == <<containerVars, managerVars>>

Ops   == {"create", "start", "stop", "delete"}
NoCmd == [op |-> "none", name |-> NoName]

TypeOK ==
    /\ ContainerTypeOK
    /\ saved \in [Names -> Record]
    /\ kind \in [Runtimes -> {"none", "cli", "db", "tool"}]
    /\ cmd \in [Runtimes -> [op : Ops \cup {"none", "use"}, name : Names \cup {NoName}]]

Init ==
    /\ ContainerInit
    /\ saved = [n \in Names |-> NoRecord]
    /\ kind = [r \in Runtimes |-> "none"]
    /\ cmd = [r \in Runtimes |-> NoCmd]

-----------------------------------------------------------------------------
\* What LoadMeta makes of an empty file.
EmptyMeta == [state |-> "CREATED", pid |-> NoPid, path |-> "none"]

\* What it makes of a file that was to hold rec and ends early.  The lines say
\* the path, the pid and then the state; the beginning of a number is a number,
\* and the beginning of a path is a path.
CutMetas(rec) ==
    {[state |-> "CREATED", pid |-> NoPid, path |-> c] :
        c \in {"none", rec.path} \cup (IF Fault("path") THEN {"cut"} ELSE {})}
    \cup {[state |-> "CREATED", pid |-> p, path |-> rec.path] :
        p \in IF rec.pid = NoPid THEN {} ELSE Pids}

Begins(r, k, c) ==
    /\ kind[r] = "none"
    /\ k \in Callers
    /\ kind' = [kind EXCEPT ![r] = k]
    /\ cmd' = [cmd EXCEPT ![r] = c]
    /\ UNCHANGED <<proc, cg, job, saved>>

\* ContainerCreate refuses a name that has a file; the other commands adopt
\* what the file says, and need one.
Command(r, op, n) ==
    /\ Begins(r, "cli", [op |-> op, name |-> n])
    /\ IF op = "create"
       THEN saved[n] = NoRecord /\ UNCHANGED slot
       ELSE /\ saved[n] # NoRecord
            /\ slot' = [slot EXCEPT ![r][n] = saved[n]]

ToolBegins(r) == Begins(r, "tool", NoCmd) /\ UNCHANGED slot

\* OpenDb looks at the file once; then the process has the database open.
OpenDb(r, n) ==
    /\ saved[n].state # "RUNNING"
    /\ Begins(r, "db", [op |-> "use", name |-> n])
    /\ UNCHANGED slot

\* Process r is no more.
Ends(r) ==
    /\ Exits(r)
    /\ kind' = [kind EXCEPT ![r] = "none"]
    /\ cmd' = [cmd EXCEPT ![r] = NoCmd]

-----------------------------------------------------------------------------
(* The call of the runtime *)

\* A command makes its one call; a tool makes any, on names without metadata.
Wants(r, op, n) ==
    \/ kind[r] = "cli" /\ cmd[r] = [op |-> op, name |-> n]
    \/ kind[r] = "tool" /\ saved[n] = NoRecord

Calls(r) ==
    /\ \E n \in Names :
          \/ Wants(r, "create", n) /\ (CreateCgroup(r, n) \/ CreateCgroupFails(r, n))
          \/ Wants(r, "start", n)  /\ (SpawnFails(r, n) \/ \E p \in Pids : Spawn(r, n, p))
          \/ Wants(r, "stop", n)   /\ Stop(r, n)
          \/ Wants(r, "delete", n) /\ Delete(r, n)
          \/ \E op \in Ops : Wants(r, op, n) /\ Refused(r, op, n)
    /\ UNCHANGED managerVars

Proceeds(r) ==
    /\ \/ SetLimits(r) \/ SetLimitsFails(r)
       \/ Attach(r) \/ AttachFails(r)
       \/ Release(r) \/ ReleaseFails(r)
       \/ Started(r) \/ StatusUnreadable(r) \/ StartFails(r)
       \/ SignalFails(r) \/ StopForeign(r)
       \/ ReapInGrace(r) \/ GraceOver(r) \/ ReapKilled(r) \/ ReapInterrupted(r)
       \/ Destroy(r) \/ DestroyFails(r)
    /\ UNCHANGED managerVars

-----------------------------------------------------------------------------
(* After the call *)

Done(r, rc) == kind[r] = "cli" /\ job[r].pc = rc

\* SaveMeta, first half: the file is truncated.
TruncateMeta(r) ==
    /\ Done(r, "ok")
    /\ cmd[r].op # "delete"
    /\ saved' = [saved EXCEPT ![cmd[r].name] = EmptyMeta]
    /\ At(r, job[r].op, job[r].name, "write", NoPid)
    /\ UNCHANGED <<osVars, slot, kind, cmd>>

\* SaveMeta, second half.  The stream is checked before it is flushed, so that
\* a failed write goes unnoticed.
WriteMeta(r) ==
    LET n == cmd[r].name IN
    /\ Done(r, "write")
    /\ \/ saved' = [saved EXCEPT ![n] = slot[r][n]]
       \/ Fault("meta") /\ \E rec \in CutMetas(slot[r][n]) :
                               saved' = [saved EXCEPT ![n] = rec]
    /\ Ends(r)

\* SaveMeta cannot open the file.
SaveMetaFails(r) ==
    /\ Done(r, "ok")
    /\ cmd[r].op # "delete"
    /\ Fault("meta")
    /\ Ends(r)
    /\ UNCHANGED saved

RemoveMeta(r) ==
    /\ Done(r, "ok")
    /\ cmd[r].op = "delete"
    /\ saved' = [saved EXCEPT ![cmd[r].name] = NoRecord]
    /\ Ends(r)

CommandFails(r) ==
    /\ Done(r, "error")
    /\ Ends(r)
    /\ UNCHANGED saved

Concludes(r) ==
    \/ TruncateMeta(r) \/ WriteMeta(r) \/ SaveMetaFails(r)
    \/ RemoveMeta(r) \/ CommandFails(r)

ToolGoesOn(r) ==
    /\ kind[r] = "tool"
    /\ job[r].pc \in {"ok", "error"}
    /\ job' = [job EXCEPT ![r] = NoJob]
    /\ UNCHANGED <<osVars, slot, managerVars>>

\* A database command makes one call of the executor and closes the database.
CloseDb(r) == kind[r] = "db" /\ Ends(r) /\ UNCHANGED saved

ToolEnds(r) == kind[r] = "tool" /\ Idle(r) /\ Ends(r) /\ UNCHANGED saved

Crash(r) == Fault("crash") /\ kind[r] # "none" /\ Ends(r) /\ UNCHANGED saved

Runs(r) == Proceeds(r) \/ Concludes(r) \/ (kind[r] = "cli" /\ Calls(r))

Child(p) ==
    /\ GateCloses(p) \/ Exec(p) \/ ExecFails(p) \/ NamespaceFails(p)
    /\ UNCHANGED managerVars

Next ==
    \/ \E r \in Runtimes :
          \/ \E n \in Names : OpenDb(r, n) \/ \E op \in Ops : Command(r, op, n)
          \/ ToolBegins(r) \/ ToolGoesOn(r) \/ ToolEnds(r)
          \/ Calls(r) \/ Proceeds(r) \/ Concludes(r)
          \/ CloseDb(r) \/ Crash(r)
    \/ \E p \in Pids : Child(p) \/ (Dies(p) /\ UNCHANGED managerVars)

Spec == Init /\ [][Next]_vars

\* A process that is not killed executes its straight-line code, be it a
\* command or a child on its way to exec.  Nobody must start a command, a
\* workload need not end, and a tool need not call.
FairSpec ==
    /\ Spec
    /\ \A r \in Runtimes : WF_vars(Runs(r))
    /\ \A p \in Pids : WF_vars(Child(p))

-----------------------------------------------------------------------------
\* container_start attaches before it releases and create reports success only
\* with the limits written: a workload past its gate is in its container's
\* cgroup, and that cgroup has its limits, also after crashes of the commands
\* that made it.
Confined ==
    \A p \in Pids : proc[p].st \in {"released", "running"} =>
        proc[p].member = proc[p].of /\ cg[proc[p].of] = "limited"

\* No call leaves a child behind: between calls every child of a runtime, dead
\* or alive, is the recorded process of a RUNNING container, so that stop will
\* reap it; a failed start and a finished stop leave neither child nor zombie.
NoStrayChild ==
    \A r \in Runtimes, p \in Pids : proc[p].parent = r =>
        \/ job[r].pid = p
        \/ slot[r][proc[p].of].state = "RUNNING" /\ slot[r][proc[p].of].pid = p

\* container_start reads the status pipe to its end: a workload that failed to
\* exec, or may still fail, is never the process of a RUNNING container.
NoFailedExec ==
    \A r \in Runtimes, n \in Names, p \in Pids :
        slot[r][n].state = "RUNNING" /\ slot[r][n].pid = p /\ proc[p].parent = r =>
            /\ proc[p].report = "none"
            /\ proc[p].st \notin {"gated", "released"}

\* container_delete stops what it can and destroys the cgroup only when empty:
\* a DELETED container has no workload, not even one an earlier process
\* started and forgot.
DeletedIsDead ==
    \A r \in Runtimes, n \in Names : slot[r][n].state = "DELETED" =>
        ~\E p \in Pids : proc[p].of = n /\ proc[p].st \in {"released", "running"}

\* process_stop trusts the recorded pid, which the kernel may have given to
\* another process since.  What it goes on to kill and reap is nevertheless the
\* workload of the container it was called for: no registry keeps the pid of a
\* process it has reaped, and a process that is not a child is never killed.
KillsOwn ==
    \A r \in Runtimes :
        job[r].pc \in {"grace", "reap"} /\ proc[job[r].pid].parent = r =>
            proc[job[r].pid].of = job[r].name

Busy(r)  == kind[r] = "cli" \/ job[r].pc \notin {"idle", "ok", "error"}

\* A start that could not read the status pipe waits for a workload that runs.
Waits(r) == job[r].pc = "await" /\ proc[job[r].pid].st = "running"

\* Every call and every command ends, whatever the workload does: a stop kills
\* what outlives the grace period, and a start waits for nothing but the exec,
\* unless it could not read its status pipe.
CallsEnd == \A r \in Runtimes : Busy(r) ~> (~Busy(r) \/ Waits(r))

\* A child blocked at its gate does not stay there, even if its runtime dies.
GateOpens == \A p \in Pids : proc[p].st = "gated" ~> proc[p].st # "gated"

\* Database commands and engine never have the files of a database open at the
\* same time (include/manager/manager.h: "database commands REFUSE to run while
\* the container is RUNNING").
DatabaseExclusive ==
    \A r \in Runtimes, p \in Pids :
        ~(kind[r] = "db" /\ proc[p].st = "running" /\ proc[p].of = cmd[r].name)
=============================================================================
