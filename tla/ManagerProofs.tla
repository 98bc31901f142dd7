--------------------------- MODULE ManagerProofs ----------------------------
(***************************************************************************)
(* Proofs about Manager and the runtime of Container, for any number of    *)
(* runtimes, container names and process ids, any capacity of the registry *)
(* and any combination of failures.                                        *)
(*                                                                         *)
(* NoStrayChild, NoFailedExec and KillsOwn hold whatever the runtimes do to*)
(* each other.  They are not inductive: Phase says for each place in a call*)
(* what its process and its record are, and Adopted and Owned say where the*)
(* pid of a record may come from.  A command adopts a pid from a file, and *)
(* that pid may be anybody's by now, but a command that stops has no child;*)
(* a tool has only pids of children it has not reaped.                     *)
(*                                                                         *)
(* Confined and DeletedIsDead hold when one runtime is used at a time: two *)
(* commands on one name can undo each other's cgroup between their steps.  *)
(* They also need whole cgroup paths: a command that adopts the beginning  *)
(* of one attaches to, and removes, another directory.                     *)
(***************************************************************************)
EXTENDS Manager, TLAPS

\* A process that is not there has no parent waiting for it; one that is
\* there was started for a container.
Table == \A p \in Pids :
    /\ proc[p].st = "free" => proc[p] = FreeProc
    /\ proc[p].st # "free" => proc[p].of \in Names

Childless(r) == \A p \in Pids : proc[p].parent # r

\* A runtime that is not there, or has only a database open, has no state.
Resting(r) == kind[r] \in {"none", "db"} =>
    /\ \A n \in Names : slot[r][n] = NoRecord
    /\ job[r] = NoJob

\* A command makes one call on one name, with at most that name's record.
Adopted(r) == kind[r] = "cli" =>
    /\ cmd[r].op \in Ops
    /\ cmd[r].name \in Names
    /\ job[r] = NoJob \/ (job[r].op = cmd[r].op /\ job[r].name = cmd[r].name)
    /\ \A n \in Names : n # cmd[r].name => slot[r][n] = NoRecord
    /\ cmd[r].op # "start" => Childless(r)

\* The pids in a tool's registry are those of its children.
Owned(r) == kind[r] = "tool" =>
    \A n \in Names : slot[r][n].pid # NoPid =>
        /\ slot[r][n].state = "RUNNING"
        /\ proc[slot[r][n].pid].parent = r
        /\ proc[slot[r][n].pid].of = n

Stoppable(op) == IF op = "stop" THEN {"RUNNING"} ELSE {"CREATED", "STOPPED"}

Starting == {"attach", "release", "status", "await"}
Stopping == {"grace", "reap"}

\* What the call in progress works on.
Phase(r) ==
    LET j == job[r] IN
    /\ j.pc = "idle" => j = NoJob
    /\ j.pc # "idle" => j.name \in Names
    /\ j.pc \notin Starting \cup Stopping => j.pid = NoPid
    /\ j.pc = "write" => kind[r] = "cli"
    /\ j.pc = "limits" => j.op = "create" /\ Mine(r).state \in {"none", "DELETED"}
    /\ j.pc \in Starting =>
          /\ j.op = "start"
          /\ j.pid \in Pids
          /\ proc[j.pid].parent = r
          /\ proc[j.pid].of = j.name
          /\ Mine(r).state \in {"CREATED", "STOPPED"}
    /\ j.pc \in Stopping =>
          /\ j.op \in {"stop", "delete"}
          /\ j.pid \in Pids
          /\ Mine(r).pid = j.pid
          /\ Mine(r).state \in Stoppable(j.op)
    /\ j.pc = "reap" => proc[j.pid].parent = r
    /\ j.pc = "destroy" => /\ j.op = "delete"
                           /\ Mine(r).state \in {"CREATED", "STOPPED"}
                           /\ Mine(r).pid = NoPid

\* NoStrayChild and NoFailedExec, of one runtime.
RunsAs(rec, p) == rec.state = "RUNNING" /\ rec.pid = p
Settled(p)   == proc[p].report = "none" /\ proc[p].st \notin {"gated", "released"}
Tracked(r)   == \A p \in Pids : proc[p].parent = r =>
                    job[r].pid = p \/ RunsAs(slot[r][proc[p].of], p)
Execed(r)    == \A n \in Names, p \in Pids :
                    slot[r][n].state = "RUNNING" /\ slot[r][n].pid = p /\ proc[p].parent = r
                        => Settled(p)

RInv(r) == Resting(r) /\ Adopted(r) /\ Owned(r) /\ Phase(r) /\ Tracked(r) /\ Execed(r)

MInv == TypeOK /\ Table /\ \A r \in Runtimes : RInv(r)

-----------------------------------------------------------------------------
(* What a step leaves alone *)

\* No child of s comes or goes, and none that has execed is any less so.
Untouched(s) == \A p \in Pids : s \in {proc[p].parent, proc'[p].parent} =>
    /\ proc'[p].parent = proc[p].parent
    /\ proc'[p].of = proc[p].of
    /\ Settled(p) => Settled(p)'

Apart(s) ==
    /\ slot'[s] = slot[s] /\ job'[s] = job[s]
    /\ kind'[s] = kind[s] /\ cmd'[s] = cmd[s]
    /\ Untouched(s)

\* What has to be shown of a step of r.
Keeps(r) ==
    /\ TypeOK'
    /\ Table'
    /\ \A s \in Runtimes : s # r => Apart(s)
    /\ RInv(r)'

\* The types of what a runtime looks at.
LEMMA Typing ==
    ASSUME TypeOK, NEW r \in Runtimes
    PROVE  /\ job[r] \in Job
           /\ slot[r] \in [Names -> Record]
           /\ \A n \in Names : slot[r][n] \in Record
           /\ \A p \in Pids : proc[p] \in Process
  BY DEF TypeOK, ContainerTypeOK

\* Whatever leaves a runtime and its children alone preserves its invariant.
LEMMA Frame ==
    ASSUME TypeOK, TypeOK', Table, NEW s \in Runtimes, RInv(s), Apart(s)
    PROVE  RInv(s)'
  <1>1. \A p \in Pids : proc[p].parent = s => proc[p].of \in Names
    BY ContainerAssumption DEF Table, FreeProc
  <1>2. Resting(s)'
    BY DEF RInv, Resting, Apart
  <1>3. Adopted(s)'
    BY DEF RInv, Adopted, Apart, Untouched, Childless
  <1>4. Owned(s)'
    <2> SUFFICES ASSUME kind[s] = "tool", NEW n \in Names, slot[s][n].pid # NoPid
                 PROVE  /\ slot[s][n].state = "RUNNING"
                        /\ proc'[slot[s][n].pid].parent = s
                        /\ proc'[slot[s][n].pid].of = n
      BY DEF Owned, Apart
    <2>1. slot[s][n].pid \in Pids
      BY Typing DEF Record
    <2> QED  BY <2>1 DEF RInv, Owned, Apart, Untouched
  <1>5. Phase(s)'
    BY DEF RInv, Phase, Apart, Untouched, Mine, Starting, Stopping
  <1>6. Tracked(s)'
    BY DEF RInv, Tracked, Apart, Untouched, RunsAs
  <1>7. Execed(s)'
    BY DEF RInv, Execed, Apart, Untouched, Settled
  <1> QED  BY <1>2, <1>3, <1>4, <1>5, <1>6, <1>7 DEF RInv

LEMMA Conclude ==
    ASSUME MInv, NEW r \in Runtimes, Keeps(r)
    PROVE  MInv'
  BY Frame DEF MInv, Keeps

-----------------------------------------------------------------------------
(* The shape of a step of a call *)

\* The call is now at j, and the record of n is rec.
Effect(r, n, rec, j) ==
    /\ job' \in [Runtimes -> Job]
    /\ job'[r] = j
    /\ slot' \in [Runtimes -> [Names -> Record]]
    /\ slot'[r][n] = rec
    /\ \A m \in Names : m # n => slot'[r][m] = slot[r][m]
    /\ \A s \in Runtimes : s # r => job'[s] = job[s] /\ slot'[s] = slot[s]
    /\ cg' \in [Names -> {"absent", "bare", "limited"}]
    /\ UNCHANGED managerVars

\* At most one process is changed, and that is a child of r or nobody's.
ProcStep(r) ==
    \/ proc' = proc
    \/ \E p \in Pids, x \in Process :
          /\ proc' = [proc EXCEPT ![p] = x]
          /\ proc[p].parent \in {r, Reaper}
          /\ x.parent \in {r, Reaper}
          /\ x.st = "free" => x = FreeProc
          /\ x.st # "free" => x.of \in Names

\* Runtime r makes the call op on n: a command's is the one it was given.
Caller(r, op, n) ==
    /\ kind[r] \in {"cli", "tool"}
    /\ kind[r] = "cli" => cmd[r].op = op /\ cmd[r].name = n

LEMMA WantsCaller ==
    ASSUME NEW r \in Runtimes, NEW op, NEW n \in Names, Wants(r, op, n)
    PROVE  Caller(r, op, n)
  BY DEF Wants, Caller

\* A call in progress has a caller, and what it is about.
LEMMA Underway ==
    ASSUME MInv, NEW r \in Runtimes, job[r].pc # "idle"
    PROVE  /\ Caller(r, job[r].op, job[r].name)
           /\ job[r].name \in Names
           /\ Mine(r) \in Record
           /\ Mine(r) = slot[r][job[r].name]
  <1>1. RInv(r) /\ kind[r] \in {"none", "cli", "db", "tool"}
    BY DEF MInv, TypeOK
  <1>2. job[r] # NoJob
    BY DEF NoJob
  <1>3. job[r].name \in Names
    BY <1>1 DEF RInv, Phase
  <1>4. Caller(r, job[r].op, job[r].name)
    BY <1>1, <1>2 DEF RInv, Resting, Adopted, Caller
  <1> QED  BY <1>3, <1>4, Typing DEF MInv, Mine

\* How the steps of the runtime come to such an effect.
LEMMA Effects ==
    ASSUME MInv, NEW r \in Runtimes, NEW n \in Names, NEW rec \in Record,
           NEW pc, NEW op, NEW p,
           [pc |-> pc, op |-> op, name |-> n, pid |-> p] \in Job,
           At(r, op, n, pc, p),
           slot' = [slot EXCEPT ![r][n] = rec],
           cg' \in [Names -> {"absent", "bare", "limited"}],
           UNCHANGED managerVars
    PROVE  Effect(r, n, rec, [pc |-> pc, op |-> op, name |-> n, pid |-> p])
  <1>1. /\ job \in [Runtimes -> Job]
        /\ slot \in [Runtimes -> [Names -> Record]]
    BY DEF MInv, TypeOK, ContainerTypeOK
  <1>2. /\ job' \in [Runtimes -> Job]
        /\ job'[r] = [pc |-> pc, op |-> op, name |-> n, pid |-> p]
        /\ \A s \in Runtimes : s # r => job'[s] = job[s]
    BY <1>1, Zenon DEF At
  <1>3. /\ slot' \in [Runtimes -> [Names -> Record]]
        /\ slot'[r][n] = rec
        /\ \A m \in Names : m # n => slot'[r][m] = slot[r][m]
        /\ \A s \in Runtimes : s # r => slot'[s] = slot[s]
    BY <1>1
  <1> QED  BY <1>2, <1>3 DEF Effect

\* A step that leaves the registry alone sets the record to what it is.
LEMMA SameRecord ==
    ASSUME MInv, NEW r \in Runtimes, NEW n \in Names, slot' = slot
    PROVE  slot' = [slot EXCEPT ![r][n] = slot[r][n]]
  <1>1. slot \in [Runtimes -> [Names -> Record]]
    BY DEF MInv, TypeOK, ContainerTypeOK
  <1> QED  BY <1>1

LEMMA SameCgroups ==
    ASSUME MInv, cg' = cg
    PROVE  cg' \in [Names -> {"absent", "bare", "limited"}]
  BY DEF MInv, TypeOK, ContainerTypeOK

\* What remains to be shown of a step of a call, once its shape is known.
LEMMA Reaches ==
    ASSUME MInv, NEW r \in Runtimes, NEW n \in Names, NEW rec \in Record, NEW j \in Job,
           Effect(r, n, rec, j), ProcStep(r), Caller(r, j.op, n), j.name = n,
           Phase(r)', Tracked(r)', Execed(r)', Owned(r)',
           j.op # "start" => (Childless(r) => Childless(r)')
    PROVE  Keeps(r)
  <1>1. TypeOK /\ Table /\ RInv(r)
    BY DEF MInv
  <1>2. /\ proc \in [Pids -> Process]
        /\ proc' \in [Pids -> Process]
    BY <1>1 DEF TypeOK, ContainerTypeOK, ProcStep
  <1>3. TypeOK'
    BY <1>1, <1>2 DEF TypeOK, ContainerTypeOK, Effect, managerVars
  <1>4. Table'
    <2>1. CASE proc' = proc
      BY <2>1, <1>1 DEF Table
    <2>2. CASE proc' # proc
      <3>1. PICK p \in Pids, x \in Process :
               /\ proc' = [proc EXCEPT ![p] = x]
               /\ x.st = "free" => x = FreeProc
               /\ x.st # "free" => x.of \in Names
        BY <2>2 DEF ProcStep
      <3>2. proc'[p] = x /\ \A q \in Pids : q # p => proc'[q] = proc[q]
        BY <3>1, <1>2
      <3> QED  BY <3>1, <3>2, <1>1 DEF Table
    <2> QED  BY <2>1, <2>2
  <1>5. ASSUME NEW s \in Runtimes, s # r
        PROVE  Apart(s)
    <2>1. Untouched(s)
      <3>1. CASE proc' = proc
        BY <3>1 DEF Untouched, Settled
      <3>2. CASE proc' # proc
        <4>1. PICK p \in Pids, x \in Process :
                 /\ proc' = [proc EXCEPT ![p] = x]
                 /\ proc[p].parent \in {r, Reaper}
                 /\ x.parent \in {r, Reaper}
          BY <3>2 DEF ProcStep
        <4>2. proc'[p] = x /\ \A q \in Pids : q # p => proc'[q] = proc[q]
          BY <4>1, <1>2
        <4> QED  BY <4>1, <4>2, <1>5, ContainerAssumption DEF Untouched, Settled
      <3> QED  BY <3>1, <3>2
    <2> QED  BY <2>1, <1>5 DEF Apart, Effect, managerVars
  <1>6. Resting(r)'
    BY DEF Resting, Effect, managerVars, Caller
  <1>7. Adopted(r)'
    BY <1>1 DEF RInv, Adopted, Effect, managerVars, Caller
  <1> QED  BY <1>3, <1>4, <1>5, <1>6, <1>7 DEF Keeps, RInv

-----------------------------------------------------------------------------
(* Steps that only move on, or change the record *)

\* The call moves on; the process it is about, if a child, is not forgotten.
LEMMA Moves ==
    ASSUME MInv, NEW r \in Runtimes, NEW n \in Names,
           NEW pc, NEW op, NEW p,
           [pc |-> pc, op |-> op, name |-> n, pid |-> p] \in Job,
           At(r, op, n, pc, p), Caller(r, op, n),
           UNCHANGED <<proc, slot, managerVars>>,
           cg' \in [Names -> {"absent", "bare", "limited"}],
           \A q \in Pids : proc[q].parent = r /\ job[r].pid = q => p = q,
           Phase(r)'
    PROVE  Keeps(r)
  <1> DEFINE j == [pc |-> pc, op |-> op, name |-> n, pid |-> p]
  <1>1. TypeOK /\ Table /\ RInv(r) /\ slot[r][n] \in Record
    BY Typing DEF MInv
  <1>2. Effect(r, n, slot[r][n], j)
    BY <1>1, Effects, SameRecord
  <1>3. proc' = proc /\ slot' = slot /\ kind' = kind
    BY DEF managerVars
  <1>4. job'[r] = j
    BY <1>2 DEF Effect
  <1>5. Tracked(r)'
    BY <1>1, <1>3, <1>4 DEF RInv, Tracked, RunsAs
  <1>6. Execed(r)' /\ Owned(r)' /\ (Childless(r) => Childless(r)')
    BY <1>1, <1>3 DEF RInv, Execed, Owned, Childless, Settled
  <1>7. ProcStep(r)
    BY <1>3 DEF ProcStep
  <1>8. j \in Job /\ j.op = op /\ j.name = n
    OBVIOUS
  <1> HIDE DEF j
  <1> QED  BY <1>1, <1>2, <1>5, <1>6, <1>7, <1>8, Reaches

\* The record changes and the call has no process any more.  A record that
\* was a child's stays so, or gets its child.
LEMMA Records ==
    ASSUME MInv, NEW r \in Runtimes, NEW n \in Names, NEW rec \in Record,
           NEW pc, NEW op,
           [pc |-> pc, op |-> op, name |-> n, pid |-> NoPid] \in Job,
           At(r, op, n, pc, NoPid), Caller(r, op, n),
           slot' = [slot EXCEPT ![r][n] = rec],
           UNCHANGED <<proc, managerVars>>,
           cg' \in [Names -> {"absent", "bare", "limited"}],
           \A q \in Pids : proc[q].parent = r /\ proc[q].of = n => RunsAs(rec, q),
           \A q \in Pids : proc[q].parent = r /\ job[r].pid = q => proc[q].of = n,
           \A q \in Pids : rec.state = "RUNNING" /\ rec.pid = q => Settled(q),
           rec.pid # NoPid => /\ rec.state = "RUNNING"
                              /\ proc[rec.pid].parent = r
                              /\ proc[rec.pid].of = n,
           Phase(r)'
    PROVE  Keeps(r)
  <1> DEFINE j == [pc |-> pc, op |-> op, name |-> n, pid |-> NoPid]
  <1>1. TypeOK /\ Table /\ RInv(r)
    BY DEF MInv
  <1>2. Effect(r, n, rec, j)
    BY Effects DEF managerVars
  <1>3. proc' = proc /\ kind' = kind
    BY DEF managerVars
  <1>4. /\ slot'[r][n] = rec
        /\ \A m \in Names : m # n => slot'[r][m] = slot[r][m]
    BY <1>2 DEF Effect
  <1>5. \A q \in Pids : proc[q].parent = r => proc[q].of \in Names
    BY <1>1, ContainerAssumption DEF Table, FreeProc
  <1>6. Tracked(r)'
    BY <1>1, <1>3, <1>4, <1>5 DEF RInv, Tracked, RunsAs
  <1>7. Execed(r)'
    BY <1>1, <1>3, <1>4 DEF RInv, Execed, Settled
  <1>8. Owned(r)'
    BY <1>1, <1>3, <1>4 DEF RInv, Owned
  <1>9. ProcStep(r) /\ (Childless(r) => Childless(r)')
    BY <1>3 DEF ProcStep, Childless
  <1>10. j \in Job /\ j.op = op /\ j.name = n
    OBVIOUS
  <1> HIDE DEF j
  <1> QED  BY <1>2, <1>6, <1>7, <1>8, <1>9, <1>10, Reaches

\* The call's child is gone: nobody records it any more.
LEMMA Reaps ==
    ASSUME MInv, NEW r \in Runtimes, NEW n \in Names, NEW rec \in Record,
           NEW pc, NEW op, NEW p \in Pids,
           [pc |-> pc, op |-> op, name |-> n, pid |-> NoPid] \in Job,
           At(r, op, n, pc, NoPid), Caller(r, op, n),
           job[r].pid = p, proc[p].parent = r, proc[p].of = n,
           proc' = [proc EXCEPT ![p] = FreeProc],
           slot' = [slot EXCEPT ![r][n] = rec],
           cg' \in [Names -> {"absent", "bare", "limited"}],
           UNCHANGED managerVars,
           \A q \in Pids : q # p => ~RunsAs(slot[r][n], q),
           rec.pid = NoPid,
           Phase(r)'
    PROVE  Keeps(r)
  <1> DEFINE j == [pc |-> pc, op |-> op, name |-> n, pid |-> NoPid]
  <1>1. TypeOK /\ Table /\ RInv(r) /\ kind' = kind /\ proc \in [Pids -> Process]
    BY DEF MInv, managerVars, TypeOK, ContainerTypeOK
  <1>2. Effect(r, n, rec, j)
    BY Effects
  <1>3. /\ proc'[p] = FreeProc
        /\ \A q \in Pids : q # p => proc'[q] = proc[q]
    BY <1>1
  <1>4. /\ slot'[r][n] = rec
        /\ \A m \in Names : m # n => slot'[r][m] = slot[r][m]
    BY <1>2 DEF Effect
  <1>5. /\ \A q \in Pids : proc[q].parent = r => proc[q].of \in Names
        /\ FreeProc \in Process
        /\ FreeProc.parent = Reaper
        /\ FreeProc.st = "free"
        /\ Reaper # r
    BY <1>1, ContainerAssumption DEF Table, FreeProc, Process
  <1>6. Tracked(r)'
    <2> SUFFICES ASSUME NEW q \in Pids, proc'[q].parent = r
                 PROVE  RunsAs(slot'[r][proc'[q].of], q)
      BY DEF Tracked, RunsAs
    <2>1. q # p /\ proc'[q] = proc[q]
      BY <1>3, <1>5
    <2>2. RunsAs(slot[r][proc[q].of], q)
      BY <2>1, <1>1 DEF RInv, Tracked
    <2>3. proc[q].of # n /\ proc[q].of \in Names
      BY <2>1, <2>2, <1>5
    <2> QED  BY <2>1, <2>2, <2>3, <1>4
  <1>7. Execed(r)'
    <2> SUFFICES ASSUME NEW m \in Names, NEW q \in Pids, slot'[r][m].state = "RUNNING",
                        slot'[r][m].pid = q, proc'[q].parent = r
                 PROVE  Settled(q)'
      BY DEF Execed
    <2>1. q # p /\ proc'[q] = proc[q]
      BY <1>3, <1>5
    <2>2. m # n
      BY <1>4, ContainerAssumption
    <2> QED  BY <2>1, <2>2, <1>1, <1>4 DEF RInv, Execed, Settled
  <1>8. Owned(r)'
    <2> SUFFICES ASSUME kind[r] = "tool", NEW m \in Names, slot'[r][m].pid # NoPid
                 PROVE  /\ slot'[r][m].state = "RUNNING"
                        /\ proc'[slot'[r][m].pid].parent = r
                        /\ proc'[slot'[r][m].pid].of = m
      BY <1>1 DEF Owned
    <2>1. m # n /\ slot'[r][m] = slot[r][m]
      BY <1>4
    <2>2. slot[r][m].pid \in Pids
      BY <2>1, <1>1, Typing DEF Record
    <2>3. /\ slot[r][m].state = "RUNNING"
          /\ proc[slot[r][m].pid].parent = r
          /\ proc[slot[r][m].pid].of = m
      BY <2>1, <1>1 DEF RInv, Owned
    <2>4. slot[r][m].pid # p
      BY <2>1, <2>3
    <2> QED  BY <2>1, <2>2, <2>3, <2>4, <1>3
  <1>9. Childless(r) => Childless(r)'
    BY <1>3, <1>5 DEF Childless
  <1>10. ProcStep(r)
    BY <1>5 DEF ProcStep
  <1>11. j \in Job /\ j.op = op /\ j.name = n
    OBVIOUS
  <1> HIDE DEF j
  <1> QED  BY <1>2, <1>6, <1>7, <1>8, <1>9, <1>10, <1>11, Reaches

-----------------------------------------------------------------------------
(* The calls and their steps *)

\* The place the call has reached.
LEMMA Reached ==
    ASSUME MInv, NEW r \in Runtimes, NEW op, NEW n, NEW pc, NEW p, At(r, op, n, pc, p)
    PROVE  job'[r] = [pc |-> pc, op |-> op, name |-> n, pid |-> p]
  BY DEF At, MInv, TypeOK, ContainerTypeOK

LEMMA ReturnedPhase ==
    ASSUME MInv, NEW r \in Runtimes, NEW op, NEW n \in Names, NEW rc \in {"ok", "error"},
           At(r, op, n, rc, NoPid)
    PROVE  Phase(r)'
  <1>1. job'[r] = [pc |-> rc, op |-> op, name |-> n, pid |-> NoPid]
    BY Reached
  <1> QED  BY <1>1 DEF Phase, Starting, Stopping

LEMMA JobTypes ==
    ASSUME NEW op \in Ops, NEW n \in Names, NEW p \in Pids \cup {NoPid},
           NEW pc \in {"limits", "attach", "release", "status", "await", "grace", "reap",
                       "destroy", "ok", "error", "write"}
    PROVE  [pc |-> pc, op |-> op, name |-> n, pid |-> p] \in Job
  BY DEF Job, Ops

LEMMA IdleHasNoPid ==
    ASSUME MInv, NEW r \in Runtimes, job[r].pc \notin Starting \cup Stopping
    PROVE  job[r].pid = NoPid
  BY DEF MInv, RInv, Phase

\* Moving on from a place without a process.
LEMMA MovesFree ==
    ASSUME MInv, NEW r \in Runtimes, NEW n \in Names, NEW op \in Ops,
           NEW p \in Pids \cup {NoPid},
           NEW pc \in {"limits", "attach", "release", "status", "await", "grace", "reap",
                       "destroy", "ok", "error", "write"},
           At(r, op, n, pc, p), Caller(r, op, n),
           UNCHANGED <<proc, slot, managerVars>>,
           cg' \in [Names -> {"absent", "bare", "limited"}],
           job[r].pc \notin Starting \cup Stopping,
           Phase(r)'
    PROVE  Keeps(r)
  <1>1. \A q \in Pids : proc[q].parent = r /\ job[r].pid = q => p = q
    BY IdleHasNoPid, ContainerAssumption
  <1> QED  BY <1>1, Moves, JobTypes

LEMMA RefusedKeeps ==
    ASSUME MInv, NEW r \in Runtimes, NEW op \in Ops, NEW n \in Names,
           Wants(r, op, n), Refused(r, op, n), UNCHANGED managerVars
    PROVE  Keeps(r)
  BY MovesFree, ReturnedPhase, WantsCaller, SameCgroups
  DEF Refused, Idle, osVars, managerVars, Starting, Stopping

LEMMA CreateCgroupFailsKeeps ==
    ASSUME MInv, NEW r \in Runtimes, NEW n \in Names,
           Wants(r, "create", n), CreateCgroupFails(r, n), UNCHANGED managerVars
    PROVE  Keeps(r)
  BY MovesFree, ReturnedPhase, WantsCaller, SameCgroups
  DEF CreateCgroupFails, Idle, osVars, managerVars, Starting, Stopping, Ops

LEMMA SpawnFailsKeeps ==
    ASSUME MInv, NEW r \in Runtimes, NEW n \in Names,
           Wants(r, "start", n), SpawnFails(r, n), UNCHANGED managerVars
    PROVE  Keeps(r)
  BY MovesFree, ReturnedPhase, WantsCaller, SameCgroups
  DEF SpawnFails, Idle, osVars, managerVars, Starting, Stopping, Ops

LEMMA CreateCgroupKeeps ==
    ASSUME MInv, NEW r \in Runtimes, NEW n \in Names,
           Wants(r, "create", n), CreateCgroup(r, n), UNCHANGED managerVars
    PROVE  Keeps(r)
  <1>1. /\ At(r, "create", n, "limits", NoPid)
        /\ proc' = proc /\ slot' = slot
        /\ job[r].pc = "idle"
        /\ slot[r][n].state \in {"none", "DELETED"}
    BY DEF CreateCgroup, Idle, CanCreate
  <1>2. cg' \in [Names -> {"absent", "bare", "limited"}]
    BY DEF CreateCgroup, MInv, TypeOK, ContainerTypeOK
  <1>3. job'[r] = [pc |-> "limits", op |-> "create", name |-> n, pid |-> NoPid]
    BY <1>1, Reached
  <1>4. Phase(r)'
    BY <1>1, <1>3 DEF Phase, Mine, Starting, Stopping
  <1> QED
    BY <1>1, <1>2, <1>4, MovesFree, WantsCaller DEF Starting, Stopping, Ops

LEMMA SetLimitsFailsKeeps ==
    ASSUME MInv, NEW r \in Runtimes, SetLimitsFails(r), UNCHANGED managerVars
    PROVE  Keeps(r)
  <1>1. /\ job[r].pc = "limits"
        /\ proc' = proc /\ slot' = slot
        /\ At(r, job[r].op, job[r].name, "error", NoPid)
    BY DEF SetLimitsFails, Return
  <1>2. cg' \in [Names -> {"absent", "bare", "limited"}]
    BY DEF SetLimitsFails, MInv, TypeOK, ContainerTypeOK
  <1>3. job[r].op \in Ops
    BY <1>1 DEF MInv, RInv, Phase, Ops
  <1> QED
    BY <1>1, <1>2, <1>3, Underway, ReturnedPhase, MovesFree DEF Starting, Stopping

LEMMA DestroyFailsKeeps ==
    ASSUME MInv, NEW r \in Runtimes, DestroyFails(r), UNCHANGED managerVars
    PROVE  Keeps(r)
  <1>1. /\ job[r].pc = "destroy"
        /\ proc' = proc /\ slot' = slot /\ cg' = cg
        /\ At(r, job[r].op, job[r].name, "error", NoPid)
    BY DEF DestroyFails, Return, osVars
  <1>2. job[r].op \in Ops
    BY <1>1 DEF MInv, RInv, Phase, Ops
  <1> QED
    BY <1>1, <1>2, Underway, ReturnedPhase, MovesFree, SameCgroups DEF Starting, Stopping

\* A container without a process is not known to have a child.
LEMMA NoChildOf ==
    ASSUME MInv, NEW r \in Runtimes, NEW n \in Names,
           job[r].pc \notin Starting \cup Stopping,
           slot[r][n].state # "RUNNING" \/ slot[r][n].pid = NoPid
    PROVE  \A q \in Pids : ~(proc[q].parent = r /\ proc[q].of = n)
  <1>1. job[r].pid = NoPid /\ Tracked(r)
    BY IdleHasNoPid DEF MInv, RInv
  <1> SUFFICES ASSUME NEW q \in Pids, proc[q].parent = r, proc[q].of = n
               PROVE  FALSE
    OBVIOUS
  <1>2. RunsAs(slot[r][n], q)
    BY <1>1, ContainerAssumption DEF Tracked
  <1>3. slot[r][n].state = "RUNNING" /\ slot[r][n].pid = q
    BY <1>2 DEF RunsAs
  <1> QED  BY <1>3, ContainerAssumption

\* Changing the record of a container without a process.
LEMMA RecordsFree ==
    ASSUME MInv, NEW r \in Runtimes, NEW n \in Names, NEW op \in Ops, NEW rec \in Record,
           NEW pc \in {"limits", "attach", "release", "status", "await", "grace", "reap",
                       "destroy", "ok", "error", "write"},
           At(r, op, n, pc, NoPid), Caller(r, op, n),
           slot' = [slot EXCEPT ![r][n] = rec],
           UNCHANGED <<proc, managerVars>>,
           cg' \in [Names -> {"absent", "bare", "limited"}],
           job[r].pc \notin Starting \cup Stopping,
           slot[r][n].state # "RUNNING" \/ slot[r][n].pid = NoPid,
           rec.pid = NoPid,
           Phase(r)'
    PROVE  Keeps(r)
  <1>1. \A q \in Pids : ~(proc[q].parent = r /\ proc[q].of = n)
    BY NoChildOf
  <1>2. job[r].pid = NoPid
    BY IdleHasNoPid
  <1>3. \A q \in Pids : rec.pid # q /\ job[r].pid # q
    BY <1>2, ContainerAssumption
  <1>4. [pc |-> pc, op |-> op, name |-> n, pid |-> NoPid] \in Job
    BY JobTypes
  <1>5. /\ \A q \in Pids : proc[q].parent = r /\ proc[q].of = n => RunsAs(rec, q)
        /\ \A q \in Pids : proc[q].parent = r /\ job[r].pid = q => proc[q].of = n
        /\ \A q \in Pids : rec.state = "RUNNING" /\ rec.pid = q => Settled(q)
    BY <1>1, <1>3
  <1> QED  BY <1>4, <1>5, Records

LEMMA SetLimitsKeeps ==
    ASSUME MInv, NEW r \in Runtimes, SetLimits(r), UNCHANGED managerVars
    PROVE  Keeps(r)
  <1> DEFINE rec == [state |-> "CREATED", pid |-> NoPid, path |-> "own"]
             n   == job[r].name
  <1>1. /\ job[r].pc = "limits"
        /\ proc' = proc
        /\ slot' = [slot EXCEPT ![r][n] = rec]
        /\ At(r, job[r].op, n, "ok", NoPid)
    BY DEF SetLimits, Return, SetMine
  <1>2. n \in Names /\ Caller(r, job[r].op, n) /\ Mine(r) = slot[r][n]
    BY <1>1, Underway
  <1>3. cg' \in [Names -> {"absent", "bare", "limited"}]
    BY DEF SetLimits, MInv, TypeOK, ContainerTypeOK
  <1>4. job[r].op \in Ops /\ slot[r][n].state # "RUNNING"
    BY <1>1, <1>2 DEF MInv, RInv, Phase, Ops
  <1>5. rec \in Record /\ rec.pid = NoPid
    BY DEF Record, States
  <1>6. Phase(r)'
    BY <1>1, <1>2, ReturnedPhase
  <1> HIDE DEF rec, n
  <1> QED
    BY <1>1, <1>2, <1>3, <1>4, <1>5, <1>6, RecordsFree DEF Starting, Stopping

LEMMA StopKeeps ==
    ASSUME MInv, NEW r \in Runtimes, NEW n \in Names,
           Wants(r, "stop", n), Stop(r, n), UNCHANGED managerVars
    PROVE  Keeps(r)
  <1>1. /\ job[r].pc = "idle" /\ slot[r][n].state = "RUNNING"
        /\ proc' = proc /\ cg' = cg
        /\ slot[r][n] \in Record /\ Caller(r, "stop", n)
    BY Typing, WantsCaller DEF Stop, Idle, CanStop, osVars, MInv
  <1>2. CASE slot[r][n].pid # NoPid
    <2>1. /\ At(r, "stop", n, "grace", slot[r][n].pid)
          /\ slot' = slot /\ slot[r][n].pid \in Pids
      BY <1>1, <1>2 DEF Stop, Record
    <2>2. job'[r] = [pc |-> "grace", op |-> "stop", name |-> n, pid |-> slot[r][n].pid]
      BY <2>1, Reached
    <2>3. Phase(r)'
      BY <1>1, <2>1, <2>2 DEF Phase, Mine, Starting, Stopping, Stoppable
    <2> QED
      BY <1>1, <2>1, <2>3, SameCgroups, MovesFree DEF Starting, Stopping, Ops
  <1>3. CASE slot[r][n].pid = NoPid
    <2> DEFINE rec == [slot[r][n] EXCEPT !.state = "STOPPED"]
    <2>1. /\ At(r, "stop", n, "ok", NoPid)
          /\ slot' = [slot EXCEPT ![r][n] = rec]
      BY <1>3 DEF Stop
    <2>2. rec \in Record /\ rec.pid = NoPid
      BY <1>1, <1>3 DEF Record, States
    <2> HIDE DEF rec
    <2>3. Phase(r)'
      BY <2>1, ReturnedPhase
    <2> QED
      BY <1>1, <1>3, <2>1, <2>2, <2>3, SameCgroups, RecordsFree DEF Starting, Stopping, Ops
  <1> QED  BY <1>2, <1>3

LEMMA DeleteKeeps ==
    ASSUME MInv, NEW r \in Runtimes, NEW n \in Names,
           Wants(r, "delete", n), Delete(r, n), UNCHANGED managerVars
    PROVE  Keeps(r)
  <1>1. /\ job[r].pc = "idle" /\ slot[r][n].state \in {"CREATED", "STOPPED"}
        /\ proc' = proc /\ cg' = cg
        /\ slot[r][n] \in Record /\ Caller(r, "delete", n)
    BY Typing, WantsCaller DEF Delete, Idle, CanDelete, osVars, MInv
  <1>2. CASE slot[r][n].pid # NoPid /\ Alive(slot[r][n].pid)
    <2>1. /\ At(r, "delete", n, "grace", slot[r][n].pid)
          /\ slot' = slot /\ slot[r][n].pid \in Pids
      BY <1>1, <1>2 DEF Delete, Record
    <2>2. job'[r] = [pc |-> "grace", op |-> "delete", name |-> n, pid |-> slot[r][n].pid]
      BY <2>1, Reached
    <2>3. Phase(r)'
      BY <1>1, <2>1, <2>2 DEF Phase, Mine, Starting, Stopping, Stoppable
    <2> QED
      BY <1>1, <2>1, <2>3, SameCgroups, MovesFree DEF Starting, Stopping, Ops
  <1>3. CASE ~(slot[r][n].pid # NoPid /\ Alive(slot[r][n].pid))
    <2> DEFINE rec == [slot[r][n] EXCEPT !.pid = NoPid]
    <2>1. /\ At(r, "delete", n, "destroy", NoPid)
          /\ slot' = [slot EXCEPT ![r][n] = rec]
      BY <1>3 DEF Delete
    <2>2. rec \in Record /\ rec.pid = NoPid /\ rec.state \in {"CREATED", "STOPPED"}
      BY <1>1 DEF Record
    <2> HIDE DEF rec
    <2>3. slot'[r][n] = rec
      BY <2>1 DEF MInv, TypeOK, ContainerTypeOK
    <2>4. job'[r] = [pc |-> "destroy", op |-> "delete", name |-> n, pid |-> NoPid]
      BY <2>1, Reached
    <2>5. Phase(r)'
      BY <2>2, <2>3, <2>4 DEF Phase, Mine, Starting, Stopping
    <2> QED
      BY <1>1, <2>1, <2>2, <2>5, SameCgroups, RecordsFree DEF Starting, Stopping, Ops
  <1> QED  BY <1>2, <1>3

LEMMA DestroyKeeps ==
    ASSUME MInv, NEW r \in Runtimes, Destroy(r), UNCHANGED managerVars
    PROVE  Keeps(r)
  <1> DEFINE n   == job[r].name
             rec == [slot[r][n] EXCEPT !.state = "DELETED"]
  <1>1. job[r].pc = "destroy"
    BY DEF Destroy
  <1>2. /\ n \in Names /\ Caller(r, job[r].op, n)
        /\ Mine(r) = slot[r][n] /\ slot[r][n] \in Record
    BY <1>1, Underway
  <1>3. /\ job[r].op \in Ops /\ slot[r][n].state # "RUNNING" /\ slot[r][n].pid = NoPid
    BY <1>1, <1>2 DEF MInv, RInv, Phase, Ops
  <1>4. /\ proc' = proc
        /\ slot' = [slot EXCEPT ![r][n] = rec]
        /\ At(r, job[r].op, n, "ok", NoPid)
    BY <1>2 DEF Destroy, Return, SetMine
  <1>5. cg' \in [Names -> {"absent", "bare", "limited"}]
    BY DEF Destroy, MInv, TypeOK, ContainerTypeOK
  <1>6. rec \in Record /\ rec.pid = NoPid
    BY <1>2, <1>3 DEF Record, States
  <1> HIDE DEF n, rec
  <1>7. Phase(r)'
    BY <1>2, <1>4, ReturnedPhase
  <1> QED
    BY <1>1, <1>2, <1>3, <1>4, <1>5, <1>6, <1>7, RecordsFree DEF Starting, Stopping

\* What process_stop leaves, whoever the process was.
LEMMA StoppedIs ==
    ASSUME MInv, NEW r \in Runtimes, job[r].pc \in Stopping, Stopped(r)
    PROVE  \E rec \in Record, pc \in {"ok", "destroy"} :
              /\ rec.pid = NoPid
              /\ slot' = [slot EXCEPT ![r][job[r].name] = rec]
              /\ At(r, job[r].op, job[r].name, pc, NoPid)
              /\ Phase(r)'
  <1> DEFINE n == job[r].name
  <1>1. /\ n \in Names /\ Mine(r) = slot[r][n] /\ slot[r][n] \in Record
    BY Underway DEF Stopping
  <1>2. job[r].op \in {"stop", "delete"} /\ slot[r][n].state \in Stoppable(job[r].op)
    BY <1>1 DEF MInv, RInv, Phase
  <1>3. CASE job[r].op = "stop"
    <2> DEFINE rec == [slot[r][n] EXCEPT !.state = "STOPPED", !.pid = NoPid]
    <2>1. /\ slot' = [slot EXCEPT ![r][n] = rec]
          /\ At(r, job[r].op, n, "ok", NoPid)
      BY <1>1, <1>3 DEF Stopped, SetMine, Return
    <2>2. rec \in Record /\ rec.pid = NoPid
      BY <1>1 DEF Record, States
    <2> HIDE DEF rec
    <2>3. Phase(r)'
      BY <1>1, <2>1, ReturnedPhase
    <2> QED  BY <2>1, <2>2, <2>3
  <1>4. CASE job[r].op = "delete"
    <2> DEFINE rec == [slot[r][n] EXCEPT !.pid = NoPid]
    <2>1. /\ slot' = [slot EXCEPT ![r][n] = rec]
          /\ At(r, job[r].op, n, "destroy", NoPid)
      BY <1>1, <1>4 DEF Stopped, SetMine
    <2>2. rec \in Record /\ rec.pid = NoPid /\ rec.state \in {"CREATED", "STOPPED"}
      BY <1>1, <1>2, <1>4 DEF Record, Stoppable
    <2> HIDE DEF rec
    <2>3. slot'[r][n] = rec
      BY <1>1, <2>1 DEF MInv, TypeOK, ContainerTypeOK
    <2>4. job'[r] = [pc |-> "destroy", op |-> job[r].op, name |-> n, pid |-> NoPid]
      BY <2>1, Reached
    <2>5. Phase(r)'
      BY <1>1, <1>4, <2>2, <2>3, <2>4 DEF Phase, Mine, Starting, Stopping
    <2> QED  BY <2>1, <2>2, <2>5
  <1> QED  BY <1>2, <1>3, <1>4

\* The pid belongs to somebody else: the container had no child.
LEMMA ForeignKeeps ==
    ASSUME MInv, NEW r \in Runtimes, job[r].pc = "grace", proc[job[r].pid].parent # r,
           Stopped(r), UNCHANGED <<osVars, managerVars>>
    PROVE  Keeps(r)
  <1> DEFINE n == job[r].name
  <1>1. /\ n \in Names /\ Mine(r) = slot[r][n] /\ Caller(r, job[r].op, n)
    BY Underway
  <1>2. job[r].op \in Ops /\ job[r].pid \in Pids /\ slot[r][n].pid = job[r].pid
    BY <1>1 DEF MInv, RInv, Phase, Ops, Stopping
  <1>3. PICK rec \in Record, pc \in {"ok", "destroy"} :
              /\ rec.pid = NoPid
              /\ slot' = [slot EXCEPT ![r][n] = rec]
              /\ At(r, job[r].op, n, pc, NoPid)
              /\ Phase(r)'
    BY StoppedIs DEF Stopping
  <1>4. ASSUME NEW q \in Pids, proc[q].parent = r, proc[q].of = n
        PROVE  FALSE
    <2>1. job[r].pid # q
      BY <1>4
    <2>2. RunsAs(slot[r][n], q)
      BY <1>4, <2>1 DEF MInv, RInv, Tracked
    <2> QED  BY <1>2, <2>1, <2>2 DEF RunsAs
  <1>5. [pc |-> pc, op |-> job[r].op, name |-> n, pid |-> NoPid] \in Job
    BY <1>1, <1>2, JobTypes
  <1>6. /\ \A q \in Pids : proc[q].parent = r /\ proc[q].of = n => RunsAs(rec, q)
        /\ \A q \in Pids : proc[q].parent = r /\ job[r].pid = q => proc[q].of = n
        /\ \A q \in Pids : rec.state = "RUNNING" /\ rec.pid = q => Settled(q)
    BY <1>3, <1>4, ContainerAssumption
  <1>7. cg' \in [Names -> {"absent", "bare", "limited"}] /\ proc' = proc
    BY SameCgroups DEF osVars
  <1> HIDE DEF n
  <1> QED  BY <1>1, <1>3, <1>5, <1>6, <1>7, Records

LEMMA StopForeignKeeps ==
    ASSUME MInv, NEW r \in Runtimes, StopForeign(r), UNCHANGED managerVars
    PROVE  Keeps(r)
  BY ForeignKeeps DEF StopForeign

LEMMA SignalFailsKeeps ==
    ASSUME MInv, NEW r \in Runtimes, SignalFails(r), UNCHANGED managerVars
    PROVE  Keeps(r)
  <1>1. CASE job[r].op = "stop"
    <2>1. /\ job[r].pc = "grace" /\ proc[job[r].pid].parent # r
          /\ At(r, job[r].op, job[r].name, "error", NoPid)
          /\ proc' = proc /\ slot' = slot /\ cg' = cg
      BY <1>1 DEF SignalFails, NotStopped, Return, osVars
    <2>2. Caller(r, job[r].op, job[r].name) /\ job[r].name \in Names
      BY <2>1, Underway
    <2>3. [pc |-> "error", op |-> job[r].op, name |-> job[r].name, pid |-> NoPid] \in Job
      BY <1>1, <2>2, JobTypes DEF Ops
    <2>4. Phase(r)'
      BY <2>1, <2>2, ReturnedPhase
    <2> QED  BY <2>1, <2>2, <2>3, <2>4, SameCgroups, Moves
  <1>2. CASE job[r].op # "stop"
    BY <1>2, ForeignKeeps DEF SignalFails, NotStopped
  <1> QED  BY <1>1, <1>2

-----------------------------------------------------------------------------
(* The steps of a start and of a stop of a child *)

\* While a child is being started its container is not RUNNING, and no record
\* names the child as the process of a RUNNING container.
LEMMA StartingChild ==
    ASSUME MInv, NEW r \in Runtimes, job[r].pc \in Starting
    PROVE  /\ job[r].op = "start" /\ job[r].pid \in Pids
           /\ proc[job[r].pid].parent = r /\ proc[job[r].pid].of = job[r].name
           /\ slot[r][job[r].name].state \in {"CREATED", "STOPPED"}
           /\ \A m \in Names : ~(slot[r][m].state = "RUNNING" /\ slot[r][m].pid = job[r].pid)
  <1>1. RInv(r) /\ Mine(r) = slot[r][job[r].name] /\ Caller(r, job[r].op, job[r].name)
    BY Underway DEF MInv, Starting
  <1>2. /\ job[r].op = "start" /\ job[r].pid \in Pids
        /\ proc[job[r].pid].parent = r /\ proc[job[r].pid].of = job[r].name
        /\ slot[r][job[r].name].state \in {"CREATED", "STOPPED"}
    BY <1>1 DEF RInv, Phase
  <1>3. ASSUME NEW m \in Names, slot[r][m].state = "RUNNING", slot[r][m].pid = job[r].pid
        PROVE  FALSE
    <2>1. m # job[r].name
      BY <1>2, <1>3
    <2>2. CASE kind[r] = "cli"
      <3>1. slot[r][m] = NoRecord
        BY <1>1, <2>1, <2>2 DEF RInv, Adopted, Caller
      <3> QED  BY <3>1, <1>3 DEF NoRecord
    <2>3. CASE kind[r] = "tool"
      <3>1. slot[r][m].pid # NoPid
        BY <1>2, <1>3, ContainerAssumption
      <3> QED  BY <1>1, <1>2, <1>3, <2>1, <2>3, <3>1 DEF RInv, Owned
    <2> QED  BY <1>1, <2>2, <2>3 DEF Caller
  <1> QED  BY <1>2, <1>3

\* A child that is being stopped is a tool's, the process of that container.
LEMMA StoppingChild ==
    ASSUME MInv, NEW r \in Runtimes, job[r].pc \in Stopping,
           proc[job[r].pid].parent = r
    PROVE  /\ job[r].op = "stop" /\ job[r].op \in Ops /\ job[r].pid \in Pids
           /\ proc[job[r].pid].of = job[r].name
           /\ RunsAs(slot[r][job[r].name], job[r].pid)
  <1>1. /\ RInv(r) /\ Mine(r) = slot[r][job[r].name] /\ job[r].name \in Names
        /\ Caller(r, job[r].op, job[r].name)
    BY Underway DEF MInv, Stopping
  <1>2. /\ job[r].op \in {"stop", "delete"} /\ job[r].pid \in Pids
        /\ slot[r][job[r].name].pid = job[r].pid
        /\ slot[r][job[r].name].state \in Stoppable(job[r].op)
    BY <1>1 DEF RInv, Phase
  <1>3. kind[r] = "tool"
    BY <1>1, <1>2 DEF RInv, Adopted, Childless, Caller
  <1>4. slot[r][job[r].name].pid # NoPid
    BY <1>2, ContainerAssumption
  <1> QED  BY <1>1, <1>2, <1>3, <1>4 DEF RInv, Owned, Ops, RunsAs, Stoppable

\* Started: the record gets the child.
LEMMA StartedKeeps ==
    ASSUME MInv, NEW r \in Runtimes, Started(r), UNCHANGED managerVars
    PROVE  Keeps(r)
  <1> DEFINE n == job[r].name
             p == job[r].pid
  <1>1. job[r].pc = "status" /\ job[r].pc \in Starting
    BY DEF Started, Starting
  <1>2. /\ n \in Names /\ Caller(r, job[r].op, n)
        /\ Mine(r) = slot[r][n] /\ slot[r][n] \in Record
    BY <1>1, Underway
  <1>3. /\ job[r].op = "start" /\ p \in Pids
        /\ proc[p].parent = r /\ proc[p].of = n
        /\ slot[r][n].state \in {"CREATED", "STOPPED"}
    BY <1>1, StartingChild
  <1>5. /\ slot' = [slot EXCEPT ![r][n] = [slot[r][n] EXCEPT !.state = "RUNNING", !.pid = p]]
        /\ At(r, job[r].op, n, "ok", NoPid)
        /\ proc' = proc /\ cg' = cg
        /\ Settled(p)
    BY <1>2 DEF Started, SetMine, Return, osVars, Settled
  <1>6. PICK rec \in Record :
            /\ RunsAs(rec, p)
            /\ slot' = [slot EXCEPT ![r][n] = rec]
    <2> DEFINE rec == [slot[r][n] EXCEPT !.state = "RUNNING", !.pid = p]
    <2>1. /\ rec \in Record /\ RunsAs(rec, p)
      BY <1>2, <1>3 DEF Record, States, RunsAs
    <2> HIDE DEF rec
    <2>2. slot' = [slot EXCEPT ![r][n] = rec]
      BY <1>5 DEF rec
    <2> QED  BY <2>1, <2>2
  <1>8. ASSUME NEW q \in Pids, proc[q].parent = r, proc[q].of = n
        PROVE  q = p
    <2>1. job[r].pid = q \/ RunsAs(slot[r][n], q)
      BY <1>8 DEF MInv, RInv, Tracked
    <2> QED  BY <2>1, <1>3 DEF RunsAs
  <1>9. [pc |-> "ok", op |-> job[r].op, name |-> n, pid |-> NoPid] \in Job
    BY <1>2, <1>3, JobTypes, Zenon DEF Ops
  <1>11. /\ \A q \in Pids : proc[q].parent = r /\ proc[q].of = n => RunsAs(rec, q)
         /\ \A q \in Pids : proc[q].parent = r /\ job[r].pid = q => proc[q].of = n
         /\ \A q \in Pids : rec.state = "RUNNING" /\ rec.pid = q => Settled(q)
         /\ rec.pid # NoPid => /\ rec.state = "RUNNING"
                               /\ proc[rec.pid].parent = r
                               /\ proc[rec.pid].of = n
    BY <1>3, <1>5, <1>6, <1>8 DEF RunsAs
  <1>12. Phase(r)'
    BY <1>2, <1>5, ReturnedPhase
  <1>13. cg' \in [Names -> {"absent", "bare", "limited"}] /\ proc' = proc
    BY <1>5, SameCgroups
  <1>14. At(r, job[r].op, n, "ok", NoPid) /\ Caller(r, job[r].op, n) /\ n \in Names
    BY <1>2, <1>5
  <1>15. slot' = [slot EXCEPT ![r][n] = rec]
    BY <1>6
  <1> HIDE DEF n, p
  <1> QED  BY <1>9, <1>11, <1>12, <1>13, <1>14, <1>15, Records

\* The start failed: the child is reaped.
LEMMA StartReaps ==
    ASSUME MInv, NEW r \in Runtimes, job[r].pc \in Starting,
           proc' = [proc EXCEPT ![job[r].pid] = FreeProc],
           SetMine(r, [Mine(r) EXCEPT !.pid = NoPid]),
           Return(r, "error"),
           UNCHANGED <<cg, managerVars>>
    PROVE  Keeps(r)
  <1> DEFINE n   == job[r].name
             p   == job[r].pid
             rec == [slot[r][n] EXCEPT !.pid = NoPid]
  <1>1. /\ n \in Names /\ Caller(r, job[r].op, n)
        /\ Mine(r) = slot[r][n] /\ slot[r][n] \in Record
    BY Underway DEF Starting
  <1>2. /\ job[r].op = "start" /\ p \in Pids
        /\ proc[p].parent = r /\ proc[p].of = n
        /\ slot[r][n].state \in {"CREATED", "STOPPED"}
    BY StartingChild
  <1>3. /\ slot' = [slot EXCEPT ![r][n] = rec]
        /\ At(r, job[r].op, n, "error", NoPid)
        /\ proc' = [proc EXCEPT ![p] = FreeProc]
    BY <1>1 DEF SetMine, Return
  <1>4. rec \in Record /\ rec.pid = NoPid
    BY <1>1 DEF Record
  <1> HIDE DEF rec
  <1>5. [pc |-> "error", op |-> job[r].op, name |-> n, pid |-> NoPid] \in Job
    BY <1>1, <1>2, JobTypes, Zenon DEF Ops
  <1>6. \A q \in Pids : q # p => ~RunsAs(slot[r][n], q)
    BY <1>2 DEF RunsAs
  <1>7. Phase(r)'
    BY <1>1, <1>3, ReturnedPhase
  <1>8. cg' \in [Names -> {"absent", "bare", "limited"}]
    BY SameCgroups
  <1> QED
    BY <1>1, <1>2, <1>3, <1>4, <1>5, <1>6, <1>7, <1>8, Reaps

LEMMA AttachFailsKeeps ==
    ASSUME MInv, NEW r \in Runtimes, AttachFails(r), UNCHANGED managerVars
    PROVE  Keeps(r)
  BY StartReaps DEF AttachFails, Starting

LEMMA ReleaseFailsKeeps ==
    ASSUME MInv, NEW r \in Runtimes, ReleaseFails(r), UNCHANGED managerVars
    PROVE  Keeps(r)
  BY StartReaps DEF ReleaseFails, Starting

LEMMA StartFailsKeeps ==
    ASSUME MInv, NEW r \in Runtimes, StartFails(r), UNCHANGED managerVars
    PROVE  Keeps(r)
  BY StartReaps DEF StartFails, Starting

\* The stop succeeded: the child is reaped.
LEMMA StopReaps ==
    ASSUME MInv, NEW r \in Runtimes, job[r].pc \in Stopping,
           proc[job[r].pid].parent = r,
           proc' = [proc EXCEPT ![job[r].pid] = FreeProc],
           Stopped(r),
           UNCHANGED <<cg, managerVars>>
    PROVE  Keeps(r)
  <1> DEFINE n == job[r].name
             p == job[r].pid
  <1>1. n \in Names /\ Caller(r, job[r].op, n)
    BY Underway DEF Stopping
  <1>2. /\ job[r].op \in Ops /\ p \in Pids /\ proc[p].parent = r
        /\ proc[p].of = n /\ slot[r][n].pid = p
    BY StoppingChild DEF RunsAs
  <1>3. PICK rec \in Record, pc \in {"ok", "destroy"} :
              /\ rec.pid = NoPid
              /\ slot' = [slot EXCEPT ![r][n] = rec]
              /\ At(r, job[r].op, n, pc, NoPid)
              /\ Phase(r)'
    BY StoppedIs
  <1>4. [pc |-> pc, op |-> job[r].op, name |-> n, pid |-> NoPid] \in Job
    BY <1>1, <1>2, JobTypes
  <1>5. \A q \in Pids : q # p => ~RunsAs(slot[r][n], q)
    BY <1>2 DEF RunsAs
  <1>6. cg' \in [Names -> {"absent", "bare", "limited"}]
    BY SameCgroups
  <1> QED  BY <1>1, <1>2, <1>3, <1>4, <1>5, <1>6, Reaps

LEMMA ReapInGraceKeeps ==
    ASSUME MInv, NEW r \in Runtimes, ReapInGrace(r), UNCHANGED managerVars
    PROVE  Keeps(r)
  BY StopReaps DEF ReapInGrace, Stopping

LEMMA ReapKilledKeeps ==
    ASSUME MInv, NEW r \in Runtimes, ReapKilled(r), UNCHANGED managerVars
    PROVE  Keeps(r)
  <1>1. job[r].pc = "reap" /\ proc[job[r].pid].parent = r
    BY DEF ReapKilled, MInv, RInv, Phase
  <1> QED  BY <1>1, StopReaps DEF ReapKilled, Stopping

\* The wait for the killed child is interrupted: its record stays as it is.
LEMMA ReapInterruptedKeeps ==
    ASSUME MInv, NEW r \in Runtimes, ReapInterrupted(r), UNCHANGED managerVars
    PROVE  Keeps(r)
  <1> DEFINE n   == job[r].name
             p   == job[r].pid
             rec == slot[r][n]
  <1>1. job[r].pc = "reap" /\ job[r].pc \in Stopping /\ proc[p].parent = r
    BY DEF ReapInterrupted, MInv, RInv, Phase, Stopping
  <1>2. n \in Names /\ Caller(r, job[r].op, n) /\ rec \in Record
    BY <1>1, Underway
  <1>3. /\ job[r].op = "stop" /\ job[r].op \in Ops /\ p \in Pids
        /\ proc[p].of = n /\ RunsAs(rec, p)
    BY <1>1, StoppingChild
  <1>4. /\ At(r, job[r].op, n, "error", NoPid)
        /\ proc' = proc /\ slot' = slot /\ cg' = cg
    BY <1>3 DEF ReapInterrupted, NotStopped, Return, osVars
  <1>5. slot' = [slot EXCEPT ![r][n] = rec]
    BY <1>2, <1>4, SameRecord
  <1>6. [pc |-> "error", op |-> job[r].op, name |-> n, pid |-> NoPid] \in Job
    BY <1>2, <1>3, JobTypes, Zenon
  <1>7. Tracked(r) /\ Execed(r)
    BY DEF MInv, RInv
  <1>8. \A q \in Pids : proc[q].parent = r /\ proc[q].of = n => RunsAs(rec, q)
    BY <1>3, <1>7 DEF Tracked
  <1>9. \A q \in Pids : rec.state = "RUNNING" /\ rec.pid = q => Settled(q)
    BY <1>1, <1>2, <1>3, <1>7 DEF Execed, RunsAs
  <1>10. rec.pid # NoPid => /\ rec.state = "RUNNING"
                            /\ proc[rec.pid].parent = r
                            /\ proc[rec.pid].of = n
    BY <1>1, <1>3 DEF RunsAs
  <1>11. \A q \in Pids : proc[q].parent = r /\ job[r].pid = q => proc[q].of = n
    BY <1>3
  <1>12. Phase(r)'
    BY <1>2, <1>4, ReturnedPhase
  <1>13. cg' \in [Names -> {"absent", "bare", "limited"}]
    BY <1>4, SameCgroups
  <1> HIDE DEF n, p, rec
  <1> QED
    BY <1>2, <1>4, <1>5, <1>6, <1>8, <1>9, <1>10, <1>11, <1>12, <1>13, Records

\* The status pipe cannot be read: the call goes on waiting for the child.
LEMMA StatusUnreadableKeeps ==
    ASSUME MInv, NEW r \in Runtimes, StatusUnreadable(r), UNCHANGED managerVars
    PROVE  Keeps(r)
  <1> DEFINE n == job[r].name
             p == job[r].pid
  <1>1. /\ job[r].pc = "status" /\ job[r].pc \in Starting
        /\ At(r, "start", n, "await", p)
        /\ proc' = proc /\ slot' = slot /\ cg' = cg
    BY DEF StatusUnreadable, Starting, osVars
  <1>2. n \in Names /\ Caller(r, job[r].op, n)
    BY <1>1, Underway
  <1>3. /\ job[r].op = "start" /\ p \in Pids
        /\ proc[p].parent = r /\ proc[p].of = n
        /\ slot[r][n].state \in {"CREATED", "STOPPED"}
    BY <1>1, StartingChild
  <1>4. job'[r] = [pc |-> "await", op |-> "start", name |-> n, pid |-> p]
    BY <1>1, Reached
  <1>5. Phase(r)'
    BY <1>1, <1>2, <1>3, <1>4 DEF Phase, Mine, Starting, Stopping
  <1>6. [pc |-> "await", op |-> "start", name |-> n, pid |-> p] \in Job
    BY <1>2, <1>3, JobTypes DEF Ops
  <1>7. \A q \in Pids : proc[q].parent = r /\ job[r].pid = q => p = q
    OBVIOUS
  <1>8. UNCHANGED <<proc, slot, managerVars>> /\ Caller(r, "start", n)
    BY <1>1, <1>2, <1>3
  <1>9. cg' \in [Names -> {"absent", "bare", "limited"}]
    BY <1>1, SameCgroups
  <1>10. At(r, "start", n, "await", p)
    BY <1>1
  <1> HIDE DEF n, p
  <1> QED  BY <1>2, <1>5, <1>6, <1>7, <1>8, <1>9, <1>10, Moves

\* If p is the process of a RUNNING container, x is a process that has execed.
MayBecome(r, p, x) ==
    \A m \in Names : slot[r][m].state = "RUNNING" /\ slot[r][m].pid = p =>
        x.report = "none" /\ x.st \notin {"gated", "released"}

\* The child of the call changes, and stays its child.
LEMMA Alters ==
    ASSUME MInv, NEW r \in Runtimes, NEW n \in Names, NEW op \in Ops,
           NEW p \in Pids, NEW x \in Process,
           NEW pc \in {"limits", "attach", "release", "status", "await", "grace", "reap",
                       "destroy", "ok", "error", "write"},
           At(r, op, n, pc, p), Caller(r, op, n),
           proc' = [proc EXCEPT ![p] = x],
           UNCHANGED <<cg, slot, managerVars>>,
           job[r].pid = p, proc[p].parent = r, x.parent = r, x.of = proc[p].of,
           x.st # "free", MayBecome(r, p, x),
           Phase(r)'
    PROVE  Keeps(r)
  <1> DEFINE j == [pc |-> pc, op |-> op, name |-> n, pid |-> p]
  <1>1. /\ TypeOK /\ Table /\ RInv(r) /\ slot' = slot /\ kind' = kind
        /\ proc \in [Pids -> Process] /\ slot[r][n] \in Record
    BY Typing DEF MInv, managerVars, TypeOK, ContainerTypeOK
  <1>2. j \in Job /\ j.op = op /\ j.name = n /\ j.pid = p
    BY JobTypes
  <1>3. Effect(r, n, slot[r][n], j)
    BY <1>1, <1>2, SameCgroups, SameRecord, Effects
  <1> HIDE DEF j
  <1>4. /\ proc'[p] = x
        /\ \A q \in Pids : q # p => proc'[q] = proc[q]
    BY <1>1
  <1>5. x.of \in Names
    BY <1>1, ContainerAssumption DEF Table, FreeProc
  <1>6. ProcStep(r)
    BY <1>5 DEF ProcStep
  <1>7. Tracked(r)'
    BY <1>1, <1>2, <1>3, <1>4 DEF RInv, Tracked, RunsAs, Effect
  <1>8. Execed(r)'
    BY <1>1, <1>4 DEF RInv, Execed, Settled, MayBecome
  <1>9. Owned(r)'
    BY <1>1, <1>4, Typing DEF RInv, Owned, Record
  <1>10. Childless(r) => Childless(r)'
    BY DEF Childless
  <1> QED
    BY <1>1, <1>2, <1>3, <1>6, <1>7, <1>8, <1>9, <1>10, Reaches

LEMMA AttachKeeps ==
    ASSUME MInv, NEW r \in Runtimes, Attach(r), UNCHANGED managerVars
    PROVE  Keeps(r)
  <1> DEFINE n == job[r].name
             p == job[r].pid
  <1>0. PICK d \in Named(r) :
           proc' = [proc EXCEPT ![p].member = IF proc[p].st = "zombie" THEN @ ELSE d]
    BY DEF Attach
  <1> DEFINE x == [proc[p] EXCEPT !.member = IF proc[p].st = "zombie" THEN @ ELSE d]
  <1>1. /\ job[r].pc \in Starting /\ job[r].pc = "attach"
        /\ proc' = [proc EXCEPT ![p] = x]
        /\ At(r, "start", n, "release", p)
        /\ UNCHANGED <<cg, slot>>
    BY <1>0 DEF Attach, Starting
  <1>2. /\ n \in Names /\ Caller(r, job[r].op, n) /\ Mine(r) = slot[r][n]
    BY <1>1, Underway, Zenon DEF Starting
  <1>3. /\ job[r].op = "start" /\ p \in Pids
        /\ proc[p].parent = r /\ proc[p].of = n
        /\ slot[r][n].state \in {"CREATED", "STOPPED"}
        /\ \A m \in Names : ~(slot[r][m].state = "RUNNING" /\ slot[r][m].pid = p)
    BY <1>1, StartingChild
  <1>4. proc[p] \in Process /\ proc[p].st # "free"
    BY <1>3, Typing, ContainerAssumption DEF MInv, Table, FreeProc
  <1>5. /\ x \in Process /\ x.parent = r /\ x.of = proc[p].of /\ x.st # "free"
    <2>1. d \in Names \cup {NoName}
      BY <1>2, Underway, <1>1 DEF Named, Record, Starting
    <2> QED  BY <1>3, <1>4, <2>1 DEF Process
  <1> HIDE DEF x
  <1>6. job'[r] = [pc |-> "release", op |-> "start", name |-> n, pid |-> p]
    BY <1>1, Reached
  <1>7. proc'[p] = x /\ slot' = slot
    BY <1>1, <1>3 DEF MInv, TypeOK, ContainerTypeOK
  <1>8. Phase(r)'
    BY <1>1, <1>2, <1>3, <1>5, <1>6, <1>7 DEF Phase, Mine, Starting, Stopping
  <1>9. /\ job[r].op \in Ops /\ Caller(r, job[r].op, n) /\ UNCHANGED <<cg, slot, managerVars>>
        /\ MayBecome(r, p, x)
    BY <1>1, <1>2, <1>3 DEF Ops, MayBecome
  <1>10. /\ job[r].pid = p /\ proc[p].parent = r /\ p \in Pids /\ n \in Names
         /\ proc' = [proc EXCEPT ![p] = x]
         /\ At(r, job[r].op, n, "release", p)
    BY <1>1, <1>2, <1>3
  <1> HIDE DEF n, p
  <1> QED
    BY <1>5, <1>8, <1>9, <1>10, Alters

LEMMA ReleaseKeeps ==
    ASSUME MInv, NEW r \in Runtimes, Release(r), UNCHANGED managerVars
    PROVE  Keeps(r)
  <1> DEFINE n == job[r].name
             p == job[r].pid
             x == [proc[p] EXCEPT !.st = "released"]
  <1>1. /\ job[r].pc \in Starting /\ job[r].pc = "release"
        /\ proc' = [proc EXCEPT ![p] = x]
        /\ At(r, "start", n, "status", p)
        /\ UNCHANGED <<cg, slot>>
    BY DEF Release, Starting
  <1>2. /\ n \in Names /\ Caller(r, job[r].op, n) /\ Mine(r) = slot[r][n]
    BY <1>1, Underway, Zenon DEF Starting
  <1>3. /\ job[r].op = "start" /\ p \in Pids
        /\ proc[p].parent = r /\ proc[p].of = n
        /\ slot[r][n].state \in {"CREATED", "STOPPED"}
        /\ \A m \in Names : ~(slot[r][m].state = "RUNNING" /\ slot[r][m].pid = p)
    BY <1>1, StartingChild
  <1>4. proc[p] \in Process
    BY <1>1, <1>2, <1>3, Typing DEF MInv, RInv, Phase
  <1>5. /\ x \in Process /\ x.parent = r /\ x.of = proc[p].of /\ x.st # "free"
    BY <1>3, <1>4 DEF Process
  <1> HIDE DEF x
  <1>6. job'[r] = [pc |-> "status", op |-> "start", name |-> n, pid |-> p]
    BY <1>1, Reached
  <1>7. proc'[p] = x /\ slot' = slot
    BY <1>1, <1>3 DEF MInv, TypeOK, ContainerTypeOK
  <1>8. Phase(r)'
    BY <1>2, <1>3, <1>4, <1>5, <1>6, <1>7 DEF Phase, Mine, Starting, Stopping
  <1>9. /\ job[r].op \in Ops /\ Caller(r, job[r].op, n) /\ UNCHANGED <<cg, slot, managerVars>>
        /\ MayBecome(r, p, x)
    BY <1>1, <1>2, <1>3 DEF Ops, MayBecome
  <1>10. /\ job[r].pid = p /\ proc[p].parent = r /\ p \in Pids /\ n \in Names
         /\ proc' = [proc EXCEPT ![p] = x]
         /\ At(r, job[r].op, n, "status", p)
    BY <1>1, <1>2, <1>3
  <1> HIDE DEF n, p
  <1> QED
    BY <1>5, <1>8, <1>9, <1>10, Alters

LEMMA GraceOverKeeps ==
    ASSUME MInv, NEW r \in Runtimes, GraceOver(r), UNCHANGED managerVars
    PROVE  Keeps(r)
  <1> DEFINE n == job[r].name
             p == job[r].pid
             x == [proc[p] EXCEPT !.st = "zombie", !.report = proc[p].report]
  <1>1. /\ job[r].pc \in Stopping /\ job[r].pc = "grace" /\ proc[p].parent = r
        /\ At(r, job[r].op, n, "reap", p)
        /\ UNCHANGED <<cg, slot>>
    BY DEF GraceOver, Stopping
  <1>2. n \in Names /\ Caller(r, job[r].op, n) /\ Mine(r) = slot[r][n]
    BY <1>1, Underway, Zenon DEF Stopping
  <1>3. /\ job[r].op \in Ops /\ p \in Pids /\ proc[p].of = n /\ slot[r][n].pid = p
    BY <1>1, StoppingChild DEF RunsAs
  <1>4. proc' = [proc EXCEPT ![p] = x]
    BY <1>1, <1>3, ContainerAssumption DEF GraceOver, Ended
  <1>5. proc[p] \in Process
    BY <1>3, Typing DEF MInv
  <1>6. /\ x \in Process /\ x.parent = r /\ x.of = proc[p].of /\ x.st = "zombie"
        /\ x.report = proc[p].report
    BY <1>1, <1>5 DEF Process
  <1> HIDE DEF x
  <1>7. job'[r] = [pc |-> "reap", op |-> job[r].op, name |-> n, pid |-> p]
    BY <1>1, Reached
  <1>8. proc'[p] = x /\ slot' = slot
    BY <1>1, <1>3, <1>4 DEF MInv, TypeOK, ContainerTypeOK
  <1>9. /\ job[r].op \in {"stop", "delete"}
        /\ slot[r][n].state \in Stoppable(job[r].op)
    BY <1>1, <1>2 DEF MInv, RInv, Phase
  <1>10. Phase(r)'
    BY <1>2, <1>3, <1>6, <1>7, <1>8, <1>9 DEF Phase, Mine, Starting, Stopping
  <1>11. MayBecome(r, p, x)
    BY <1>1, <1>3, <1>6 DEF MInv, RInv, Execed, Settled, MayBecome
  <1>12. x.st # "free" /\ UNCHANGED <<cg, slot, managerVars>> /\ job[r].pid = p
    BY <1>1, <1>6
  <1> HIDE DEF n, p
  <1> QED
    BY <1>1, <1>2, <1>3, <1>4, <1>6, <1>10, <1>11, <1>12, Alters

LEMMA SpawnKeeps ==
    ASSUME MInv, NEW r \in Runtimes, NEW n \in Names, NEW p \in Pids,
           Wants(r, "start", n), Spawn(r, n, p), UNCHANGED managerVars
    PROVE  Keeps(r)
  <1> DEFINE x == [st |-> "gated", parent |-> r, of |-> n, member |-> NoName, report |-> "none"]
             j == [pc |-> "attach", op |-> "start", name |-> n, pid |-> p]
  <1>1. /\ job[r].pc = "idle" /\ slot[r][n].state \in {"CREATED", "STOPPED"}
        /\ proc[p].st = "free"
        /\ proc' = [proc EXCEPT ![p] = x]
        /\ At(r, "start", n, "attach", p)
        /\ cg' = cg /\ slot' = slot /\ kind' = kind
    BY DEF Spawn, Idle, CanStart, Alive, managerVars
  <1>2. /\ TypeOK /\ Table /\ RInv(r) /\ slot[r][n] \in Record /\ Caller(r, "start", n)
        /\ proc \in [Pids -> Process] /\ job[r].pid = NoPid
    BY <1>1, Typing, WantsCaller, IdleHasNoPid
    DEF MInv, TypeOK, ContainerTypeOK, Starting, Stopping
  <1>3. j \in Job /\ j.op = "start" /\ j.name = n /\ j.pid = p
    BY JobTypes DEF Ops
  <1>4. job'[r] = j /\ Effect(r, n, slot[r][n], j)
    BY <1>1, <1>2, <1>3, SameCgroups, SameRecord, Effects, Reached
  <1>5. x \in Process /\ x.parent = r /\ x.of = n /\ x.st = "gated"
    BY DEF Process
  <1>6. j.pc = "attach"
    OBVIOUS
  <1> HIDE DEF x, j
  <1>7. /\ proc'[p] = x
        /\ \A q \in Pids : q # p => proc'[q] = proc[q]
        /\ proc[p].parent = Reaper /\ Reaper # r
    BY <1>1, <1>2, ContainerAssumption DEF Table, FreeProc
  <1>8. ProcStep(r)
    BY <1>1, <1>5, <1>7 DEF ProcStep
  <1>9. Phase(r)'
    BY <1>1, <1>3, <1>4, <1>5, <1>6, <1>7 DEF Phase, Mine, Starting, Stopping
  <1>10. Tracked(r)'
    BY <1>1, <1>2, <1>3, <1>4, <1>7, ContainerAssumption DEF RInv, Tracked, RunsAs
  <1>11. ASSUME NEW m \in Names, slot[r][m].state = "RUNNING", slot[r][m].pid = p
         PROVE  FALSE
    <2>1. m # n
      BY <1>1, <1>11
    <2>2. CASE kind[r] = "cli"
      <3>1. slot[r][m] = NoRecord
        BY <1>2, <2>1, <2>2 DEF RInv, Adopted, Caller
      <3> QED  BY <3>1, <1>11 DEF NoRecord
    <2>3. CASE kind[r] = "tool"
      <3>1. slot[r][m].pid # NoPid
        BY <1>11, ContainerAssumption
      <3> QED  BY <1>2, <1>7, <1>11, <2>3, <3>1 DEF RInv, Owned
    <2> QED  BY <1>2, <2>2, <2>3 DEF Caller
  <1>12. Execed(r)'
    BY <1>1, <1>2, <1>7, <1>11 DEF RInv, Execed, Settled
  <1>13. Owned(r)'
    BY <1>1, <1>2, <1>7, <1>11, Typing DEF RInv, Owned, Record
  <1> QED
    BY <1>2, <1>3, <1>4, <1>8, <1>9, <1>10, <1>12, <1>13, Reaches

-----------------------------------------------------------------------------
(* Processes that begin and end *)

LEMMA RestingChildless ==
    ASSUME MInv, NEW r \in Runtimes, kind[r] \in {"none", "db"}
    PROVE  Childless(r) /\ job[r] = NoJob /\ \A n \in Names : slot[r][n] = NoRecord
  <1>1. RInv(r) /\ Table /\ job[r] = NoJob /\ \A n \in Names : slot[r][n] = NoRecord
    BY DEF MInv, RInv, Resting
  <1>2. \A p \in Pids : proc[p].parent = r => proc[p].of \in Names /\ NoPid # p
    BY <1>1, ContainerAssumption DEF Table, FreeProc
  <1>3. \A p \in Pids : ~RunsAs(NoRecord, p)
    BY DEF NoRecord, RunsAs
  <1>4. job[r].pid = NoPid
    BY <1>1 DEF NoJob
  <1> QED  BY <1>1, <1>2, <1>3, <1>4 DEF RInv, Tracked, Childless

LEMMA EmptyTypes ==
    /\ NoRecord \in Record /\ NoJob \in Job /\ FreeProc \in Process
    /\ EmptyMeta \in Record /\ NoCmd \in [op : Ops \cup {"none", "use"}, name : Names \cup {NoName}]
    /\ \A rec \in Record : CutMetas(rec) \subseteq Record
  BY DEF NoRecord, NoJob, FreeProc, EmptyMeta, NoCmd, CutMetas, Record, Job, Process, States

\* A process begins, with at most one record, and without a child.
LEMMA BeginsKeeps ==
    ASSUME MInv, NEW r \in Runtimes, NEW k \in {"cli", "db", "tool"},
           NEW c \in [op : Ops \cup {"none", "use"}, name : Names \cup {NoName}],
           Begins(r, k, c), slot' \in [Runtimes -> [Names -> Record]],
           \A s \in Runtimes : s # r => slot'[s] = slot[s],
           IF k = "cli" THEN /\ c.op \in Ops /\ c.name \in Names
                             /\ \A m \in Names : m # c.name => slot'[r][m] = slot[r][m]
                        ELSE slot' = slot
    PROVE  Keeps(r)
  <1>1. /\ kind[r] = "none" /\ proc' = proc /\ cg' = cg /\ job' = job /\ saved' = saved
        /\ kind' = [kind EXCEPT ![r] = k] /\ cmd' = [cmd EXCEPT ![r] = c]
    BY DEF Begins
  <1>2. /\ TypeOK /\ Table /\ Childless(r) /\ job[r] = NoJob
        /\ \A n \in Names : slot[r][n] = NoRecord
    BY <1>1, RestingChildless DEF MInv
  <1>3. TypeOK'
    BY <1>1, <1>2 DEF TypeOK, ContainerTypeOK
  <1>4. Table'
    BY <1>1, <1>2 DEF Table
  <1>5. /\ kind'[r] = k /\ cmd'[r] = c
        /\ \A s \in Runtimes : s # r => kind'[s] = kind[s] /\ cmd'[s] = cmd[s]
    BY <1>1, <1>2 DEF TypeOK
  <1>6. \A s \in Runtimes : s # r => Apart(s)
    BY <1>1, <1>5 DEF Apart, Untouched, Settled
  <1>7. Childless(r)' /\ Tracked(r)' /\ Execed(r)'
    BY <1>1, <1>2 DEF Childless, Tracked, Execed
  <1>8. Phase(r)'
    BY <1>1, <1>2 DEF Phase, NoJob, Starting, Stopping
  <1>9. NoRecord.pid = NoPid
    BY DEF NoRecord
  <1>10. k # "cli" => slot' = slot
    BY Zenon
  <1>11. Resting(r)'
    BY <1>1, <1>2, <1>5, <1>10 DEF Resting
  <1>12. Owned(r)'
    BY <1>2, <1>5, <1>9, <1>10 DEF Owned
  <1>13. Adopted(r)'
    BY <1>1, <1>2, <1>5, <1>7 DEF Adopted
  <1> QED
    BY <1>3, <1>4, <1>6, <1>7, <1>8, <1>11, <1>12, <1>13 DEF Keeps, RInv

LEMMA CommandKeeps ==
    ASSUME MInv, NEW r \in Runtimes, NEW op \in Ops, NEW n \in Names, Command(r, op, n)
    PROVE  Keeps(r)
  <1> DEFINE c == [op |-> op, name |-> n]
  <1>1. /\ c \in [op : Ops \cup {"none", "use"}, name : Names \cup {NoName}]
        /\ c.op = op /\ c.name = n /\ Begins(r, "cli", c)
    BY DEF Command
  <1> HIDE DEF c
  <1>2. /\ slot \in [Runtimes -> [Names -> Record]] /\ saved[n] \in Record
    BY DEF MInv, TypeOK, ContainerTypeOK
  <1>3. slot' = slot \/ slot' = [slot EXCEPT ![r][n] = saved[n]]
    BY DEF Command
  <1>4. /\ slot' \in [Runtimes -> [Names -> Record]]
        /\ \A s \in Runtimes : s # r => slot'[s] = slot[s]
        /\ \A m \in Names : m # n => slot'[r][m] = slot[r][m]
    BY <1>2, <1>3
  <1> QED  BY <1>1, <1>4, BeginsKeeps

LEMMA ToolBeginsKeeps ==
    ASSUME MInv, NEW r \in Runtimes, ToolBegins(r)
    PROVE  Keeps(r)
  <1>1. Begins(r, "tool", NoCmd) /\ slot' = slot /\ slot \in [Runtimes -> [Names -> Record]]
    BY DEF ToolBegins, MInv, TypeOK, ContainerTypeOK
  <1> QED  BY <1>1, EmptyTypes, BeginsKeeps

LEMMA OpenDbKeeps ==
    ASSUME MInv, NEW r \in Runtimes, NEW n \in Names, OpenDb(r, n)
    PROVE  Keeps(r)
  <1> DEFINE c == [op |-> "use", name |-> n]
  <1>1. /\ Begins(r, "db", c) /\ slot' = slot /\ slot \in [Runtimes -> [Names -> Record]]
        /\ c \in [op : Ops \cup {"none", "use"}, name : Names \cup {NoName}]
    BY DEF OpenDb, MInv, TypeOK, ContainerTypeOK
  <1> HIDE DEF c
  <1> QED  BY <1>1, BeginsKeeps

\* A process ends: its children, if any, are the Reaper's.
LEMMA EndsKeeps ==
    ASSUME MInv, NEW r \in Runtimes, Ends(r), saved' \in [Names -> Record]
    PROVE  Keeps(r)
  <1>1. /\ TypeOK /\ Table /\ Reaper # r /\ Reaper \notin Runtimes
    BY ContainerAssumption DEF MInv
  <1>2. /\ proc \in [Pids -> Process] /\ slot \in [Runtimes -> [Names -> Record]]
        /\ job \in [Runtimes -> Job] /\ kind \in [Runtimes -> {"none", "cli", "db", "tool"}]
        /\ cmd \in [Runtimes -> [op : Ops \cup {"none", "use"}, name : Names \cup {NoName}]]
        /\ cg' \in [Names -> {"absent", "bare", "limited"}]
    BY <1>1 DEF TypeOK, ContainerTypeOK, Ends, Exits
  <1>3. /\ slot' \in [Runtimes -> [Names -> Record]]
        /\ \A n \in Names : slot'[r][n] = NoRecord
        /\ \A s \in Runtimes : s # r => slot'[s] = slot[s]
    BY <1>2, EmptyTypes DEF Ends, Exits
  <1>4. /\ job' \in [Runtimes -> Job] /\ job'[r] = NoJob
        /\ \A s \in Runtimes : s # r => job'[s] = job[s]
    BY <1>2, EmptyTypes DEF Ends, Exits
  <1>5. /\ kind' \in [Runtimes -> {"none", "cli", "db", "tool"}] /\ kind'[r] = "none"
        /\ \A s \in Runtimes : s # r => kind'[s] = kind[s]
    BY <1>2 DEF Ends
  <1>6. /\ cmd' \in [Runtimes -> [op : Ops \cup {"none", "use"}, name : Names \cup {NoName}]]
        /\ \A s \in Runtimes : s # r => cmd'[s] = cmd[s]
    BY <1>2, EmptyTypes DEF Ends
  <1>7. ASSUME NEW p \in Pids
        PROVE  /\ proc[p].parent # r => proc'[p] = proc[p]
               /\ proc[p].parent = r => proc'[p].parent = Reaper
               /\ proc'[p] \in Process
               /\ proc'[p].st = "free" => proc'[p] = FreeProc
               /\ proc'[p].st # "free" => proc'[p].of \in Names
    <2>1. proc[p] \in Process
      BY <1>2
    <2>2. CASE proc[p].parent # r
      <3>1. proc'[p] = proc[p]
        BY <2>2 DEF Ends, Exits
      <3> QED  BY <2>1, <2>2, <3>1, <1>1 DEF Table
    <2>3. CASE proc[p].parent = r /\ proc[p].st = "zombie"
      <3>1. proc'[p] = FreeProc
        BY <2>3 DEF Ends, Exits
      <3> QED  BY <2>3, <3>1, EmptyTypes DEF FreeProc
    <2>4. CASE proc[p].parent = r /\ proc[p].st # "zombie"
      <3>1. proc'[p] = [proc[p] EXCEPT !.parent = Reaper]
        BY <2>4 DEF Ends, Exits
      <3>2. proc[p].st # "free" /\ proc[p].of \in Names
        BY <2>4, <1>1 DEF Table, FreeProc
      <3> QED  BY <2>1, <2>4, <3>1, <3>2 DEF Process
    <2> QED  BY <2>2, <2>3, <2>4
  <1>8. proc' \in [Pids -> Process]
    <2>1. proc' = [p \in Pids |-> proc'[p]]
      BY DEF Ends, Exits
    <2> QED  BY <2>1, <1>7
  <1>9. TypeOK' /\ Table'
    BY <1>2, <1>3, <1>4, <1>5, <1>6, <1>7, <1>8 DEF TypeOK, ContainerTypeOK, Table
  <1>10. \A s \in Runtimes : s # r => Apart(s)
    BY <1>1, <1>3, <1>4, <1>5, <1>6, <1>7 DEF Apart, Untouched, Settled
  <1>11. Childless(r)'
    BY <1>1, <1>7 DEF Childless
  <1>12. Tracked(r)' /\ Execed(r)'
    BY <1>11 DEF Childless, Tracked, Execed
  <1>13. Resting(r)' /\ Adopted(r)' /\ Owned(r)' /\ Phase(r)'
    BY <1>3, <1>4, <1>5
    DEF Resting, Adopted, Owned, Phase, NoJob, Starting, Stopping
  <1> QED  BY <1>9, <1>10, <1>12, <1>13 DEF Keeps, RInv

-----------------------------------------------------------------------------
(* After the call *)

LEMMA TruncateMetaKeeps ==
    ASSUME MInv, NEW r \in Runtimes, TruncateMeta(r)
    PROVE  Keeps(r)
  <1> DEFINE n == job[r].name
             j == [pc |-> "write", op |-> job[r].op, name |-> n, pid |-> NoPid]
  <1>1. /\ kind[r] = "cli" /\ job[r].pc = "ok"
        /\ saved' = [saved EXCEPT ![cmd[r].name] = EmptyMeta]
        /\ At(r, job[r].op, n, "write", NoPid)
        /\ proc' = proc /\ cg' = cg /\ slot' = slot /\ kind' = kind /\ cmd' = cmd
    BY DEF TruncateMeta, Done, osVars
  <1>2. TypeOK /\ Table /\ RInv(r) /\ job[r].pid = NoPid /\ n \in Names /\ job[r] \in Job
    BY <1>1, Underway, IdleHasNoPid, Typing DEF MInv, Starting, Stopping
  <1>3. /\ j \in Job /\ j.pc = "write" /\ j.op = job[r].op /\ j.name = n /\ j.pid = NoPid
    BY <1>2 DEF Job
  <1>4. job'[r] = j
    BY <1>1, Reached
  <1>5. /\ job' \in [Runtimes -> Job]
        /\ \A s \in Runtimes : s # r => job'[s] = job[s]
    BY <1>1, <1>2, <1>3 DEF At, TypeOK, ContainerTypeOK
  <1> HIDE DEF j
  <1>6. TypeOK' /\ Table'
    BY <1>1, <1>2, <1>5, EmptyTypes DEF TypeOK, ContainerTypeOK, Table
  <1>7. \A s \in Runtimes : s # r => Apart(s)
    BY <1>1, <1>5 DEF Apart, Untouched, Settled
  <1>8. Resting(r)' /\ Owned(r)' /\ Execed(r)'
    BY <1>1, <1>2 DEF RInv, Resting, Owned, Execed, Settled
  <1>9. Tracked(r)'
    BY <1>1, <1>2, <1>3, <1>4 DEF RInv, Tracked, RunsAs
  <1>10. job[r] # NoJob
    BY <1>1 DEF NoJob
  <1>11. Adopted(r)'
    BY <1>1, <1>2, <1>3, <1>4, <1>10 DEF RInv, Adopted, Childless
  <1>12. Phase(r)'
    BY <1>1, <1>2, <1>3, <1>4 DEF Phase, Starting, Stopping
  <1> QED
    BY <1>6, <1>7, <1>8, <1>9, <1>11, <1>12 DEF Keeps, RInv

LEMMA ToolGoesOnKeeps ==
    ASSUME MInv, NEW r \in Runtimes, ToolGoesOn(r)
    PROVE  Keeps(r)
  <1>1. /\ kind[r] = "tool" /\ job[r].pc \in {"ok", "error"}
        /\ job' = [job EXCEPT ![r] = NoJob]
        /\ proc' = proc /\ cg' = cg /\ slot' = slot
        /\ saved' = saved /\ kind' = kind /\ cmd' = cmd
    BY DEF ToolGoesOn, osVars, managerVars
  <1>2. TypeOK /\ Table /\ RInv(r) /\ job[r].pid = NoPid
    BY <1>1, IdleHasNoPid DEF MInv, Starting, Stopping
  <1>3. /\ job' \in [Runtimes -> Job] /\ job'[r] = NoJob /\ NoJob.pid = NoPid
        /\ \A s \in Runtimes : s # r => job'[s] = job[s]
    BY <1>1, <1>2, EmptyTypes DEF TypeOK, ContainerTypeOK, NoJob
  <1>4. TypeOK' /\ Table'
    BY <1>1, <1>2, <1>3 DEF TypeOK, ContainerTypeOK, Table
  <1>5. \A s \in Runtimes : s # r => Apart(s)
    BY <1>1, <1>3 DEF Apart, Untouched, Settled
  <1>6. Resting(r)' /\ Adopted(r)' /\ Owned(r)' /\ Execed(r)'
    BY <1>1, <1>2 DEF RInv, Resting, Adopted, Owned, Execed, Settled
  <1>7. Tracked(r)'
    BY <1>1, <1>2, <1>3 DEF RInv, Tracked, RunsAs
  <1>8. Phase(r)'
    BY <1>3 DEF Phase, NoJob, Starting, Stopping
  <1> QED  BY <1>4, <1>5, <1>6, <1>7, <1>8 DEF Keeps, RInv

LEMMA ConcludesKeeps ==
    ASSUME MInv, NEW r \in Runtimes, Concludes(r)
    PROVE  Keeps(r)
  <1>1. /\ saved \in [Names -> Record] /\ slot[r] \in [Names -> Record]
    BY Typing DEF MInv, TypeOK
  <1>2. CASE TruncateMeta(r)
    BY <1>2, TruncateMetaKeeps
  <1>3. CASE WriteMeta(r)
    <2> DEFINE n == cmd[r].name
    <2>1. n \in Names
      BY <1>3 DEF WriteMeta, Done, MInv, RInv, Adopted
    <2>2. slot[r][n] \in Record
      BY <1>1, <2>1
    <2>3. \E rec \in {slot[r][n]} \cup CutMetas(slot[r][n]) :
             saved' = [saved EXCEPT ![n] = rec]
      BY <1>3 DEF WriteMeta
    <2>4. saved' \in [Names -> Record]
      BY <1>1, <2>1, <2>2, <2>3, EmptyTypes
    <2> QED  BY <1>3, <2>4, EndsKeeps DEF WriteMeta
  <1>4. CASE SaveMetaFails(r) \/ CommandFails(r)
    BY <1>1, <1>4, EndsKeeps DEF SaveMetaFails, CommandFails
  <1>5. CASE RemoveMeta(r)
    <2>1. saved' \in [Names -> Record]
      BY <1>1, <1>5, EmptyTypes DEF RemoveMeta
    <2> QED  BY <1>5, <2>1, EndsKeeps DEF RemoveMeta
  <1> QED  BY <1>2, <1>3, <1>4, <1>5 DEF Concludes

LEMMA CallsKeeps ==
    ASSUME MInv, NEW r \in Runtimes, Calls(r)
    PROVE  Keeps(r)
  <1> USE DEF Calls
  <1>1. PICK n \in Names :
          \/ Wants(r, "create", n) /\ (CreateCgroup(r, n) \/ CreateCgroupFails(r, n))
          \/ Wants(r, "start", n)  /\ (SpawnFails(r, n) \/ \E p \in Pids : Spawn(r, n, p))
          \/ Wants(r, "stop", n)   /\ Stop(r, n)
          \/ Wants(r, "delete", n) /\ Delete(r, n)
          \/ \E op \in Ops : Wants(r, op, n) /\ Refused(r, op, n)
    OBVIOUS
  <1>2. UNCHANGED managerVars
    OBVIOUS
  <1> QED
    BY <1>1, <1>2, CreateCgroupKeeps, CreateCgroupFailsKeeps, SpawnFailsKeeps,
       SpawnKeeps, StopKeeps, DeleteKeeps, RefusedKeeps

LEMMA ProceedsKeeps ==
    ASSUME MInv, NEW r \in Runtimes, Proceeds(r)
    PROVE  Keeps(r)
  BY SetLimitsKeeps, SetLimitsFailsKeeps, AttachKeeps, AttachFailsKeeps,
     ReleaseKeeps, ReleaseFailsKeeps, StartedKeeps, StatusUnreadableKeeps, StartFailsKeeps,
     SignalFailsKeeps, StopForeignKeeps, ReapInGraceKeeps, GraceOverKeeps,
     ReapKilledKeeps, ReapInterruptedKeeps, DestroyKeeps, DestroyFailsKeeps
  DEF Proceeds

-----------------------------------------------------------------------------
(* The child and the kernel *)

\* A child changes by itself: it keeps its parent, or was the Reaper's.
LEMMA ChildKeeps ==
    ASSUME MInv, NEW p \in Pids,
           GateCloses(p) \/ Exec(p) \/ ExecFails(p) \/ NamespaceFails(p) \/ Dies(p),
           UNCHANGED managerVars
    PROVE  MInv'
  <1>1. /\ TypeOK /\ Table /\ proc \in [Pids -> Process] /\ proc[p] \in Process
        /\ UNCHANGED <<cg, slot, job, saved, kind, cmd>>
    BY DEF MInv, TypeOK, ContainerTypeOK, GateCloses, Exec, ExecFails,
           NamespaceFails, Aborts, Dies, managerVars
  <1>2. \E x \in Process :
           /\ proc' = [proc EXCEPT ![p] = x]
           /\ \/ x = FreeProc /\ proc[p].parent = Reaper
              \/ /\ x.parent = proc[p].parent /\ x.of = proc[p].of
                 /\ x.st # "free" /\ proc[p].st # "free"
                 /\ \/ proc[p].st \in {"gated", "released"}
                    \/ x.st = "zombie" /\ x.report = "none"
    <2>1. CASE Exec(p)
      <3> DEFINE x == [proc[p] EXCEPT !.st = "running"]
      <3>1. /\ x \in Process /\ proc' = [proc EXCEPT ![p] = x]
            /\ x.parent = proc[p].parent /\ x.of = proc[p].of /\ x.st # "free"
            /\ proc[p].st = "released"
        BY <1>1, <2>1 DEF Exec, Process
      <3> HIDE DEF x
      <3> QED  BY <3>1
    <2>2. CASE ~Exec(p)
      <3>1. PICK rep \in {"none", "errno"} :
               /\ proc' = [proc EXCEPT ![p] = Ended(p, rep)]
               /\ proc[p].st # "free"
               /\ proc[p].st \in {"gated", "released"} \/ rep = "none"
        BY <2>2 DEF GateCloses, ExecFails, NamespaceFails, Aborts, Dies
      <3>2. CASE proc[p].parent = Reaper
        BY <3>1, <3>2, EmptyTypes DEF Ended
      <3>3. CASE proc[p].parent # Reaper
        <4> DEFINE x == [proc[p] EXCEPT !.st = "zombie", !.report = rep]
        <4>1. /\ x \in Process /\ proc' = [proc EXCEPT ![p] = x]
              /\ x.parent = proc[p].parent /\ x.of = proc[p].of /\ x.st = "zombie"
              /\ x.report = rep
          BY <1>1, <3>1, <3>3 DEF Ended, Process
        <4> HIDE DEF x
        <4> QED  BY <3>1, <4>1
      <3> QED  BY <3>2, <3>3
    <2> QED  BY <2>1, <2>2
  <1>3. PICK x \in Process :
           /\ proc' = [proc EXCEPT ![p] = x]
           /\ \/ x = FreeProc /\ proc[p].parent = Reaper
              \/ /\ x.parent = proc[p].parent /\ x.of = proc[p].of
                 /\ x.st # "free" /\ proc[p].st # "free"
                 /\ \/ proc[p].st \in {"gated", "released"}
                    \/ x.st = "zombie" /\ x.report = "none"
    BY <1>2
  <1>4. /\ proc'[p] = x /\ proc' \in [Pids -> Process]
        /\ \A q \in Pids : q # p => proc'[q] = proc[q]
    BY <1>1, <1>3
  <1>5. TypeOK'
    BY <1>1, <1>4 DEF TypeOK, ContainerTypeOK
  <1>6. FreeProc.st = "free" /\ FreeProc.parent = Reaper
    BY DEF FreeProc
  <1>7. Table'
    BY <1>1, <1>3, <1>4, <1>6 DEF Table
  <1>8. ASSUME NEW s \in Runtimes
        PROVE  Apart(s)
    <2>1. s # Reaper
      BY ContainerAssumption
    <2>2. Untouched(s)
      BY <1>3, <1>4, <1>6, <2>1 DEF Untouched, Settled
    <2> QED  BY <1>1, <2>2 DEF Apart
  <1> QED  BY <1>1, <1>5, <1>7, <1>8, Frame DEF MInv

-----------------------------------------------------------------------------
(* The invariant *)

LEMMA InitMInv == Init => MInv
  <1> SUFFICES ASSUME Init PROVE MInv
    OBVIOUS
  <1>1. TypeOK
    BY EmptyTypes DEF Init, ContainerInit, TypeOK, ContainerTypeOK
  <1>2. Table
    BY DEF Init, ContainerInit, Table, FreeProc
  <1>3. ASSUME NEW r \in Runtimes
        PROVE  RInv(r)
    <2>1. /\ job[r] = NoJob /\ kind[r] = "none" /\ \A n \in Names : slot[r][n] = NoRecord
          /\ \A p \in Pids : proc[p].parent # r
      BY ContainerAssumption DEF Init, ContainerInit, FreeProc
    <2>2. Resting(r) /\ Adopted(r) /\ Owned(r) /\ Tracked(r) /\ Execed(r)
      BY <2>1 DEF Resting, Adopted, Owned, Tracked, Execed
    <2>3. Phase(r)
      BY <2>1 DEF Phase, NoJob, Starting, Stopping
    <2> QED  BY <2>2, <2>3 DEF RInv
  <1> QED  BY <1>1, <1>2, <1>3 DEF MInv

\* Every step preserves the invariant: those of a runtime, be they of a
\* command, a tool or a database process, and those of a workload.
LEMMA NextMInv == MInv /\ [Next]_vars => MInv'
  <1> SUFFICES ASSUME MInv, [Next]_vars PROVE MInv'
    OBVIOUS
  <1>1. ASSUME NEW r \in Runtimes, NEW n \in Names, OpenDb(r, n)
        PROVE  MInv'
    BY <1>1, OpenDbKeeps, Conclude
  <1>2. ASSUME NEW r \in Runtimes, NEW n \in Names, NEW op \in Ops, Command(r, op, n)
        PROVE  MInv'
    BY <1>2, CommandKeeps, Conclude
  <1>3. ASSUME NEW r \in Runtimes, ToolBegins(r) \/ ToolGoesOn(r) \/ Calls(r)
                                   \/ Proceeds(r) \/ Concludes(r)
        PROVE  MInv'
    BY <1>3, ToolBeginsKeeps, ToolGoesOnKeeps, CallsKeeps, ProceedsKeeps, ConcludesKeeps,
       Conclude
  <1>4. ASSUME NEW r \in Runtimes, ToolEnds(r) \/ CloseDb(r) \/ Crash(r)
        PROVE  MInv'
    <2>1. Ends(r) /\ saved' \in [Names -> Record]
      BY <1>4 DEF ToolEnds, CloseDb, Crash, MInv, TypeOK
    <2> QED  BY <2>1, EndsKeeps, Conclude
  <1>5. ASSUME NEW p \in Pids, Child(p) \/ (Dies(p) /\ UNCHANGED managerVars)
        PROVE  MInv'
    BY <1>5, ChildKeeps DEF Child
  <1>6. CASE UNCHANGED vars
    BY <1>6
    DEF vars, containerVars, managerVars, MInv, TypeOK, ContainerTypeOK, Table, RInv,
        Resting, Adopted, Childless, Owned, Phase, Mine, Tracked, Execed, Settled
  <1> QED  BY <1>1, <1>2, <1>3, <1>4, <1>5, <1>6 DEF Next

\* The inductive invariant holds throughout, for any number of runtimes.
THEOREM Invariance == Spec => []MInv
  BY InitMInv, NextMInv, PTL DEF Spec

\* The types of the process table, the cgroups, the registries, the calls and
\* the metadata files.
THEOREM TypeCorrect == Spec => []TypeOK
  <1>1. MInv => TypeOK
    BY DEF MInv
  <1> QED  BY <1>1, Invariance, PTL

\* No call of the runtime leaves a child behind: every child of a runtime is
\* what its call works on, or the recorded process of a RUNNING container.
THEOREM ChildrenRecorded == Spec => []NoStrayChild
  <1>1. MInv => NoStrayChild
    BY DEF MInv, RInv, Tracked, RunsAs, NoStrayChild
  <1> QED  BY <1>1, Invariance, PTL

\* A child recorded as the process of a RUNNING container has execed, or died
\* in silence: container_start never reports a failed exec as success.
THEOREM ExecsReported == Spec => []NoFailedExec
  <1>1. MInv => NoFailedExec
    BY DEF MInv, RInv, Execed, Settled, NoFailedExec
  <1> QED  BY <1>1, Invariance, PTL

\* What a stop or a delete kills and reaps is the workload of its container,
\* although the pid it starts from may have been given away.
THEOREM OnlyOwnKilled == Spec => []KillsOwn
  <1>1. MInv => KillsOwn
    BY StoppingChild DEF KillsOwn, Stopping
  <1> QED  BY <1>1, Invariance, PTL

-----------------------------------------------------------------------------
(* One runtime at a time.  A cgroup without its limits belongs to a create *)
(* that is not over, or never ended: no file and no live record has it, so *)
(* that what is attached is attached to a cgroup with limits, and a cgroup *)
(* with a process in it cannot be removed.  All that as long as the paths  *)
(* in the files are whole: the beginning of one names another directory.   *)

Alone == \A r, s \in Runtimes : r = s

\* A failed write of a file does not leave the beginning of its path.
PathsWhole == "path" \notin Faults

Live == {"CREATED", "RUNNING", "STOPPED"}
Out  == {"released", "running"}

\* The record of a container that exists, as far as it says.
Exists(rec) == rec.state \in Live /\ rec.path = "own"

Kept == \A n \in Names :
    /\ saved[n].state # "DELETED" /\ saved[n].path # "cut"
    /\ Exists(saved[n]) => cg[n] # "bare"

Registered(r) == \A n \in Names :
    /\ slot[r][n].path # "cut"
    /\ Exists(slot[r][n]) => cg[n] # "bare"

Dead(r) == \A n \in Names : slot[r][n].state = "DELETED" =>
    \A p \in Pids : ~(proc[p].of = n /\ proc[p].st \in Out)

\* A command that will create found no file.
Unsaved(r) == kind[r] = "cli" /\ cmd[r].op = "create" /\ Idle(r) =>
    saved[cmd[r].name] = NoRecord

\* What is written to a file is the record of a container that exists.
Succeeded(r) == job[r].pc = "write" \/ (job[r].pc = "ok" /\ job[r].op # "delete") =>
    Mine(r).state \in Live

\* What is about to be released is confined.
AtGate(r) == job[r].pc = "release" =>
    /\ proc[job[r].pid].st = "gated" => proc[job[r].pid].member = job[r].name
    /\ cg[job[r].name] = "limited"

Placed(r) == Unsaved(r) /\ Succeeded(r) /\ AtGate(r)

CInv ==
    /\ MInv
    /\ Kept
    /\ Confined
    /\ \A r \in Runtimes : Registered(r) /\ Dead(r) /\ Placed(r)

\* No process gets past its gate or leaves its cgroup.
Gentle == \A p \in Pids : proc'[p].st \in Out =>
    /\ proc[p].st \in Out
    /\ proc'[p].of = proc[p].of
    /\ proc'[p].member \in {proc[p].member, proc[p].of}

\* No record comes to life, loses half its path or is deleted.
Mild(r) == \A n \in Names :
    /\ Exists(slot'[r][n]) => Exists(slot[r][n])
    /\ slot'[r][n].path = "cut" => slot[r][n].path = "cut"
    /\ slot'[r][n].state = "DELETED" => slot[r][n].state = "DELETED"

\* A step that changes no cgroup.
LEMMA Saving ==
    ASSUME Alone, CInv, MInv', NEW r \in Runtimes,
           cg' = cg, Kept', Gentle, Mild(r), Placed(r)'
    PROVE  CInv'
  <1>1. \A s \in Runtimes : s = r
    BY DEF Alone
  <1>2. Confined'
    BY DEF CInv, Confined, Gentle, Out
  <1>3. Registered(r)'
    BY DEF CInv, Registered, Mild
  <1>4. Dead(r)'
    BY DEF CInv, Dead, Mild, Gentle
  <1> QED  BY <1>1, <1>2, <1>3, <1>4 DEF CInv

\* A step that changes neither cgroups nor files.
LEMMA Quietly ==
    ASSUME Alone, CInv, MInv', NEW r \in Runtimes,
           cg' = cg, saved' = saved, Gentle, Mild(r), Placed(r)'
    PROVE  CInv'
  <1>1. Kept'
    BY DEF CInv, Kept
  <1> QED  BY <1>1, Saving

\* The place a call has reached, when it is one of which nothing is said.
LEMMA PlacedThere ==
    ASSUME MInv, NEW r \in Runtimes, NEW op, NEW n, NEW p,
           NEW pc \in {"limits", "attach", "status", "await", "grace", "reap", "destroy", "error"},
           At(r, op, n, pc, p)
    PROVE  Placed(r)'
  <1>1. job'[r] = [pc |-> pc, op |-> op, name |-> n, pid |-> p]
    BY Reached
  <1> QED  BY <1>1 DEF Placed, Unsaved, Succeeded, AtGate, Idle

LEMMA PlacedOk ==
    ASSUME MInv, NEW r \in Runtimes, NEW op, NEW n \in Names,
           At(r, op, n, "ok", NoPid), op = "delete" \/ slot'[r][n].state \in Live
    PROVE  Placed(r)'
  <1>1. job'[r] = [pc |-> "ok", op |-> op, name |-> n, pid |-> NoPid]
    BY Reached
  <1> QED  BY <1>1 DEF Placed, Unsaved, Succeeded, AtGate, Idle, Mine

LEMMA MildSame ==
    ASSUME NEW r \in Runtimes, slot' = slot
    PROVE  Mild(r)
  BY DEF Mild

LEMMA MildRecord ==
    ASSUME MInv, NEW r \in Runtimes, NEW n \in Names, NEW rec,
           slot' = [slot EXCEPT ![r][n] = rec],
           rec.path = slot[r][n].path,
           rec.state = slot[r][n].state \/ (rec.state \in Live /\ slot[r][n].state \in Live)
    PROVE  Mild(r) /\ slot'[r][n] = rec
  <1>1. /\ slot'[r][n] = rec
        /\ \A m \in Names : m # n => slot'[r][m] = slot[r][m]
    BY DEF MInv, TypeOK, ContainerTypeOK
  <1> QED  BY <1>1 DEF Mild, Exists, Live

LEMMA GentleSame ==
    ASSUME proc' = proc
    PROVE  Gentle
  BY DEF Gentle

LEMMA GentleChange ==
    ASSUME MInv, NEW p \in Pids, NEW x, proc' = [proc EXCEPT ![p] = x],
           x.st \notin Out \/ (/\ proc[p].st \in Out
                               /\ x.of = proc[p].of /\ x.member = proc[p].member)
    PROVE  Gentle
  <1>1. proc'[p] = x /\ \A q \in Pids : q # p => proc'[q] = proc[q]
    BY DEF MInv, TypeOK, ContainerTypeOK
  <1> QED  BY <1>1 DEF Gentle

-----------------------------------------------------------------------------
(* The steps that change no cgroup *)

LEMMA RefusalsQuiet ==
    ASSUME Alone, CInv, MInv', NEW r \in Runtimes, NEW op, NEW n \in Names,
           Refused(r, op, n) \/ CreateCgroupFails(r, n) \/ SpawnFails(r, n),
           UNCHANGED managerVars
    PROVE  CInv'
  <1>1. MInv /\ proc' = proc /\ cg' = cg /\ slot' = slot /\ saved' = saved
    BY DEF CInv, Refused, CreateCgroupFails, SpawnFails, osVars, managerVars
  <1>2. \E o : At(r, o, n, "error", NoPid)
    BY DEF Refused, CreateCgroupFails, SpawnFails
  <1>3. Placed(r)'
    BY <1>1, <1>2, PlacedThere
  <1> QED  BY <1>1, <1>3, GentleSame, MildSame, Quietly

LEMMA FailuresQuiet ==
    ASSUME Alone, CInv, MInv', NEW r \in Runtimes, DestroyFails(r) \/ StatusUnreadable(r),
           UNCHANGED managerVars
    PROVE  CInv'
  <1>1. MInv /\ proc' = proc /\ cg' = cg /\ slot' = slot /\ saved' = saved
    BY DEF CInv, DestroyFails, StatusUnreadable, osVars, managerVars
  <1>2. \/ At(r, job[r].op, job[r].name, "error", NoPid)
        \/ At(r, "start", job[r].name, "await", job[r].pid)
    BY DEF DestroyFails, StatusUnreadable, Return
  <1>3. Placed(r)'
    BY <1>1, <1>2, PlacedThere
  <1> QED  BY <1>1, <1>3, GentleSame, MildSame, Quietly

LEMMA SpawnQuiet ==
    ASSUME Alone, CInv, MInv', NEW r \in Runtimes, NEW n \in Names, NEW p \in Pids,
           Spawn(r, n, p), UNCHANGED managerVars
    PROVE  CInv'
  <1> DEFINE x == [st |-> "gated", parent |-> r, of |-> n, member |-> NoName, report |-> "none"]
  <1>1. /\ MInv /\ cg' = cg /\ slot' = slot /\ saved' = saved
        /\ proc' = [proc EXCEPT ![p] = x]
        /\ At(r, "start", n, "attach", p)
    BY DEF CInv, Spawn, managerVars
  <1>2. x.st \notin Out
    BY DEF Out
  <1> HIDE DEF x
  <1>3. Gentle
    BY <1>1, <1>2, GentleChange
  <1>4. Placed(r)'
    BY <1>1, PlacedThere
  <1> QED  BY <1>1, <1>3, <1>4, MildSame, Quietly

LEMMA StopQuiet ==
    ASSUME Alone, CInv, MInv', NEW r \in Runtimes, NEW n \in Names,
           Stop(r, n), UNCHANGED managerVars
    PROVE  CInv'
  <1>1. /\ MInv /\ proc' = proc /\ cg' = cg /\ saved' = saved
        /\ slot[r][n].state = "RUNNING" /\ slot[r][n] \in Record
    BY Typing DEF CInv, MInv, Stop, CanStop, osVars, managerVars
  <1>2. CASE slot[r][n].pid # NoPid
    <2>1. slot' = slot /\ At(r, "stop", n, "grace", slot[r][n].pid)
      BY <1>2 DEF Stop
    <2>2. Placed(r)'
      BY <1>1, <2>1, PlacedThere
    <2> QED  BY <1>1, <2>1, <2>2, GentleSame, MildSame, Quietly
  <1>3. CASE slot[r][n].pid = NoPid
    <2> DEFINE rec == [slot[r][n] EXCEPT !.state = "STOPPED"]
    <2>1. slot' = [slot EXCEPT ![r][n] = rec] /\ At(r, "stop", n, "ok", NoPid)
      BY <1>3 DEF Stop
    <2>2. rec.path = slot[r][n].path /\ rec.state \in Live /\ slot[r][n].state \in Live
      BY <1>1 DEF Record, Live
    <2> HIDE DEF rec
    <2>3. Mild(r) /\ slot'[r][n] = rec
      BY <1>1, <2>1, <2>2, MildRecord
    <2>4. Placed(r)'
      BY <1>1, <2>1, <2>2, <2>3, PlacedOk
    <2> QED  BY <1>1, <2>3, <2>4, GentleSame, Quietly
  <1> QED  BY <1>2, <1>3

LEMMA DeleteQuiet ==
    ASSUME Alone, CInv, MInv', NEW r \in Runtimes, NEW n \in Names,
           Delete(r, n), UNCHANGED managerVars
    PROVE  CInv'
  <1>1. /\ MInv /\ proc' = proc /\ cg' = cg /\ saved' = saved /\ slot[r][n] \in Record
    BY Typing DEF CInv, MInv, Delete, osVars, managerVars
  <1>2. CASE slot[r][n].pid # NoPid /\ Alive(slot[r][n].pid)
    <2>1. slot' = slot /\ At(r, "delete", n, "grace", slot[r][n].pid)
      BY <1>2 DEF Delete
    <2>2. Placed(r)'
      BY <1>1, <2>1, PlacedThere
    <2> QED  BY <1>1, <2>1, <2>2, GentleSame, MildSame, Quietly
  <1>3. CASE ~(slot[r][n].pid # NoPid /\ Alive(slot[r][n].pid))
    <2> DEFINE rec == [slot[r][n] EXCEPT !.pid = NoPid]
    <2>1. slot' = [slot EXCEPT ![r][n] = rec] /\ At(r, "delete", n, "destroy", NoPid)
      BY <1>3 DEF Delete
    <2>2. rec.path = slot[r][n].path /\ rec.state = slot[r][n].state
      BY <1>1 DEF Record
    <2> HIDE DEF rec
    <2>3. Mild(r)
      BY <1>1, <2>1, <2>2, MildRecord
    <2>4. Placed(r)'
      BY <1>1, <2>1, PlacedThere
    <2> QED  BY <1>1, <2>3, <2>4, GentleSame, Quietly
  <1> QED  BY <1>2, <1>3

\* process_stop returns; the process, if it was a child, has been reaped.
LEMMA StoppedQuiet ==
    ASSUME Alone, CInv, MInv', NEW r \in Runtimes, job[r].pc \in Stopping,
           Stopped(r), Gentle, cg' = cg, UNCHANGED managerVars
    PROVE  CInv'
  <1> DEFINE n == job[r].name
  <1>1. /\ MInv /\ saved' = saved
    BY DEF CInv, managerVars
  <1>2. /\ n \in Names /\ Mine(r) = slot[r][n] /\ slot[r][n] \in Record
    BY <1>1, Underway DEF Stopping
  <1>3. job[r].op \in {"stop", "delete"} /\ slot[r][n].state \in Stoppable(job[r].op)
    BY <1>1, <1>2 DEF MInv, RInv, Phase
  <1>4. CASE job[r].op = "stop"
    <2> DEFINE rec == [slot[r][n] EXCEPT !.state = "STOPPED", !.pid = NoPid]
    <2>1. slot' = [slot EXCEPT ![r][n] = rec] /\ At(r, job[r].op, n, "ok", NoPid)
      BY <1>2, <1>4 DEF Stopped, SetMine, Return
    <2>2. rec.path = slot[r][n].path /\ rec.state \in Live /\ slot[r][n].state \in Live
      BY <1>2, <1>3, <1>4 DEF Record, Stoppable, Live
    <2> HIDE DEF rec
    <2>3. Mild(r) /\ slot'[r][n] = rec
      BY <1>1, <1>2, <2>1, <2>2, MildRecord
    <2>4. Placed(r)'
      BY <1>1, <1>2, <2>1, <2>2, <2>3, PlacedOk
    <2> QED  BY <1>1, <2>3, <2>4, Quietly
  <1>5. CASE job[r].op = "delete"
    <2> DEFINE rec == [slot[r][n] EXCEPT !.pid = NoPid]
    <2>1. slot' = [slot EXCEPT ![r][n] = rec] /\ At(r, "delete", n, "destroy", NoPid)
      BY <1>2, <1>5 DEF Stopped, SetMine
    <2>2. rec.path = slot[r][n].path /\ rec.state = slot[r][n].state
      BY <1>2 DEF Record
    <2> HIDE DEF rec
    <2>3. Mild(r)
      BY <1>1, <1>2, <2>1, <2>2, MildRecord
    <2>4. Placed(r)'
      BY <1>1, <2>1, PlacedThere
    <2> QED  BY <1>1, <2>3, <2>4, Quietly
  <1> QED  BY <1>3, <1>4, <1>5

LEMMA FreeNotOut == FreeProc.st \notin Out
  BY DEF FreeProc, Out

LEMMA StopsQuiet ==
    ASSUME Alone, CInv, MInv', NEW r \in Runtimes,
           \/ StopForeign(r) \/ SignalFails(r) \/ ReapInGrace(r)
           \/ ReapKilled(r) \/ ReapInterrupted(r),
           UNCHANGED managerVars
    PROVE  CInv'
  <1>1. /\ MInv /\ saved' = saved /\ cg' = cg /\ job[r].pc \in Stopping
    BY DEF CInv, StopForeign, SignalFails, ReapInGrace, ReapKilled, ReapInterrupted,
           managerVars, osVars, Stopping
  <1>2. job[r].pid \in Pids
    BY <1>1 DEF MInv, RInv, Phase
  <1>3. Gentle
    <2>1. proc' = proc \/ proc' = [proc EXCEPT ![job[r].pid] = FreeProc]
      BY DEF StopForeign, SignalFails, ReapInGrace, ReapKilled, ReapInterrupted, osVars
    <2> QED  BY <1>1, <1>2, <2>1, GentleSame, GentleChange, FreeNotOut
  <1>4. CASE Stopped(r)
    BY <1>1, <1>3, <1>4, StoppedQuiet
  <1>5. CASE ~Stopped(r)
    <2>1. slot' = slot /\ At(r, job[r].op, job[r].name, "error", NoPid)
      BY <1>5 DEF StopForeign, SignalFails, ReapInGrace, ReapKilled, ReapInterrupted,
                  NotStopped, Return
    <2>2. Placed(r)'
      BY <1>1, <2>1, PlacedThere
    <2> QED  BY <1>1, <1>3, <2>1, <2>2, MildSame, Quietly
  <1> QED  BY <1>4, <1>5

LEMMA GraceOverQuiet ==
    ASSUME Alone, CInv, MInv', NEW r \in Runtimes, GraceOver(r), UNCHANGED managerVars
    PROVE  CInv'
  <1> DEFINE p == job[r].pid
             x == [proc[p] EXCEPT !.st = "zombie", !.report = proc[p].report]
  <1>1. /\ MInv /\ saved' = saved /\ cg' = cg /\ slot' = slot /\ job[r].pc \in Stopping
        /\ proc[p].parent = r /\ At(r, job[r].op, job[r].name, "reap", p)
    BY DEF CInv, GraceOver, managerVars, Stopping
  <1>2. p \in Pids /\ proc[p] \in Process
    BY <1>1, StoppingChild, Typing DEF MInv
  <1>3. proc' = [proc EXCEPT ![p] = x]
    BY <1>1, ContainerAssumption DEF GraceOver, Ended
  <1>4. x.st \notin Out
    BY <1>2 DEF Process, Out
  <1> HIDE DEF x
  <1>5. Gentle
    BY <1>1, <1>2, <1>3, <1>4, GentleChange
  <1>6. Placed(r)'
    BY <1>1, PlacedThere
  <1> QED  BY <1>1, <1>5, <1>6, MildSame, Quietly

LEMMA StartFailuresQuiet ==
    ASSUME Alone, CInv, MInv', NEW r \in Runtimes,
           AttachFails(r) \/ ReleaseFails(r) \/ StartFails(r), UNCHANGED managerVars
    PROVE  CInv'
  <1> DEFINE n   == job[r].name
             rec == [slot[r][n] EXCEPT !.pid = NoPid]
  <1>1. /\ MInv /\ saved' = saved /\ cg' = cg /\ job[r].pc \in Starting
        /\ proc' = [proc EXCEPT ![job[r].pid] = FreeProc]
        /\ At(r, job[r].op, n, "error", NoPid)
    BY DEF CInv, AttachFails, ReleaseFails, StartFails, managerVars, Starting, Return
  <1>2. /\ n \in Names /\ Mine(r) = slot[r][n] /\ slot[r][n] \in Record
        /\ job[r].pid \in Pids
    BY <1>1, Underway, StartingChild DEF Starting
  <1>3. slot' = [slot EXCEPT ![r][n] = rec]
    BY <1>2 DEF AttachFails, ReleaseFails, StartFails, SetMine
  <1>4. rec.path = slot[r][n].path /\ rec.state = slot[r][n].state
    BY <1>2 DEF Record
  <1> HIDE DEF rec
  <1>5. Mild(r)
    BY <1>1, <1>2, <1>3, <1>4, MildRecord
  <1>6. Gentle
    BY <1>1, <1>2, GentleChange, FreeNotOut
  <1>7. Placed(r)'
    BY <1>1, PlacedThere
  <1> QED  BY <1>1, <1>5, <1>6, <1>7, Quietly

LEMMA StartedQuiet ==
    ASSUME Alone, CInv, MInv', NEW r \in Runtimes, Started(r), UNCHANGED managerVars
    PROVE  CInv'
  <1> DEFINE n   == job[r].name
             rec == [slot[r][n] EXCEPT !.state = "RUNNING", !.pid = job[r].pid]
  <1>1. /\ MInv /\ saved' = saved /\ cg' = cg /\ proc' = proc /\ job[r].pc \in Starting
        /\ At(r, job[r].op, n, "ok", NoPid)
    BY DEF CInv, Started, managerVars, osVars, Starting, Return
  <1>2. /\ n \in Names /\ Mine(r) = slot[r][n] /\ slot[r][n] \in Record
        /\ slot[r][n].state \in Live
    BY <1>1, Underway, StartingChild DEF Starting, Live
  <1>3. slot' = [slot EXCEPT ![r][n] = rec]
    BY <1>2 DEF Started, SetMine
  <1>4. rec.path = slot[r][n].path /\ rec.state \in Live
    BY <1>2 DEF Record, Live
  <1> HIDE DEF rec
  <1>5. Mild(r) /\ slot'[r][n] = rec
    BY <1>1, <1>2, <1>3, <1>4, MildRecord
  <1>6. Placed(r)'
    BY <1>1, <1>2, <1>4, <1>5, PlacedOk
  <1> QED  BY <1>1, <1>5, <1>6, GentleSame, Quietly

-----------------------------------------------------------------------------
(* The steps that matter to the cgroup and to who is in it *)

\* Who is past the gate is listed in cgroup.procs.
LEMMA OutListed ==
    ASSUME CInv, NEW p \in Pids, proc[p].st \in Out
    PROVE  p \in Procs(proc[p].of) /\ cg[proc[p].of] = "limited"
  BY DEF CInv, Confined, Procs, Out

\* The cgroup of n becomes c, and nothing that is past its gate is in it.
LEMMA Regroups ==
    ASSUME Alone, CInv, MInv', NEW r \in Runtimes, NEW n \in Names, NEW c,
           cg' = [cg EXCEPT ![n] = c], proc' = proc, saved' = saved,
           c = "limited" \/ \A p \in Pids : ~(proc[p].of = n /\ proc[p].st \in Out),
           c = "bare" => ~Exists(saved[n]),
           Registered(r)', Dead(r)', Placed(r)'
    PROVE  CInv'
  <1>1. cg'[n] = c /\ \A m \in Names : m # n => cg'[m] = cg[m]
    BY DEF CInv, MInv, TypeOK, ContainerTypeOK
  <1>2. Kept'
    BY <1>1 DEF CInv, Kept
  <1>3. \A p \in Pids : proc[p].st \in Out => proc[p].of \in Names
    BY DEF CInv, MInv, Table, Out
  <1>4. Confined'
    BY <1>1, <1>3 DEF CInv, Confined, Out
  <1>5. \A s \in Runtimes : s = r
    BY DEF Alone
  <1> QED  BY <1>2, <1>4, <1>5 DEF CInv

LEMMA CreateCgroupConfines ==
    ASSUME Alone, CInv, MInv', NEW r \in Runtimes, NEW n \in Names,
           Wants(r, "create", n), CreateCgroup(r, n), UNCHANGED managerVars
    PROVE  CInv'
  <1> DEFINE c == IF cg[n] = "absent" THEN "bare" ELSE cg[n]
  <1>1. /\ MInv /\ proc' = proc /\ slot' = slot /\ saved' = saved /\ job[r].pc = "idle"
        /\ cg' = [cg EXCEPT ![n] = c]
        /\ slot[r][n].state \in {"none", "DELETED"}
        /\ At(r, "create", n, "limits", NoPid)
    BY DEF CInv, CreateCgroup, CanCreate, Idle, managerVars
  <1>2. Placed(r)'
    BY <1>1, PlacedThere
  <1>3. ~Exists(saved[n]) /\ ~Exists(slot[r][n])
    <2>1. saved[n] = NoRecord
      <3>1. CASE kind[r] = "cli" /\ cmd[r] = [op |-> "create", name |-> n]
        <4>1. cmd[r].op = "create" /\ cmd[r].name = n
          BY <3>1
        <4> QED  BY <1>1, <3>1, <4>1 DEF CInv, Placed, Unsaved, Idle
      <3> QED  BY <3>1 DEF Wants
    <2> QED  BY <1>1, <2>1 DEF Exists, NoRecord, Live
  <1>4. c = "limited" \/ \A p \in Pids : ~(proc[p].of = n /\ proc[p].st \in Out)
    BY OutListed
  <1> HIDE DEF c
  <1>5. \A m \in Names : m # n => cg'[m] = cg[m]
    BY <1>1 DEF MInv, TypeOK, ContainerTypeOK
  <1>6. Registered(r)'
    BY <1>1, <1>3, <1>5 DEF CInv, Registered
  <1>7. Dead(r)'
    BY <1>1 DEF CInv, Dead
  <1> QED  BY <1>1, <1>2, <1>3, <1>4, <1>6, <1>7, Regroups

LEMMA SetLimitsConfines ==
    ASSUME Alone, CInv, MInv', NEW r \in Runtimes, SetLimits(r), UNCHANGED managerVars
    PROVE  CInv'
  <1> DEFINE n   == job[r].name
             rec == [state |-> "CREATED", pid |-> NoPid, path |-> "own"]
  <1>1. /\ MInv /\ proc' = proc /\ saved' = saved /\ job[r].pc = "limits"
        /\ cg' = [cg EXCEPT ![n] = "limited"]
        /\ slot' = [slot EXCEPT ![r][n] = rec]
        /\ At(r, job[r].op, n, "ok", NoPid)
        /\ rec.state = "CREATED" /\ rec.path = "own"
    BY DEF CInv, SetLimits, SetMine, Return, managerVars
  <1> HIDE DEF rec
  <1>2. n \in Names
    BY <1>1, Underway
  <1>3. /\ cg'[n] = "limited" /\ slot'[r][n] = rec
        /\ \A m \in Names : m # n => cg'[m] = cg[m] /\ slot'[r][m] = slot[r][m]
    BY <1>1, <1>2 DEF MInv, TypeOK, ContainerTypeOK
  <1>4. Placed(r)'
    BY <1>1, <1>2, <1>3, PlacedOk DEF Live
  <1>5. Registered(r)'
    BY <1>1, <1>3 DEF CInv, Registered
  <1>6. Dead(r)'
    BY <1>1, <1>3 DEF CInv, Dead
  <1> QED  BY <1>1, <1>2, <1>4, <1>5, <1>6, Regroups

LEMMA SetLimitsFailsConfines ==
    ASSUME Alone, CInv, MInv', NEW r \in Runtimes, SetLimitsFails(r), UNCHANGED managerVars
    PROVE  CInv'
  <1> DEFINE n == job[r].name
  <1>1. /\ MInv /\ proc' = proc /\ slot' = slot /\ saved' = saved /\ job[r].pc = "limits"
        /\ At(r, job[r].op, n, "error", NoPid)
    BY DEF CInv, SetLimitsFails, Return, managerVars
  <1>2. n \in Names
    BY <1>1, Underway
  <1>3. Placed(r)'
    BY <1>1, PlacedThere
  <1>4. CASE cg' = cg
    BY <1>1, <1>3, <1>4, GentleSame, MildSame, Quietly
  <1>5. CASE cg' # cg
    <2>1. PICK gone \in BOOLEAN :
             /\ gone => Procs(n) = {}
             /\ cg' = [cg EXCEPT ![n] = IF gone THEN "absent" ELSE cg[n]]
      BY DEF SetLimitsFails
    <2>2. gone
      BY <1>5, <2>1 DEF MInv, TypeOK, ContainerTypeOK, CInv
    <2>3. Procs(n) = {} /\ cg' = [cg EXCEPT ![n] = "absent"]
      BY <2>1, <2>2
    <2>4. \A p \in Pids : ~(proc[p].of = n /\ proc[p].st \in Out)
      BY <2>3, OutListed
    <2>5. \A m \in Names : cg'[m] = "bare" => cg[m] = "bare"
      BY <1>1, <1>2, <2>3 DEF MInv, TypeOK, ContainerTypeOK
    <2>6. Registered(r)' /\ Dead(r)'
      BY <1>1, <2>5 DEF CInv, Registered, Dead
    <2> QED  BY <1>1, <1>2, <1>3, <2>3, <2>4, <2>6, Regroups
  <1> QED  BY <1>4, <1>5

LEMMA DestroyConfines ==
    ASSUME Alone, CInv, MInv', NEW r \in Runtimes, Destroy(r), UNCHANGED managerVars
    PROVE  CInv'
  <1> DEFINE n   == job[r].name
             rec == [slot[r][n] EXCEPT !.state = "DELETED"]
  <1>1. /\ MInv /\ proc' = proc /\ saved' = saved /\ job[r].pc = "destroy"
        /\ At(r, job[r].op, n, "ok", NoPid)
    BY DEF CInv, Destroy, Return, managerVars
  <1>2. n \in Names /\ Mine(r) = slot[r][n] /\ slot[r][n] \in Record /\ job[r].op = "delete"
    BY <1>1, Underway DEF MInv, RInv, Phase
  <1>0. cg' = [cg EXCEPT ![n] = "absent"] /\ Procs(n) = {} /\ slot[r][n].path # "cut"
    <2>1. PICK d \in Named(r) : /\ d \in Names => Procs(d) = {}
                                /\ cg' = [m \in Names |-> IF m = d THEN "absent" ELSE cg[m]]
      BY DEF Destroy
    <2>2. slot[r][n].path # "cut"
      BY <1>2 DEF CInv, Registered
    <2>3. d = n
      BY <1>2, <2>1, <2>2 DEF Named, Record
    <2>4. cg \in [Names -> {"absent", "bare", "limited"}]
      BY <1>1 DEF MInv, TypeOK, ContainerTypeOK
    <2>5. cg' = [cg EXCEPT ![n] = "absent"]
      BY <1>2, <2>1, <2>3, <2>4
    <2> QED  BY <1>2, <2>1, <2>2, <2>3, <2>5
  <1>3. /\ slot' = [slot EXCEPT ![r][n] = rec]
        /\ rec.state = "DELETED" /\ rec.path = slot[r][n].path
    BY <1>2 DEF Destroy, SetMine, Record
  <1> HIDE DEF rec
  <1>4. /\ cg'[n] = "absent" /\ slot'[r][n] = rec
        /\ \A m \in Names : m # n => cg'[m] = cg[m] /\ slot'[r][m] = slot[r][m]
    BY <1>0, <1>1, <1>2, <1>3 DEF MInv, TypeOK, ContainerTypeOK
  <1>5. \A p \in Pids : ~(proc[p].of = n /\ proc[p].st \in Out)
    BY <1>0, OutListed
  <1>6. Placed(r)'
    BY <1>1, <1>2, PlacedOk
  <1>7. Registered(r)'
    BY <1>0, <1>3, <1>4 DEF CInv, Registered
  <1>8. Dead(r)'
    BY <1>1, <1>4, <1>5 DEF CInv, Dead
  <1> QED  BY <1>0, <1>1, <1>2, <1>5, <1>6, <1>7, <1>8, Regroups

LEMMA AttachConfines ==
    ASSUME Alone, CInv, MInv', NEW r \in Runtimes, Attach(r), UNCHANGED managerVars
    PROVE  CInv'
  <1> DEFINE n == job[r].name
             p == job[r].pid
  <1>1. /\ MInv /\ saved' = saved /\ cg' = cg /\ slot' = slot /\ job[r].pc \in Starting
        /\ At(r, "start", n, "release", p)
    BY DEF CInv, Attach, managerVars, Starting
  <1>2. /\ n \in Names /\ Mine(r) = slot[r][n] /\ slot[r][n].state \in Live
        /\ p \in Pids /\ proc[p] \in Process /\ proc[p].of = n /\ slot[r][n] \in Record
    BY <1>1, Underway, StartingChild, Typing DEF MInv, Starting, Live
  <1> DEFINE x == [proc[p] EXCEPT !.member = IF proc[p].st = "zombie" THEN @ ELSE n]
  <1>0. /\ proc' = [proc EXCEPT ![p] = x]
        /\ slot[r][n].path = "own" /\ cg[n] # "absent"
    <2>1. PICK d \in Named(r) :
             /\ d \in Names => cg[d] # "absent"
             /\ proc' = [proc EXCEPT ![p].member = IF proc[p].st = "zombie" THEN @ ELSE d]
      BY DEF Attach
    <2>2. slot[r][n].path # "cut"
      BY <1>2 DEF CInv, Registered
    <2>3. d = n /\ slot[r][n].path = "own"
      BY <1>2, <2>1, <2>2 DEF Named, Record
    <2> QED  BY <1>2, <2>1, <2>3
  <1>3. /\ x.st = proc[p].st /\ x.of = n
        /\ x.member = IF proc[p].st = "zombie" THEN proc[p].member ELSE n
    BY <1>2 DEF Process
  <1> HIDE DEF x
  <1>4. proc'[p] = x /\ \A q \in Pids : q # p => proc'[q] = proc[q]
    BY <1>0, <1>1, <1>2 DEF MInv, TypeOK, ContainerTypeOK
  <1>5. Gentle
    BY <1>2, <1>3, <1>4 DEF Gentle
  <1>6. cg[n] = "limited"
    <2>1. cg[n] # "bare"
      BY <1>0, <1>2 DEF CInv, Registered, Exists
    <2>2. cg[n] \in {"absent", "bare", "limited"}
      BY <1>1, <1>2 DEF MInv, TypeOK, ContainerTypeOK
    <2> QED  BY <1>0, <2>1, <2>2
  <1>7. job'[r] = [pc |-> "release", op |-> "start", name |-> n, pid |-> p]
    BY <1>1, Reached
  <1>8. /\ job'[r].pc = "release" /\ job'[r].pid = p /\ job'[r].name = n
    BY <1>7
  <1>9. proc'[p].st = "gated" => proc'[p].member = n
    BY <1>3, <1>4
  <1>10. AtGate(r)'
    BY <1>1, <1>6, <1>8, <1>9 DEF AtGate
  <1>11. Placed(r)'
    BY <1>8, <1>10 DEF Placed, Unsaved, Succeeded, Idle
  <1> QED  BY <1>1, <1>5, <1>11, MildSame, Quietly

LEMMA ReleaseConfines ==
    ASSUME Alone, CInv, MInv', NEW r \in Runtimes, Release(r), UNCHANGED managerVars
    PROVE  CInv'
  <1> DEFINE n == job[r].name
             p == job[r].pid
             x == [proc[p] EXCEPT !.st = "released"]
  <1>1. /\ MInv /\ saved' = saved /\ cg' = cg /\ slot' = slot
        /\ job[r].pc = "release" /\ job[r].pc \in Starting
        /\ proc' = [proc EXCEPT ![p] = x] /\ proc[p].st = "gated"
        /\ At(r, "start", n, "status", p)
    BY DEF CInv, Release, managerVars, Starting
  <1>2. /\ slot[r][n].state \in {"CREATED", "STOPPED"}
        /\ p \in Pids /\ proc[p] \in Process /\ proc[p].of = n
    BY <1>1, StartingChild, Typing DEF MInv
  <1>3. x.of = n /\ x.member = proc[p].member
    BY <1>2 DEF Process
  <1> HIDE DEF x
  <1>4. proc'[p] = x /\ \A q \in Pids : q # p => proc'[q] = proc[q]
    BY <1>1, <1>2 DEF MInv, TypeOK, ContainerTypeOK
  <1>5. proc[p].member = n /\ cg[n] = "limited"
    BY <1>1 DEF CInv, Placed, AtGate
  <1>6. Confined'
    <2> SUFFICES ASSUME NEW q \in Pids, proc'[q].st \in {"released", "running"}
                 PROVE  proc'[q].member = proc'[q].of /\ cg[proc'[q].of] = "limited"
      BY <1>1 DEF Confined
    <2>1. CASE q = p
      BY <1>3, <1>4, <1>5, <2>1
    <2>2. CASE q # p
      BY <1>4, <2>2 DEF CInv, Confined
    <2> QED  BY <2>1, <2>2
  <1>7. Dead(r)'
    BY <1>1, <1>2, <1>3, <1>4 DEF CInv, Dead
  <1>8. Kept' /\ Registered(r)'
    BY <1>1 DEF CInv, Kept, Registered
  <1>9. Placed(r)'
    BY <1>1, PlacedThere
  <1>10. \A s \in Runtimes : s = r
    BY DEF Alone
  <1> QED  BY <1>6, <1>7, <1>8, <1>9, <1>10 DEF CInv

-----------------------------------------------------------------------------
(* The processes and their files *)

LEMMA CommandConfines ==
    ASSUME Alone, CInv, MInv', NEW r \in Runtimes, NEW op \in Ops, NEW n \in Names,
           Command(r, op, n)
    PROVE  CInv'
  <1>1. /\ MInv /\ proc' = proc /\ cg' = cg /\ job' = job /\ saved' = saved
        /\ kind[r] = "none" /\ cmd' = [cmd EXCEPT ![r] = [op |-> op, name |-> n]]
    BY DEF CInv, Command, Begins
  <1>2. job[r] = NoJob
    BY <1>1, RestingChildless
  <1>3. cmd'[r].op = op /\ cmd'[r].name = n
    BY <1>1 DEF MInv, TypeOK
  <1>4. \A m \in Names : slot'[r][m] = slot[r][m] \/ slot'[r][m] = saved[m]
    BY <1>1 DEF Command, MInv, TypeOK, ContainerTypeOK
  <1>5. Registered(r)'
    BY <1>1, <1>4 DEF CInv, Registered, Kept
  <1>6. Dead(r)'
    BY <1>1, <1>4 DEF CInv, Dead, Kept
  <1>7. Placed(r)'
    <2>1. op = "create" => saved[n] = NoRecord
      BY DEF Command
    <2> QED
      BY <1>1, <1>2, <1>3, <2>1 DEF Placed, Unsaved, Succeeded, AtGate, NoJob
  <1>8. Kept' /\ Confined'
    BY <1>1 DEF CInv, Kept, Confined
  <1>9. \A s \in Runtimes : s = r
    BY DEF Alone
  <1> QED  BY <1>5, <1>6, <1>7, <1>8, <1>9 DEF CInv

LEMMA BeginningsQuiet ==
    ASSUME Alone, CInv, MInv', NEW r \in Runtimes,
           ToolBegins(r) \/ \E n \in Names : OpenDb(r, n)
    PROVE  CInv'
  <1>1. /\ MInv /\ proc' = proc /\ cg' = cg /\ job' = job /\ slot' = slot /\ saved' = saved
        /\ kind[r] = "none"
    BY DEF CInv, ToolBegins, OpenDb, Begins
  <1>2. kind'[r] # "cli"
    BY <1>1 DEF MInv, TypeOK, ToolBegins, OpenDb, Begins
  <1>3. job'[r] = NoJob
    BY <1>1, RestingChildless
  <1>4. Placed(r)'
    BY <1>2, <1>3 DEF Placed, Unsaved, Succeeded, AtGate, NoJob
  <1> QED  BY <1>1, <1>4, GentleSame, MildSame, Quietly

LEMMA ToolGoesOnQuiet ==
    ASSUME Alone, CInv, MInv', NEW r \in Runtimes, ToolGoesOn(r)
    PROVE  CInv'
  <1>1. /\ MInv /\ proc' = proc /\ cg' = cg /\ slot' = slot /\ saved' = saved
        /\ kind'[r] = "tool" /\ job'[r] = NoJob
    BY DEF CInv, MInv, TypeOK, ContainerTypeOK, ToolGoesOn, osVars, managerVars
  <1>2. Placed(r)'
    BY <1>1 DEF Placed, Unsaved, Succeeded, AtGate, NoJob
  <1> QED  BY <1>1, <1>2, GentleSame, MildSame, Quietly

\* A process ends, having left the files as they should be.
LEMMA EndsConfines ==
    ASSUME Alone, CInv, MInv', NEW r \in Runtimes, Ends(r), Kept'
    PROVE  CInv'
  <1>1. MInv /\ cg' = cg
    BY DEF CInv, Ends, Exits
  <1>2. /\ job'[r] = NoJob /\ kind'[r] = "none"
        /\ \A n \in Names : slot'[r][n] = NoRecord
    BY <1>1 DEF MInv, TypeOK, ContainerTypeOK, Ends, Exits
  <1>3. Mild(r)
    BY <1>2 DEF Mild, Exists, NoRecord, Live
  <1>4. ASSUME NEW p \in Pids
        PROVE  proc'[p].st \in Out => /\ proc[p].st \in Out
                                      /\ proc'[p].of = proc[p].of
                                      /\ proc'[p].member = proc[p].member
    <2>1. proc[p] \in Process
      BY <1>1, Typing DEF MInv, TypeOK, ContainerTypeOK
    <2>2. \/ proc'[p] = proc[p]
          \/ proc'[p] = FreeProc
          \/ proc'[p] = [proc[p] EXCEPT !.parent = Reaper]
      BY DEF Ends, Exits
    <2> QED  BY <2>1, <2>2, FreeNotOut DEF Process
  <1>5. Gentle
    BY <1>4 DEF Gentle
  <1>6. Placed(r)'
    BY <1>2 DEF Placed, Unsaved, Succeeded, AtGate, NoJob
  <1> QED  BY <1>1, <1>3, <1>5, <1>6, Saving

\* The file of the command's container becomes rec.
LEMMA KeptRecord ==
    ASSUME CInv, NEW n \in Names, NEW rec, saved' = [saved EXCEPT ![n] = rec], cg' = cg,
           rec.state # "DELETED", rec.path # "cut", Exists(rec) => cg[n] # "bare"
    PROVE  Kept'
  <1>1. saved'[n] = rec /\ \A m \in Names : m # n => saved'[m] = saved[m]
    BY DEF CInv, MInv, TypeOK
  <1> QED  BY <1>1 DEF CInv, Kept

LEMMA ConcludesConfines ==
    ASSUME Alone, PathsWhole, CInv, MInv', NEW r \in Runtimes, Concludes(r)
    PROVE  CInv'
  <1> DEFINE n == cmd[r].name
  <1>1. /\ MInv /\ kind[r] = "cli" /\ job[r].pc \in {"ok", "error", "write"} /\ cg' = cg
    BY DEF CInv, Concludes, TruncateMeta, WriteMeta, SaveMetaFails, RemoveMeta,
           CommandFails, Done, osVars, Ends, Exits
  <1>2. /\ n \in Names /\ job[r].name = n /\ job[r].op = cmd[r].op
        /\ Mine(r) = slot[r][n] /\ slot[r][n] \in Record
    BY <1>1, Underway DEF Caller, MInv, RInv, Adopted
  <1>3. CASE TruncateMeta(r)
    <2>1. /\ saved' = [saved EXCEPT ![n] = EmptyMeta] /\ proc' = proc /\ slot' = slot
          /\ job[r].pc = "ok" /\ job[r].op # "delete"
          /\ At(r, job[r].op, job[r].name, "write", NoPid)
      BY <1>2, <1>3 DEF TruncateMeta, Done, osVars
    <2>2. EmptyMeta.state # "DELETED" /\ EmptyMeta.path # "cut" /\ ~Exists(EmptyMeta)
      BY DEF EmptyMeta, Exists
    <2>3. Kept'
      BY <1>1, <1>2, <2>1, <2>2, KeptRecord
    <2>4. job'[r] = [pc |-> "write", op |-> job[r].op, name |-> job[r].name, pid |-> NoPid]
      BY <1>1, <2>1, Reached
    <2>5. slot[r][n].state \in Live
      BY <1>2, <2>1 DEF CInv, Placed, Succeeded
    <2>6. Placed(r)'
      BY <1>2, <2>1, <2>4, <2>5 DEF Placed, Unsaved, Succeeded, AtGate, Idle, Mine
    <2> QED  BY <1>1, <2>1, <2>3, <2>6, GentleSame, MildSame, Saving
  <1>4. CASE WriteMeta(r)
    <2>1. slot[r][n].state \in Live
      BY <1>2, <1>4 DEF CInv, Placed, Succeeded, WriteMeta, Done
    <2>2. slot[r][n].path # "cut" /\ (slot[r][n].path = "own" => cg[n] # "bare")
      BY <1>2, <2>1 DEF CInv, Registered, Exists
    <2>3. PICK rec \in {slot[r][n]} \cup CutMetas(slot[r][n]) :
             saved' = [saved EXCEPT ![n] = rec]
      BY <1>4 DEF WriteMeta
    <2>4. rec.state \in Live /\ rec.path \in {"none", slot[r][n].path}
      BY <1>2, <2>1, <2>3 DEF PathsWhole, Fault, CutMetas, Live, Record
    <2>5. rec.state # "DELETED" /\ rec.path # "cut" /\ (Exists(rec) => cg[n] # "bare")
      BY <2>2, <2>4 DEF Exists, Live
    <2>6. Kept'
      BY <1>1, <1>2, <2>3, <2>5, KeptRecord
    <2> QED  BY <1>4, <2>6, EndsConfines DEF WriteMeta
  <1>5. CASE SaveMetaFails(r) \/ CommandFails(r)
    <2>1. Ends(r) /\ saved' = saved
      BY <1>5 DEF SaveMetaFails, CommandFails
    <2>2. Kept'
      BY <1>1, <2>1 DEF CInv, Kept
    <2> QED  BY <2>1, <2>2, EndsConfines
  <1>6. CASE RemoveMeta(r)
    <2>1. Ends(r) /\ saved' = [saved EXCEPT ![n] = NoRecord]
      BY <1>6 DEF RemoveMeta
    <2>2. NoRecord.state # "DELETED" /\ NoRecord.path # "cut" /\ ~Exists(NoRecord)
      BY DEF NoRecord, Exists
    <2>3. Kept'
      BY <1>1, <1>2, <2>1, <2>2, KeptRecord
    <2> QED  BY <2>1, <2>3, EndsConfines
  <1> QED  BY <1>3, <1>4, <1>5, <1>6 DEF Concludes

\* A workload changes by itself: nothing about cgroups, records or files.
LEMMA ChildConfines ==
    ASSUME Alone, CInv, MInv', NEW p \in Pids,
           GateCloses(p) \/ Exec(p) \/ ExecFails(p) \/ NamespaceFails(p) \/ Dies(p),
           UNCHANGED managerVars
    PROVE  CInv'
  <1>1. MInv /\ UNCHANGED <<cg, slot, job, saved, kind, cmd>> /\ proc[p] \in Process
    BY DEF CInv, MInv, TypeOK, ContainerTypeOK, GateCloses, Exec, ExecFails,
           NamespaceFails, Aborts, Dies, managerVars
  <1>2. \E x : /\ proc' = [proc EXCEPT ![p] = x]
               /\ x.st # "gated"
               /\ x.st \in Out => proc[p].st \in Out /\ x.of = proc[p].of
                                                     /\ x.member = proc[p].member
    <2>1. CASE Exec(p)
      <3> DEFINE x == [proc[p] EXCEPT !.st = "running"]
      <3>1. /\ proc' = [proc EXCEPT ![p] = x] /\ x.st # "gated" /\ proc[p].st \in Out
            /\ x.of = proc[p].of /\ x.member = proc[p].member
        BY <1>1, <2>1 DEF Exec, Process, Out
      <3> HIDE DEF x
      <3> QED  BY <3>1
    <2>2. CASE ~Exec(p)
      <3>1. PICK rep : proc' = [proc EXCEPT ![p] = Ended(p, rep)]
        BY <2>2 DEF GateCloses, ExecFails, NamespaceFails, Aborts, Dies
      <3>2. Ended(p, rep).st \in {"free", "zombie"}
        BY <1>1 DEF Ended, FreeProc, Process
      <3> QED  BY <3>1, <3>2 DEF Out
    <2> QED  BY <2>1, <2>2
  <1>3. PICK x : /\ proc' = [proc EXCEPT ![p] = x]
                 /\ x.st # "gated"
                 /\ x.st \in Out => proc[p].st \in Out /\ x.of = proc[p].of
                                                       /\ x.member = proc[p].member
    BY <1>2
  <1>4. proc'[p] = x /\ \A q \in Pids : q # p => proc'[q] = proc[q]
    BY <1>1, <1>3 DEF MInv, TypeOK, ContainerTypeOK
  <1>5. Gentle
    BY <1>3, <1>4 DEF Gentle
  <1>6. ASSUME NEW r \in Runtimes
        PROVE  Placed(r)'
    <2>1. Unsaved(r)' /\ Succeeded(r)'
      BY <1>1 DEF CInv, Placed, Unsaved, Succeeded, Idle, Mine
    <2>2. job[r].pc = "release" => job[r].pid \in Pids
      BY <1>1 DEF MInv, RInv, Phase, Starting
    <2>3. AtGate(r)'
      BY <1>1, <1>3, <1>4, <2>2 DEF CInv, Placed, AtGate
    <2> QED  BY <2>1, <2>3 DEF Placed
  <1>7. Kept' /\ \A r \in Runtimes : Registered(r)'
    BY <1>1 DEF CInv, Kept, Registered
  <1>8. Confined' /\ \A r \in Runtimes : Dead(r)'
    BY <1>1, <1>5 DEF CInv, Confined, Dead, Gentle, Out
  <1> QED  BY <1>6, <1>7, <1>8 DEF CInv

-----------------------------------------------------------------------------
(* Confinement *)

LEMMA InitCInv == Init => CInv
  <1> SUFFICES ASSUME Init PROVE CInv
    OBVIOUS
  <1>1. MInv
    BY InitMInv
  <1>2. Kept
    BY DEF Init, Kept, Exists, NoRecord, Live
  <1>3. Confined
    BY DEF Init, ContainerInit, Confined, FreeProc
  <1>4. ASSUME NEW r \in Runtimes
        PROVE  Registered(r) /\ Dead(r) /\ Placed(r)
    BY DEF Init, ContainerInit, Registered, Dead, Placed, Unsaved, Succeeded, AtGate,
           NoJob, NoRecord, Exists, Live
  <1> QED  BY <1>1, <1>2, <1>3, <1>4 DEF CInv

LEMMA CallsConfines ==
    ASSUME Alone, CInv, MInv', NEW r \in Runtimes, Calls(r)
    PROVE  CInv'
  <1>1. UNCHANGED managerVars
    BY DEF Calls
  <1>2. PICK n \in Names :
          \/ Wants(r, "create", n) /\ (CreateCgroup(r, n) \/ CreateCgroupFails(r, n))
          \/ Wants(r, "start", n)  /\ (SpawnFails(r, n) \/ \E p \in Pids : Spawn(r, n, p))
          \/ Wants(r, "stop", n)   /\ Stop(r, n)
          \/ Wants(r, "delete", n) /\ Delete(r, n)
          \/ \E op \in Ops : Wants(r, op, n) /\ Refused(r, op, n)
    BY DEF Calls
  <1>3. CASE \/ CreateCgroupFails(r, n) \/ SpawnFails(r, n)
             \/ \E op \in Ops : Refused(r, op, n)
    BY <1>1, <1>3, RefusalsQuiet
  <1> QED
    BY <1>1, <1>2, <1>3, CreateCgroupConfines, SpawnQuiet, StopQuiet, DeleteQuiet

LEMMA ProceedsConfines ==
    ASSUME Alone, CInv, MInv', NEW r \in Runtimes, Proceeds(r)
    PROVE  CInv'
  <1>1. UNCHANGED managerVars
    BY DEF Proceeds
  <1>2. CASE SetLimits(r) \/ SetLimitsFails(r) \/ Attach(r) \/ Release(r) \/ Destroy(r)
    BY <1>1, <1>2, SetLimitsConfines, SetLimitsFailsConfines, AttachConfines,
       ReleaseConfines, DestroyConfines
  <1>3. CASE AttachFails(r) \/ ReleaseFails(r) \/ Started(r) \/ StartFails(r)
    BY <1>1, <1>3, StartFailuresQuiet, StartedQuiet
  <1>4. CASE \/ SignalFails(r) \/ StopForeign(r) \/ ReapInGrace(r) \/ GraceOver(r)
             \/ ReapKilled(r) \/ ReapInterrupted(r) \/ DestroyFails(r)
             \/ StatusUnreadable(r)
    BY <1>1, <1>4, StopsQuiet, GraceOverQuiet, FailuresQuiet
  <1> QED  BY <1>2, <1>3, <1>4 DEF Proceeds

LEMMA NextCInv ==
    ASSUME Alone, PathsWhole
    PROVE  CInv /\ [Next]_vars => CInv'
  <1> SUFFICES ASSUME CInv, [Next]_vars PROVE CInv'
    OBVIOUS
  <1>1. MInv'
    BY NextMInv DEF CInv
  <1>2. ASSUME NEW r \in Runtimes, NEW n \in Names, NEW op \in Ops, Command(r, op, n)
        PROVE  CInv'
    BY <1>1, <1>2, CommandConfines
  <1>3. ASSUME NEW r \in Runtimes, ToolBegins(r) \/ \E n \in Names : OpenDb(r, n)
        PROVE  CInv'
    BY <1>1, <1>3, BeginningsQuiet
  <1>4. ASSUME NEW r \in Runtimes, ToolGoesOn(r) \/ Calls(r) \/ Proceeds(r) \/ Concludes(r)
        PROVE  CInv'
    BY <1>1, <1>4, ToolGoesOnQuiet, CallsConfines, ProceedsConfines, ConcludesConfines
  <1>5. ASSUME NEW r \in Runtimes, ToolEnds(r) \/ CloseDb(r) \/ Crash(r)
        PROVE  CInv'
    <2>1. Ends(r) /\ saved' = saved /\ cg' = cg
      BY <1>5 DEF ToolEnds, CloseDb, Crash, Ends, Exits
    <2>2. Kept'
      BY <2>1 DEF CInv, Kept
    <2> QED  BY <1>1, <2>1, <2>2, EndsConfines
  <1>6. ASSUME NEW p \in Pids, Child(p) \/ (Dies(p) /\ UNCHANGED managerVars)
        PROVE  CInv'
    BY <1>1, <1>6, ChildConfines DEF Child
  <1>7. CASE UNCHANGED vars
    BY <1>1, <1>7
    DEF vars, containerVars, managerVars, CInv, Kept, Confined, Registered, Dead, Placed,
        Unsaved, Succeeded, AtGate, Idle, Mine
  <1> QED  BY <1>2, <1>3, <1>4, <1>5, <1>6, <1>7 DEF Next

\* With one runtime at a time, any number of names and processes and whatever
\* fails, except that no failed write shortens the cgroup path in a file.
THEOREM AloneInvariance == Alone /\ PathsWhole => (Spec => []CInv)
  <1> SUFFICES ASSUME Alone, PathsWhole PROVE Spec => []CInv
    OBVIOUS
  <1> QED  BY InitCInv, NextCInv, PTL DEF Spec

\* A workload that container_start has released is in its container's cgroup
\* and that cgroup has its limits, as long as one command runs at a time and
\* reads a whole path: whatever else fails, and wherever earlier commands have
\* crashed.
THEOREM WorkloadsConfined == Alone /\ PathsWhole => (Spec => []Confined)
  <1>1. CInv => Confined
    BY DEF CInv
  <1> QED  BY <1>1, AloneInvariance, PTL

\* A container that container_delete has reported deleted has no workload, as
\* long as one command runs at a time and reads a whole path.
THEOREM DeletedHasNone == Alone /\ PathsWhole => (Spec => []DeletedIsDead)
  <1>1. CInv => DeletedIsDead
    BY DEF CInv, Dead, Out, DeletedIsDead
  <1> QED  BY <1>1, AloneInvariance, PTL
=============================================================================
