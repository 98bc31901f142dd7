SPECIFICATION FairSpec
CONSTANTS
    r1 = r1
    n1 = n1
    n2 = n2
    p1 = p1
    p2 = p2
    Runtimes = {r1}
    Names = {n1, n2}
    Pids = {p1, p2}
    MaxSlots = 2
    Faults = {"cgroup", "spawn", "attach", "exec", "namespace", "kill", "signal", "meta", "crash",
              "status", "interrupt"}
    Callers = {"cli", "db", "tool"}
    Reaper = Reaper
    NoPid = NoPid
    NoName = NoName
INVARIANTS
    Confined
    NoStrayChild
    NoFailedExec
    DeletedIsDead
    KillsOwn
PROPERTIES
    CallsEnd
    GateOpens
