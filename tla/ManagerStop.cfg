SPECIFICATION Spec
CONSTANTS
    r1 = r1
    n1 = n1
    p1 = p1
    Runtimes = {r1}
    Names = {n1}
    Pids = {p1}
    MaxSlots = 1
    Faults = {}
    Callers = {"cli", "db"}
    Reaper = Reaper
    NoPid = NoPid
    NoName = NoName
INVARIANT
    DatabaseExclusive
