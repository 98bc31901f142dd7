----------------------------- MODULE Adaptation -----------------------------
(***************************************************************************)
(* The bridge between the container and the buffer pool, src/src/bridge: a *)
(* snapshot of the cgroup's memory (resource_monitor.c), the policy that   *)
(* turns it into a capacity for the pool (adaptation_policy.c) and the     *)
(* request to the pool (buffer_pool_adapter.cpp).  The functions keep no   *)
(* thread: whoever owns the pool takes a sample now and then.              *)
(*                                                                         *)
(* Memory is counted in bytes of a small unit, thresholds and the fraction *)
(* in per cent; comparisons of quotients are written as comparisons of     *)
(* products, and rounding of the code's doubles is left out.  `load` is the*)
(* memory of the cgroup that is not the pool's: it changes at any time, and*)
(* is negative while the pool has frames that were never filled.           *)
(***************************************************************************)
EXTENDS Integers

CONSTANTS MaxWord,   \* ULONG_MAX
          Configs,   \* nexus_policy_config_t values, valid or not
          Limits,    \* memory.max, 0 for "max"
          Loads,     \* what else the cgroup's memory may hold
          MaxFrames, \* bound on a capacity set by others
          Faults     \* the failures that may happen

ASSUME AdaptationAssumption ==
    /\ MaxWord \in Nat
    /\ Configs \subseteq [shrink : Nat, grow : Int, fraction : Nat, page : Nat,
                          min : 0..MaxWord, max : 0..MaxWord,
                          down : 0..MaxWord, up : 0..MaxWord]
    /\ Limits \subseteq Nat
    /\ Loads \subseteq Int
    /\ MaxFrames \in 1..MaxWord

VARIABLES cfg,       \* the policy's configuration
          limit,     \* the cgroup's memory limit
          load,      \* the cgroup's memory beside the pool's
          capacity,  \* the pool's capacity in frames, 0 when there is no pool
          last,      \* last_target, 0 when have_last is not set
          outside    \* the pool was resized by others since a request succeeded

adaptVars == <<cfg, limit, load, capacity, last, outside>>
envVars   == <<cfg, limit, load>>

AdaptTypeOK ==
    /\ cfg \in Configs
    /\ limit \in Limits
    /\ load \in Loads
    /\ capacity \in 0..MaxWord
    /\ last \in 0..MaxWord
    /\ outside \in BOOLEAN

-----------------------------------------------------------------------------
(* The policy *)

ConfigValid ==
    /\ cfg.shrink > 0
    /\ cfg.grow >= 0
    /\ cfg.grow < cfg.shrink
    /\ cfg.fraction \in 1..100
    /\ cfg.page > 0
    /\ cfg.min > 0
    /\ cfg.max = 0 \/ cfg.max >= cfg.min
    /\ cfg.down > 0 \/ cfg.up > 0

SubFloor(a, b) == IF a > b THEN a - b ELSE 0

AddSat(a, b) == IF a > MaxWord - b THEN MaxWord ELSE a + b

Least(a, b)    == IF a < b THEN a ELSE b
Greatest(a, b) == IF a < b THEN b ELSE a

\* ceiling_frames: the share of the limit, not below min, not above max.
Ceiling ==
    LET share == Least((limit * cfg.fraction) \div (100 * cfg.page), MaxWord)
        floor == Greatest(share, cfg.min)
    IN  IF cfg.max # 0 THEN Least(floor, cfg.max) ELSE floor

\* The reading of memory.current, and the pressure against the two thresholds.
Usage == Greatest(load + capacity * cfg.page, 0)
High  == limit # 0 /\ Usage * 100 >= cfg.shrink * limit
Low   == limit # 0 /\ Usage * 100 <= cfg.grow * limit

\* Mutant: the floor is not applied.
ShrinkTargetUnclamped == SubFloor(capacity, cfg.down)

ShrinkTarget == Greatest(SubFloor(capacity, cfg.down), cfg.min)
GrowTarget   == Least(AddSat(capacity, cfg.up), Ceiling)

\* Mutant: pressure exactly at the threshold does not count.
WantsShrinkAbove ==
    /\ ConfigValid
    /\ limit # 0
    /\ Usage * 100 > cfg.shrink * limit
    /\ ShrinkTarget < capacity
    /\ last # ShrinkTarget

\* A request the policy has issued already is suppressed.
WantsShrink ==
    /\ ConfigValid
    /\ High
    /\ ShrinkTarget < capacity
    /\ last # ShrinkTarget

\* Mutant: free memory is not told from pressure.
WantsGrowAlways ==
    /\ ConfigValid
    /\ limit # 0
    /\ GrowTarget > capacity
    /\ last # GrowTarget

WantsGrow ==
    /\ ConfigValid
    /\ ~High
    /\ Low
    /\ GrowTarget > capacity
    /\ last # GrowTarget

-----------------------------------------------------------------------------
(* nexus_policy_apply, and the pool's answer *)

Accepted(target) ==
    /\ target # 0
    /\ capacity' = target
    /\ last' = target
    /\ outside' = FALSE

\* Mutant: the target of a failed request is remembered.
RefusedRemembered(target) ==
    /\ "resize" \in Faults \/ target = 0
    /\ last' = target
    /\ UNCHANGED <<capacity, outside>>

\* The pool could not be resized and has kept its capacity.
Refused(target) ==
    /\ "resize" \in Faults \/ target = 0
    /\ last' = 0
    /\ UNCHANGED <<capacity, outside>>

Shrinks == WantsShrink /\ Accepted(ShrinkTarget) /\ UNCHANGED envVars
Grows   == WantsGrow /\ Accepted(GrowTarget) /\ UNCHANGED envVars

RequestFails ==
    /\ \/ WantsShrink /\ Refused(ShrinkTarget)
       \/ WantsGrow /\ Refused(GrowTarget)
    /\ UNCHANGED envVars

\* A sample that found its metrics; one that did not leaves all as it is, and
\* so does one that finds no reason to act.
Sample == Shrinks \/ Grows \/ RequestFails

-----------------------------------------------------------------------------
(* The environment *)

LoadChanges ==
    /\ load' \in Loads \ {load}
    /\ UNCHANGED <<cfg, limit, capacity, last, outside>>

\* BufferPool::Resize is public: the pool's owner may use it too.
OtherResize ==
    /\ "others" \in Faults
    /\ capacity' \in (1..MaxFrames) \ {capacity}
    /\ outside' = TRUE
    /\ UNCHANGED <<cfg, limit, load, last>>
=============================================================================
