-------------------------- MODULE BenchmarkProofs ---------------------------
(***************************************************************************)
(* Proofs about Benchmark and the policy it drives, for every size of a    *)
(* machine word, every set of configurations, limits and loads and any     *)
(* combination of failures.                                                *)
(*                                                                         *)
(* That a run leaves nothing behind is not inductive: what the last step   *)
(* has to take down is decided many steps before, and an earlier run may   *)
(* have left its container.  Tidy says for each place in the code what     *)
(* there can be of the container, the workload and the membership.         *)
(***************************************************************************)
EXTENDS Benchmark, TLAPS

Gone  == {"none", "DELETED"}
Setup == {"create", "stop_old", "delete_old", "recreate", "bind", "start"}

\* This run has a container of its own.
Using == pc \in {"start", "unbind"} \/ (pc \in {"open", "loop"} /\ managed)

\* This run has no container yet, or will have none.
Before == pc \in {"idle", "create", "recreate"} \/ (pc \in {"open", "loop"} /\ ~managed)

Tidy ==
    /\ child => reg = "RUNNING"
    /\ inside => reg \notin Gone
    /\ pc \in Setup \cup {"unbind", "stop", "delete"} => managed
    /\ Before => spoiled \/ reg \in Gone
    /\ pc \in {"stop_old", "delete_old"} => spoiled
    /\ pc = "bind" => ~inside
    /\ pc \in {"bind", "start"} => reg = "CREATED"
    /\ pc \in {"open", "loop"} /\ managed => reg = "RUNNING"
    /\ Using /\ inside => bound
    /\ pc \in {"unbind", "stop"} => reg \in {"CREATED", "RUNNING"}
    /\ pc \in {"stop", "delete"} /\ inside => spoiled
    /\ pc = "delete" => spoiled \/ reg \in {"CREATED", "STOPPED"}

\* The policy of a run starts without a remembered target.
Fresh == pc \in Setup \cup {"open"} => last = 0 /\ ~outside

BInv == TypeOK /\ Tidy /\ Fresh /\ NeverSuppressed

-----------------------------------------------------------------------------
(* The policy's arithmetic *)

\* ceiling_frames is a number of frames for every valid configuration.
LEMMA CeilingType ==
    ASSUME AdaptTypeOK, ConfigValid
    PROVE  Ceiling \in 0..MaxWord
  <1>1. /\ limit \in Nat /\ MaxWord \in Nat
        /\ cfg.fraction \in Nat /\ cfg.page \in Nat \ {0}
        /\ cfg.min \in 0..MaxWord /\ cfg.max \in 0..MaxWord
    BY AdaptationAssumption DEF AdaptTypeOK, ConfigValid
  <1> DEFINE whole == (limit * cfg.fraction) \div (100 * cfg.page)
  <1>2. limit * cfg.fraction \in Nat /\ 100 * cfg.page \in Nat \ {0}
    BY <1>1
  <1>3. whole \in Nat
    BY <1>2
  <1> HIDE DEF whole
  <1>4. Ceiling = LET floor == Greatest(Least(whole, MaxWord), cfg.min)
                  IN  IF cfg.max # 0 THEN Least(floor, cfg.max) ELSE floor
    BY DEF Ceiling, whole
  <1> QED
    BY <1>1, <1>3, <1>4 DEF Least, Greatest

\* A request to shrink goes down by a step at most, and not below the floor.
LEMMA ShrinkBounded ==
    ASSUME AdaptTypeOK, WantsShrink
    PROVE  /\ ShrinkTarget \in 0..MaxWord
           /\ ShrinkTarget >= cfg.min
           /\ capacity - ShrinkTarget <= cfg.down
  <1>1. /\ MaxWord \in Nat /\ capacity \in 0..MaxWord
        /\ cfg.min \in 0..MaxWord /\ cfg.down \in 0..MaxWord
    BY AdaptationAssumption DEF AdaptTypeOK
  <1> QED
    BY <1>1 DEF ShrinkTarget, SubFloor, Greatest

\* A request to grow goes up by a step at most, not above the ceiling, and does
\* not wrap around.
LEMMA GrowBounded ==
    ASSUME AdaptTypeOK, WantsGrow
    PROVE  /\ GrowTarget \in 0..MaxWord
           /\ GrowTarget <= Ceiling
           /\ GrowTarget - capacity <= cfg.up
  <1>1. MaxWord \in Nat /\ capacity \in 0..MaxWord /\ cfg.up \in 0..MaxWord
    BY AdaptationAssumption DEF AdaptTypeOK
  <1>2. Ceiling \in 0..MaxWord
    BY CeilingType DEF WantsGrow
  <1> QED
    BY <1>1, <1>2 DEF GrowTarget, AddSat, Least

\* What a sample does to the pool.
LEMMA SampleBounded ==
    ASSUME AdaptTypeOK, Sample
    PROVE  /\ AdaptTypeOK'
           /\ last' \in {0, capacity'}
           /\ capacity' < capacity => /\ capacity' >= cfg.min
                                      /\ capacity - capacity' <= cfg.down
           /\ capacity' > capacity => /\ capacity' <= Ceiling
                                      /\ capacity' - capacity <= cfg.up
  <1>0. MaxWord \in Nat /\ capacity \in 0..MaxWord
    BY AdaptationAssumption DEF AdaptTypeOK
  <1>1. CASE Shrinks
    <2>1. /\ capacity' = ShrinkTarget /\ last' = ShrinkTarget /\ outside' = FALSE
          /\ ShrinkTarget < capacity /\ UNCHANGED envVars
      BY <1>1 DEF Shrinks, Accepted, WantsShrink
    <2>2. ShrinkTarget \in 0..MaxWord /\ ShrinkTarget >= cfg.min
          /\ capacity - ShrinkTarget <= cfg.down
      BY <1>1, ShrinkBounded DEF Shrinks
    <2>3. AdaptTypeOK'
      BY <2>1, <2>2 DEF AdaptTypeOK, envVars
    <2> QED
      BY <1>0, <2>1, <2>2, <2>3
  <1>2. CASE Grows
    <2>1. /\ capacity' = GrowTarget /\ last' = GrowTarget /\ outside' = FALSE
          /\ GrowTarget > capacity /\ UNCHANGED envVars
      BY <1>2 DEF Grows, Accepted, WantsGrow
    <2>2. GrowTarget \in 0..MaxWord /\ GrowTarget <= Ceiling
          /\ GrowTarget - capacity <= cfg.up
      BY <1>2, GrowBounded DEF Grows
    <2>3. AdaptTypeOK'
      BY <2>1, <2>2 DEF AdaptTypeOK, envVars
    <2> QED
      BY <1>0, <2>1, <2>2, <2>3
  <1>3. CASE RequestFails
    <2>1. last' = 0 /\ UNCHANGED <<cfg, limit, load, capacity, outside>>
      BY <1>3 DEF RequestFails, Refused, envVars
    <2>2. AdaptTypeOK'
      BY <1>0, <2>1 DEF AdaptTypeOK
    <2> QED
      BY <1>0, <2>1, <2>2
  <1> QED
    BY <1>1, <1>2, <1>3 DEF Sample
-----------------------------------------------------------------------------
(* One lemma per action *)

\* What a harness gives the pool are numbers of frames.
LEMMA Words == 0 \in 0..MaxWord /\ 1..MaxFrames \subseteq 0..MaxWord
  BY AdaptationAssumption

LEMMA BeginInv ==
    ASSUME BInv, Begin
    PROVE  BInv'
  <1>1. TypeOK'
    BY Words DEF Begin, envVars, BInv, TypeOK, AdaptTypeOK, Pcs
  <1>2. Tidy'
    BY DEF Begin, envVars, BInv, TypeOK, Tidy, Using, Before, Setup, Gone
  <1>3. Fresh'
    BY DEF Begin, envVars, BInv, Fresh, Setup
  <1>4. NeverSuppressed'
    BY DEF Begin, envVars, BInv, Fresh, Setup, NeverSuppressed
  <1> QED
    BY <1>1, <1>2, <1>3, <1>4 DEF BInv

LEMMA CreateInv ==
    ASSUME BInv, Create
    PROVE  BInv'
  <1>1. TypeOK'
    BY Words DEF Create, adaptVars, BInv, TypeOK, AdaptTypeOK, Pcs
  <1>2. Tidy'
    BY DEF Create, adaptVars, BInv, TypeOK, Tidy, Using, Before, Setup, Gone
  <1>3. Fresh'
    BY DEF Create, adaptVars, BInv, Fresh, Setup
  <1>4. NeverSuppressed'
    BY DEF Create, adaptVars, BInv, Fresh, Setup, NeverSuppressed
  <1> QED
    BY <1>1, <1>2, <1>3, <1>4 DEF BInv

LEMMA BindSelfInv ==
    ASSUME BInv, BindSelf
    PROVE  BInv'
  <1>1. TypeOK'
    BY AdaptationAssumption
       DEF BindSelf, adaptVars, Fails, BInv, TypeOK, AdaptTypeOK, Pcs
  <1>2. Tidy'
    BY DEF BindSelf, adaptVars, Fails, BInv, TypeOK, Tidy, Using, Before, Setup, Gone
  <1>3. Fresh'
    BY DEF BindSelf, adaptVars, Fails, BInv, Fresh, Setup
  <1>4. NeverSuppressed'
    BY DEF BindSelf, adaptVars, Fails, BInv, Fresh, Setup, NeverSuppressed
  <1> QED
    BY <1>1, <1>2, <1>3, <1>4 DEF BInv

LEMMA StartInv ==
    ASSUME BInv, Start
    PROVE  BInv'
  <1>1. TypeOK'
    BY Words DEF Start, adaptVars, BInv, TypeOK, AdaptTypeOK, Pcs
  <1>2. Tidy'
    BY DEF Start, adaptVars, BInv, TypeOK, Tidy, Using, Before, Setup, Gone
  <1>3. Fresh'
    BY DEF Start, adaptVars, BInv, Fresh, Setup
  <1>4. NeverSuppressed'
    BY DEF Start, adaptVars, BInv, Fresh, Setup, NeverSuppressed
  <1> QED
    BY <1>1, <1>2, <1>3, <1>4 DEF BInv

LEMMA OpenInv ==
    ASSUME BInv, Open
    PROVE  BInv'
  <1>1. TypeOK'
    BY Words DEF Open, envVars, runVars, BInv, TypeOK, AdaptTypeOK, Pcs
  <1>2. Tidy'
    BY DEF Open, envVars, runVars, BInv, TypeOK, Tidy, Using, Before, Setup, Gone
  <1>3. Fresh'
    BY DEF Open, envVars, runVars, BInv, Fresh, Setup
  <1>4. NeverSuppressed'
    BY DEF Open, envVars, runVars, BInv, Fresh, Setup, NeverSuppressed
  <1> QED
    BY <1>1, <1>2, <1>3, <1>4 DEF BInv

LEMMA DisturbanceInv ==
    ASSUME BInv, Disturbance
    PROVE  BInv'
  <1>1. TypeOK'
    <2>1. AdaptTypeOK'
      BY Words DEF Disturbance, LoadChanges, OtherResize, BInv, TypeOK, AdaptTypeOK
    <2> QED
      BY <2>1 DEF Disturbance, runVars, BInv, TypeOK
  <1>2. Tidy'
    BY DEF Disturbance, LoadChanges, OtherResize, runVars, BInv, TypeOK, Tidy,
       Using, Before, Setup, Gone
  <1>3. Fresh'
    BY DEF Disturbance, LoadChanges, OtherResize, runVars, BInv, Fresh, Setup
  <1>4. NeverSuppressed'
    BY DEF Disturbance, LoadChanges, OtherResize, runVars, BInv, Fresh, Setup,
       NeverSuppressed
  <1> QED
    BY <1>1, <1>2, <1>3, <1>4 DEF BInv

LEMMA CloseInv ==
    ASSUME BInv, Close
    PROVE  BInv'
  <1>1. TypeOK'
    BY Words DEF Close, envVars, runVars, BInv, TypeOK, AdaptTypeOK, Pcs
  <1>2. Tidy'
    BY DEF Close, envVars, runVars, BInv, TypeOK, Tidy, Using, Before, Setup, Gone
  <1>3. Fresh'
    BY DEF Close, envVars, runVars, BInv, Fresh, Setup
  <1>4. NeverSuppressed'
    BY DEF Close, envVars, runVars, BInv, Fresh, Setup, NeverSuppressed
  <1> QED
    BY <1>1, <1>2, <1>3, <1>4 DEF BInv

LEMMA UnbindSelfInv ==
    ASSUME BInv, UnbindSelf
    PROVE  BInv'
  <1>1. TypeOK'
    BY Words DEF UnbindSelf, adaptVars, BInv, TypeOK, AdaptTypeOK, Pcs
  <1>2. Tidy'
    BY DEF UnbindSelf, adaptVars, BInv, TypeOK, Tidy, Using, Before, Setup, Gone
  <1>3. Fresh'
    BY DEF UnbindSelf, adaptVars, BInv, Fresh, Setup
  <1>4. NeverSuppressed'
    BY DEF UnbindSelf, adaptVars, BInv, Fresh, Setup, NeverSuppressed
  <1> QED
    BY <1>1, <1>2, <1>3, <1>4 DEF BInv

LEMMA StopInv ==
    ASSUME BInv, Stop
    PROVE  BInv'
  <1>1. TypeOK'
    BY Words DEF Stop, adaptVars, BInv, TypeOK, AdaptTypeOK, Pcs
  <1>2. Tidy'
    BY DEF Stop, adaptVars, BInv, TypeOK, Tidy, Using, Before, Setup, Gone
  <1>3. Fresh'
    BY DEF Stop, adaptVars, BInv, Fresh, Setup
  <1>4. NeverSuppressed'
    BY DEF Stop, adaptVars, BInv, Fresh, Setup, NeverSuppressed
  <1> QED
    BY <1>1, <1>2, <1>3, <1>4 DEF BInv

LEMMA DeleteInv ==
    ASSUME BInv, Delete
    PROVE  BInv'
  <1>1. TypeOK'
    BY Words DEF Delete, adaptVars, BInv, TypeOK, AdaptTypeOK, Pcs
  <1>2. Tidy'
    BY DEF Delete, adaptVars, BInv, TypeOK, Tidy, Using, Before, Setup, Gone
  <1>3. Fresh'
    BY DEF Delete, adaptVars, BInv, Fresh, Setup
  <1>4. NeverSuppressed'
    BY DEF Delete, adaptVars, BInv, Fresh, Setup, NeverSuppressed
  <1> QED
    BY <1>1, <1>2, <1>3, <1>4 DEF BInv

LEMMA WorkloadEndsInv ==
    ASSUME BInv, WorkloadEnds
    PROVE  BInv'
  <1>1. TypeOK'
    BY DEF WorkloadEnds, adaptVars, BInv, TypeOK, AdaptTypeOK
  <1>2. Tidy'
    BY DEF WorkloadEnds, adaptVars, BInv, TypeOK, Tidy, Using, Before, Setup, Gone
  <1>3. Fresh'
    BY DEF WorkloadEnds, adaptVars, BInv, Fresh, Setup
  <1>4. NeverSuppressed'
    BY DEF WorkloadEnds, adaptVars, BInv, Fresh, Setup, NeverSuppressed
  <1> QED
    BY <1>1, <1>2, <1>3, <1>4 DEF BInv

LEMMA RestartInv ==
    ASSUME BInv, Restart
    PROVE  BInv'
  <1>1. TypeOK'
    <2>1. AdaptTypeOK'
      BY Words DEF Restart, envVars, BInv, TypeOK, AdaptTypeOK
    <2>2. stray' \in BOOLEAN
      <3>1. stray' = (stray \/ child)
        BY DEF Restart
      <3> QED
        BY <3>1, Zenon
    <2> QED
      BY <2>1, <2>2 DEF Restart, TypeOK, Pcs
  <1>2. Tidy'
    BY DEF Restart, envVars, BInv, TypeOK, Tidy, Using, Before, Setup, Gone
  <1>3. Fresh'
    BY DEF Restart, envVars, BInv, Fresh, Setup
  <1>4. NeverSuppressed'
    BY DEF Restart, envVars, BInv, Fresh, Setup, NeverSuppressed
  <1> QED
    BY <1>1, <1>2, <1>3, <1>4 DEF BInv

LEMMA IdleInv ==
    ASSUME BInv, UNCHANGED vars
    PROVE  BInv'
  <1>1. TypeOK'
    BY Words DEF vars, adaptVars, runVars, BInv, TypeOK, AdaptTypeOK, Pcs
  <1>2. Tidy'
    BY DEF vars, adaptVars, runVars, BInv, TypeOK, Tidy, Using, Before, Setup, Gone
  <1>3. Fresh'
    BY DEF vars, adaptVars, runVars, BInv, Fresh, Setup
  <1>4. NeverSuppressed'
    BY DEF vars, adaptVars, runVars, BInv, Fresh, Setup, NeverSuppressed
  <1> QED
    BY <1>1, <1>2, <1>3, <1>4 DEF BInv

LEMMA BenchSampleInv ==
    ASSUME BInv, BenchSample
    PROVE  BInv'
  <1>1. AdaptTypeOK' /\ last' \in {0, capacity'}
    BY SampleBounded DEF BInv, TypeOK, BenchSample
  <1>2. pc = "loop" /\ UNCHANGED <<pc, runVars>>
    BY DEF BenchSample
  <1>3. TypeOK'
    BY <1>1, <1>2 DEF runVars, BInv, TypeOK
  <1>4. Tidy'
    BY <1>2 DEF runVars, BInv, Tidy, Using, Before
  <1> QED
    BY <1>1, <1>2, <1>3, <1>4 DEF BInv, Fresh, Setup, NeverSuppressed

LEMMA InitInv == Init => BInv
  <1> SUFFICES ASSUME Init PROVE BInv
    OBVIOUS
  <1>1. AdaptTypeOK
    BY Words DEF Init, AdaptTypeOK
  <1>2. TypeOK
    BY <1>1 DEF Init, TypeOK, Pcs
  <1> QED
    BY <1>2 DEF Init, BInv, Tidy, Using, Before, Setup, Gone, Fresh, NeverSuppressed

LEMMA NextInv == BInv /\ [Next]_vars => BInv'
  BY BeginInv, CreateInv, BindSelfInv, StartInv, OpenInv, BenchSampleInv,
     DisturbanceInv, CloseInv, UnbindSelfInv, StopInv, DeleteInv, WorkloadEndsInv,
     RestartInv, IdleInv DEF Next

\* The inductive invariant holds in every state of the harness.
THEOREM Invariance == Spec => []BInv
  BY InitInv, NextInv, PTL DEF Spec

\* The policy never takes a request for a duplicate while nobody else resizes the
\* pool, after any sequence of requests that succeeded and failed.
THEOREM NoneSuppressed == Spec => []NeverSuppressed
  <1>1. BInv => NeverSuppressed
    BY DEF BInv
  <1> QED
    BY <1>1, Invariance, PTL

\* A run that ends leaves neither container nor workload nor membership behind,
\* wherever it failed, unless taking down failed itself.
THEOREM NothingLeft == Spec => []LeavesNothing
  <1>1. BInv => LeavesNothing
    BY DEF BInv, Tidy, Before, Gone, LeavesNothing
  <1> QED
    BY <1>1, Invariance, PTL

\* No sample moves the pool by more than a step, below its floor or above its
\* share, for any word size and any configuration.
THEOREM PolicyBounded == Spec => StepsBounded
  <1>1. BInv /\ [Next]_vars =>
          [BenchSample =>
             /\ capacity' < capacity => /\ capacity' >= cfg.min
                                        /\ capacity - capacity' <= cfg.down
             /\ capacity' > capacity => /\ capacity' <= Ceiling
                                        /\ capacity' - capacity <= cfg.up]_vars
    BY SampleBounded DEF BInv, TypeOK, BenchSample
  <1> QED
    BY <1>1, Invariance, PTL DEF Spec, StepsBounded
=============================================================================
