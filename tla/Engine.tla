-------------------------------- MODULE Engine ------------------------------
(***************************************************************************)
(* The database engine process, main of src/src/db/engine/db_engine.cpp,   *)
(* from its arguments to its exit code, with the signals that reach it     *)
(* between any two steps and process_stop of src/src/container/process.c,  *)
(* which sends them.  Opening and closing the database are single steps    *)
(* that may fail; module Database has them in detail.                      *)
(*                                                                         *)
(* `stopper` is the process that started the engine and may stop it: it    *)
(* polls, kills and reaps.  Any other process that stops the engine finds  *)
(* that it is not its parent and is done with one SIGTERM.                 *)
(*                                                                         *)
(* An engine in a PID namespace of its own (`isolated`: container.c and    *)
(* namespace.c) is process 1 there: the kernel drops a signal it has no    *)
(* handler for, other than SIGKILL, where another process would die of it. *)
(***************************************************************************)
EXTENDS Integers, Sequences

CONSTANTS Texts,     \* --buffer-pool arguments: sequences of characters
          Other,     \* any character that is not a digit
          None,      \* no --buffer-pool argument
          MaxPool,   \* kMaxPoolFrames
          Default,   \* the pool's size without an argument
          Tries,     \* polls in the grace period of process_stop
          Faults     \* the failures that may happen

ASSUME EngineAssumption ==
    /\ Texts \subseteq Seq(0..9 \cup {Other})
    /\ None \notin Texts
    /\ Other \notin 0..9
    /\ MaxPool \in Nat
    /\ Default \in 1..MaxPool
    /\ Tries \in Nat

Signal == {"INT", "TERM", "KILL"}

VARIABLES pc,        \* the next step of main
          text,      \* the --buffer-pool argument, None when absent
          known,     \* every other argument is one that main knows
          pool,      \* pool_frames
          opened,    \* Database::Open has succeeded
          closed,    \* Database::Close has run, whatever it returned
          handled,   \* the signals that have their handler
          g_stop,    \* g_stop
          pending,   \* signals sent and not yet delivered
          isolated,  \* process 1 of a PID namespace
          status,    \* exit code or signal that ended the engine
          stopper    \* where the parent is in process_stop: [pc, tries]

argVars == <<text, known, isolated>>
dbVars  == <<pool, opened, closed>>
vars    == <<pc, text, known, pool, opened, closed, handled, g_stop, pending, isolated,
             status, stopper>>

Pcs == {"args", "dir", "open", "pages", "on_INT", "on_TERM", "test", "enter",
        "pause", "close", "end"}

TypeOK ==
    /\ pc \in Pcs
    /\ text \in Texts \cup {None}
    /\ known \in BOOLEAN
    /\ pool \in 1..MaxPool
    /\ opened \in BOOLEAN
    /\ closed \in BOOLEAN
    /\ handled \in SUBSET {"INT", "TERM"}
    /\ g_stop \in BOOLEAN
    /\ pending \in SUBSET Signal
    /\ isolated \in BOOLEAN
    /\ status \in {"none", "0", "2", "3", "4", "5"} \cup Signal
    /\ stopper \in [pc : {"none", "grace", "reap", "done"}, tries : 0..Tries]

Ended == pc = "end"

Init ==
    /\ pc = "args"
    /\ text \in Texts \cup {None}
    /\ known \in BOOLEAN
    /\ pool = Default
    /\ opened = FALSE /\ closed = FALSE
    /\ handled = {} /\ g_stop = FALSE /\ pending = {}
    /\ isolated \in BOOLEAN
    /\ status = "none"
    /\ stopper = [pc |-> "none", tries |-> 0]

-----------------------------------------------------------------------------
(* main *)

Refused == -1

\* Mutant: a number above the limit is taken for the limit.
ParseCountClips(t) ==
    LET Clip(v, c) == IF v = Refused \/ c = Other THEN Refused
                      ELSE IF v * 10 + c > MaxPool THEN MaxPool ELSE v * 10 + c
        value[i \in 0..Len(t)] == IF i = 0 THEN 0 ELSE Clip(value[i - 1], t[i])
    IN  IF t = <<>> THEN Refused ELSE value[Len(t)]

\* Digit: the value v after one more character.  The loop stops at the first that
\* is no digit or exceeds the limit.
Digit(v, c) ==
    IF v = Refused \/ c = Other \/ v * 10 + c > MaxPool THEN Refused ELSE v * 10 + c

\* Parsed(t)[i]: the value of the first i characters.
Parsed(t) ==
    LET value[i \in 0..Len(t)] == IF i = 0 THEN 0 ELSE Digit(value[i - 1], t[i])
    IN  value

ParseCount(t) == IF t = <<>> THEN Refused ELSE Parsed(t)[Len(t)]

\* main returns, and whatever is pending is gone with the process.
Exit(code) ==
    /\ pc' = "end"
    /\ status' = code
    /\ pending' = {}
    /\ UNCHANGED <<argVars, handled, g_stop, stopper>>

\* main goes on.
GoesOn(to) ==
    /\ pc' = to
    /\ UNCHANGED <<argVars, pending, status, stopper>>

ParseArgs ==
    /\ pc = "args"
    /\ \/ /\ known
          /\ text = None
          /\ GoesOn("dir")
          /\ UNCHANGED <<pool, handled, g_stop>>
       \/ /\ known
          /\ text # None
          /\ ParseCount(text) \notin {Refused, 0}
          /\ pool' = ParseCount(text)
          /\ GoesOn("dir")
          /\ UNCHANGED <<handled, g_stop>>
       \/ /\ ~known \/ (text # None /\ ParseCount(text) \in {Refused, 0})
          /\ Exit("2")
          /\ UNCHANGED pool
    /\ UNCHANGED <<opened, closed>>

DataDir ==
    /\ pc = "dir"
    /\ \/ GoesOn("open") /\ UNCHANGED <<handled, g_stop>>
       \/ "dir" \in Faults /\ Exit("3")
    /\ UNCHANGED dbVars

OpenDatabase ==
    /\ pc = "open"
    /\ \/ opened' = TRUE /\ GoesOn("pages") /\ UNCHANGED <<handled, g_stop>>
       \/ "open" \in Faults /\ (Exit("3") \/ Exit("4")) /\ UNCHANGED opened
    /\ UNCHANGED <<pool, closed>>

\* Mutant: the database is not closed when its pages cannot be counted.
CountPagesGivesUp ==
    /\ pc = "pages"
    /\ \/ GoesOn("on_INT") /\ UNCHANGED <<handled, g_stop>>
       \/ "pages" \in Faults /\ Exit("3")
    /\ UNCHANGED dbVars

CountPages ==
    /\ pc = "pages"
    /\ \/ GoesOn("on_INT") /\ UNCHANGED <<closed, handled, g_stop>>
       \/ "pages" \in Faults /\ closed' = TRUE /\ Exit("3")
    /\ UNCHANGED <<pool, opened>>

InstallHandler(s, from, to) ==
    /\ pc = from
    /\ GoesOn(to)
    /\ handled' = handled \cup {s}
    /\ UNCHANGED <<dbVars, g_stop>>

\* Mutant: the flag is cleared once more before the loop.
OnTermClears ==
    /\ pc = "on_TERM"
    /\ GoesOn("test")
    /\ handled' = handled \cup {"TERM"}
    /\ g_stop' = FALSE
    /\ UNCHANGED dbVars

OnInt  == InstallHandler("INT", "on_INT", "on_TERM")
OnTerm == InstallHandler("TERM", "on_TERM", "test")

TestStop ==
    /\ pc = "test"
    /\ GoesOn(IF g_stop THEN "close" ELSE "enter")
    /\ UNCHANGED <<dbVars, handled, g_stop>>

\* pause() blocks, also when g_stop was set since the test.
IdleOnce ==
    /\ pc = "enter"
    /\ GoesOn("pause")
    /\ UNCHANGED <<dbVars, handled, g_stop>>

CloseDatabase ==
    /\ pc = "close"
    /\ closed' = TRUE
    /\ Exit("0") \/ ("close" \in Faults /\ Exit("5"))
    /\ UNCHANGED <<pool, opened>>

Main ==
    \/ ParseArgs \/ DataDir \/ OpenDatabase \/ CountPages \/ OnInt \/ OnTerm
    \/ TestStop \/ IdleOnce \/ CloseDatabase

-----------------------------------------------------------------------------
(* Signals *)

\* What kill leaves pending; a signal that is pending is not queued twice.
Sent(s) ==
    IF isolated /\ s # "KILL" /\ s \notin handled THEN pending ELSE pending \cup {s}

\* Mutant: the handler does not wake the process.
DeliverNoWake(s) ==
    /\ s \in pending
    /\ IF s \in handled
       THEN /\ g_stop' = TRUE
            /\ pending' = pending \ {s}
            /\ UNCHANGED <<pc, status>>
       ELSE pc' = "end" /\ status' = s /\ pending' = {} /\ UNCHANGED g_stop
    /\ UNCHANGED <<argVars, dbVars, handled, stopper>>

\* NexusEngineOnSignal returns pause(); without a handler the process dies.
Deliver(s) ==
    /\ s \in pending
    /\ IF s \in handled
       THEN /\ g_stop' = TRUE
            /\ pc' = IF pc = "pause" THEN "test" ELSE pc
            /\ pending' = pending \ {s}
            /\ UNCHANGED status
       ELSE pc' = "end" /\ status' = s /\ pending' = {} /\ UNCHANGED g_stop
    /\ UNCHANGED <<argVars, dbVars, handled, stopper>>

\* A stop by a process that is not the parent, or Ctrl-C.
OutsideStop(s) ==
    /\ ~Ended
    /\ s \in {"INT", "TERM"}
    /\ pending' = Sent(s)
    /\ pending' # pending
    /\ UNCHANGED <<pc, argVars, dbVars, handled, g_stop, status, stopper>>

-----------------------------------------------------------------------------
(* process_stop by the parent *)

StopperOnly == UNCHANGED <<pc, argVars, dbVars, handled, g_stop, status>>

\* SIGTERM; for a process that has ended it has no effect.
BeginStop ==
    /\ stopper.pc = "none"
    /\ stopper' = [pc |-> "grace", tries |-> 0]
    /\ pending' = IF Ended THEN {} ELSE Sent("TERM")
    /\ StopperOnly

\* Mutant: the child is asked and never killed.
PollForever ==
    /\ stopper.pc = "grace"
    /\ Ended
    /\ stopper' = [stopper EXCEPT !.pc = "done"]
    /\ UNCHANGED pending
    /\ StopperOnly

\* waitpid without waiting; after the last try SIGKILL.
Poll ==
    /\ stopper.pc = "grace"
    /\ \/ /\ Ended
          /\ stopper.tries < Tries
          /\ stopper' = [stopper EXCEPT !.pc = "done"]
          /\ UNCHANGED pending
       \/ /\ ~Ended
          /\ stopper.tries < Tries
          /\ stopper' = [stopper EXCEPT !.tries = @ + 1]
          /\ UNCHANGED pending
       \/ /\ stopper.tries = Tries
          /\ stopper' = [stopper EXCEPT !.pc = "reap"]
          /\ pending' = IF Ended THEN {} ELSE Sent("KILL")
    /\ StopperOnly

Reap ==
    /\ stopper.pc = "reap"
    /\ Ended
    /\ stopper' = [stopper EXCEPT !.pc = "done"]
    /\ UNCHANGED pending
    /\ StopperOnly

Next ==
    \/ Main
    \/ \E s \in Signal : Deliver(s) \/ OutsideStop(s)
    \/ BeginStop \/ Poll \/ Reap

Spec == Init /\ [][Next]_vars

\* main runs until it blocks or returns, the kernel delivers what is pending,
\* and a stop that has begun goes on; nobody has to stop the engine.
FairSpec ==
    /\ Spec
    /\ WF_vars(Main)
    /\ \A s \in Signal : WF_vars(Deliver(s))
    /\ WF_vars(Poll \/ Reap)

-----------------------------------------------------------------------------
\* The number a text of digits stands for, and the numbers its beginnings do.
Decimals(t) ==
    LET value[i \in 0..Len(t)] == IF i = 0 THEN 0 ELSE value[i - 1] * 10 + t[i]
    IN  value

Decimal(t) == Decimals(t)[Len(t)]

IsNumber(t) == t # <<>> /\ \A i \in DOMAIN t : t[i] # Other

\* The engine runs with the pool it was asked for, and refuses exactly the
\* arguments that are no number of frames from 1 to the limit: ParseCount neither
\* drops a digit nor stops at a prefix that is still in range.
PoolAsAsked ==
    /\ pc \notin {"args", "end"} =>
          IF text = None THEN pool = Default
          ELSE IsNumber(text) /\ pool = Decimal(text)
    /\ status = "2" /\ known =>
          ~(IsNumber(text) /\ Decimal(text) \in 1..MaxPool)

\* An engine that has opened its database closes it before it ends, on every
\* path of main, unless it is killed or a signal comes before its handler is
\* installed; and in a PID namespace only SIGKILL can do that.
ClosesOrKilled ==
    Ended /\ opened /\ ~closed =>
        \/ status = "KILL"
        \/ status \in {"INT", "TERM"} \ handled /\ ~isolated

\* A stop request that is handled at any moment but between the test of g_stop
\* and the call of pause() ends the engine, without another signal.
StopHeeded == (g_stop /\ pc \notin {"enter", "pause"}) ~> Ended

\* Whoever asks again and again gets through: the requests that fell between the
\* test and pause(), or were dropped before the handlers were there, do not
\* leave the engine deaf.
AskingEnds ==
    ([]<><<\E s \in {"INT", "TERM"} : OutsideStop(s)>>_vars) => <>Ended

\* A stop by the parent always ends the engine and reaps it, in a bounded number
\* of polls, whatever the engine is doing and wherever its signals went.
ParentStopEnds == stopper.pc = "grace" ~> Ended /\ stopper.pc = "done"
=============================================================================
