---------------------------- MODULE EngineProofs ----------------------------
(***************************************************************************)
(* Proofs about Engine for arguments of any length, every limit of the     *)
(* pool, any grace period and any combination of failures.                 *)
(*                                                                         *)
(* The arguments are parsed by a loop, so what it computes is shown by     *)
(* induction on the number of characters read.  The induction principle is *)
(* stated for a set of numbers, and recursive functions are shown to exist *)
(* before anything is said about them.                                     *)
(***************************************************************************)
EXTENDS Engine, SequenceTheorems, WellFoundedInduction, TLAPS

-----------------------------------------------------------------------------
(* Induction *)

\* A set of numbers that is not empty has a least element.
LEMMA LeastElement ==
    ASSUME NEW T \in SUBSET Nat, T # {}
    PROVE  \E x \in T : \A y \in T : x <= y
  <1>1. \E x \in T : \A y \in T : ~(<<y, x>> \in OpToRel(<, Nat))
    BY NatLessThanWellFounded, WFMin, Zenon
  <1>2. \E x \in T : \A y \in T : ~(y < x)
    BY <1>1, Zenon DEF OpToRel
  <1>3. \A x, y \in T : ~(y < x) => x <= y
    OBVIOUS
  <1> QED
    BY <1>2, <1>3, Zenon

\* A set that holds 0 and with each number below n the next one holds 0..n.
LEMMA Induction ==
    ASSUME NEW n \in Nat, NEW S, 0 \in S, \A i \in 1..n : i - 1 \in S => i \in S
    PROVE  0..n \subseteq S
  <1>1. SUFFICES ASSUME (0..n) \ S # {} PROVE FALSE
    OBVIOUS
  <1>2. (0..n) \ S \in SUBSET Nat
    OBVIOUS
  <1>3. PICK m \in (0..n) \ S : \A y \in (0..n) \ S : m <= y
    BY <1>1, <1>2, LeastElement
  <1> QED
    BY <1>3

\* f is defined by recursion over 0..n: it starts with b, and step[<<v, i>>] is
\* its value at i when v is the one before.
Unfolds(f, n, b, step) ==
    f[0] = b /\ \A i \in 1..n : f[i] = step[<<f[i - 1], i>>]

\* There is such a function.
LEMMA Recursion ==
    ASSUME NEW n \in Nat, NEW V, NEW b \in V, NEW step \in [V \X (1..n) -> V]
    PROVE  \E f \in [0..n -> V] : Unfolds(f, n, b, step)
  <1> DEFINE Good(m) == \E f \in [0..m -> V] :
                           f[0] = b /\ \A i \in 1..m : f[i] = step[<<f[i - 1], i>>]
  <1> DEFINE S == {m \in 0..n : Good(m)}
  <1>1. 0 \in S
    <2> DEFINE z == [i \in 0..0 |-> b]
    <2>1. z \in [0..0 -> V] /\ z[0] = b /\ 1..0 = {}
      OBVIOUS
    <2> HIDE DEF z
    <2>2. \A i \in 1..0 : z[i] = step[<<z[i - 1], i>>]
      BY <2>1, Zenon
    <2>3. Good(0)
      BY <2>1, <2>2, Zenon
    <2> QED
      BY <2>3
  <1>2. ASSUME NEW m \in 1..n, m - 1 \in S PROVE m \in S
    <2>1. PICK f \in [0..(m - 1) -> V] :
            f[0] = b /\ \A i \in 1..(m - 1) : f[i] = step[<<f[i - 1], i>>]
      BY <1>2
    <2> DEFINE g == [i \in 0..m |-> IF i = m THEN step[<<f[m - 1], m>>] ELSE f[i]]
    <2>2. step[<<f[m - 1], m>>] \in V
      BY <2>1
    <2>3. g \in [0..m -> V]
      BY <2>1, <2>2
    <2>4. g[0] = b
      BY <2>1
    <2>5. \A i \in 1..m : g[i] = step[<<g[i - 1], i>>]
      BY <2>1
    <2> HIDE DEF g
    <2> QED
      BY <2>3, <2>4, <2>5
  <1> HIDE DEF S
  <1>3. n \in S
    BY <1>1, <1>2, Induction
  <1> QED
    BY <1>3 DEF S, Unfolds

-----------------------------------------------------------------------------
(* ParseCount *)

LEMMA TextFacts ==
    ASSUME NEW t \in Texts
    PROVE  /\ Len(t) \in Nat
           /\ \A i \in 1..Len(t) : t[i] \in 0..9 \cup {Other}
           /\ t = <<>> <=> Len(t) = 0
           /\ IsNumber(t) <=> Len(t) # 0 /\ \A i \in 1..Len(t) : t[i] \in 0..9
  <1>1. t \in Seq(0..9 \cup {Other})
    BY EngineAssumption
  <1>2. Len(t) \in Nat /\ DOMAIN t = 1..Len(t) /\ t \in [1..Len(t) -> 0..9 \cup {Other}]
    BY <1>1, LenProperties
  <1>3. t = <<>> <=> Len(t) = 0
    BY <1>1, EmptySeq
  <1> QED
    BY <1>2, <1>3, EngineAssumption DEF IsNumber

LEMMA DigitType ==
    ASSUME NEW v \in Int, NEW c \in 0..9 \cup {Other}
    PROVE  Digit(v, c) \in Int
  BY EngineAssumption DEF Digit, Refused

\* The loop of ParseCount, as it goes on from character to character.
LEMMA ParsedIs ==
    ASSUME NEW t \in Texts
    PROVE  /\ Parsed(t) \in [0..Len(t) -> Int]
           /\ Parsed(t)[0] = 0
           /\ \A i \in 1..Len(t) : Parsed(t)[i] = Digit(Parsed(t)[i - 1], t[i])
  <1> DEFINE n == Len(t)
             Body(f) == [i \in 0..n |-> IF i = 0 THEN 0 ELSE Digit(f[i - 1], t[i])]
             step == [w \in Int \X (1..n) |-> Digit(w[1], t[w[2]])]
  <1>1. n \in Nat
    BY TextFacts
  <1>2. step \in [Int \X (1..n) -> Int]
    <2>1. \A w \in Int \X (1..n) : w[1] \in Int /\ t[w[2]] \in 0..9 \cup {Other}
      BY TextFacts
    <2>2. \A w \in Int \X (1..n) : Digit(w[1], t[w[2]]) \in Int
      BY <2>1, DigitType
    <2> QED
      BY <2>2
  <1> HIDE DEF step
  <1>3. PICK f \in [0..n -> Int] : Unfolds(f, n, 0, step)
    <2>1. 0 \in Int
      OBVIOUS
    <2> HIDE DEF n
    <2> QED
      BY <1>1, <1>2, <2>1, Recursion, Zenon
  <1>4. ASSUME NEW i \in 1..n PROVE f[i] = Digit(f[i - 1], t[i])
    <2>1. f[i - 1] \in Int
      BY <1>1, <1>3
    <2>2. <<f[i - 1], i>> \in Int \X (1..n)
      BY <2>1
    <2>3. step[<<f[i - 1], i>>] = Digit(f[i - 1], t[i])
      BY <2>2 DEF step
    <2> QED
      BY <1>3, <2>3 DEF Unfolds
  <1>5. f = Body(f)
    BY <1>1, <1>3, <1>4 DEF Unfolds
  <1>6. Parsed(t) = CHOOSE g : g = Body(g)
    BY DEF Parsed
  <1> HIDE DEF Body
  <1>7. Parsed(t) = Body(Parsed(t))
    BY <1>5, <1>6, Zenon
  <1> USE DEF Body
  <1>8. /\ Parsed(t)[0] = 0
        /\ \A i \in 1..n : Parsed(t)[i] = Digit(Parsed(t)[i - 1], t[i])
    BY <1>1, <1>7
  <1>9. DOMAIN Parsed(t) = 0..n
    BY <1>7
  <1> DEFINE S == {i \in 0..n : Parsed(t)[i] \in Int}
  <1>10. 0 \in S
    BY <1>1, <1>8
  <1>11. ASSUME NEW i \in 1..n, i - 1 \in S PROVE i \in S
    <2>1. Parsed(t)[i - 1] \in Int /\ t[i] \in 0..9 \cup {Other}
      BY <1>11, TextFacts
    <2>2. Parsed(t)[i] \in Int
      BY <1>8, <2>1, DigitType
    <2> QED
      BY <1>1, <2>2
  <1> HIDE DEF S
  <1>12. 0..n \subseteq S
    BY <1>1, <1>10, <1>11, Induction
  <1>13. \A i \in 0..n : Parsed(t)[i] \in Int
    BY <1>12 DEF S
  <1> QED
    BY <1>7, <1>8, <1>13

\* The numbers that the beginnings of a text of digits stand for.
LEMMA DecimalsIs ==
    ASSUME NEW t \in Texts, IsNumber(t)
    PROVE  /\ Decimals(t)[0] = 0
           /\ \A i \in 1..Len(t) : Decimals(t)[i] = Decimals(t)[i - 1] * 10 + t[i]
           /\ \A i \in 0..Len(t) : Decimals(t)[i] \in Nat
  <1> DEFINE n == Len(t)
             Body(f) == [i \in 0..n |-> IF i = 0 THEN 0 ELSE f[i - 1] * 10 + t[i]]
             step == [w \in Nat \X (1..n) |-> w[1] * 10 + t[w[2]]]
  <1>1. n \in Nat /\ \A i \in 1..n : t[i] \in 0..9
    BY TextFacts
  <1>2. step \in [Nat \X (1..n) -> Nat]
    <2>1. \A w \in Nat \X (1..n) : w[1] \in Nat /\ t[w[2]] \in Nat
      BY <1>1
    <2>2. \A w \in Nat \X (1..n) : w[1] * 10 + t[w[2]] \in Nat
      BY <2>1
    <2> QED
      BY <2>2
  <1> HIDE DEF step
  <1>3. PICK f \in [0..n -> Nat] : Unfolds(f, n, 0, step)
    <2>1. 0 \in Nat
      OBVIOUS
    <2> HIDE DEF n
    <2> QED
      BY <1>1, <1>2, <2>1, Recursion, Zenon
  <1>4. ASSUME NEW i \in 1..n PROVE f[i] = f[i - 1] * 10 + t[i]
    <2>1. f[i - 1] \in Nat
      BY <1>1, <1>3
    <2>2. <<f[i - 1], i>> \in Nat \X (1..n)
      BY <2>1
    <2>3. step[<<f[i - 1], i>>] = f[i - 1] * 10 + t[i]
      BY <2>2 DEF step
    <2> QED
      BY <1>3, <2>3 DEF Unfolds
  <1>5. f = Body(f)
    BY <1>1, <1>3, <1>4 DEF Unfolds
  <1>6. Decimals(t) = CHOOSE g : g = Body(g)
    BY DEF Decimals
  <1> HIDE DEF Body
  <1>7. Decimals(t) = Body(Decimals(t))
    BY <1>5, <1>6, Zenon
  <1> USE DEF Body
  <1>8. /\ Decimals(t)[0] = 0
        /\ \A i \in 1..n : Decimals(t)[i] = Decimals(t)[i - 1] * 10 + t[i]
    BY <1>1, <1>7
  <1> DEFINE S == {i \in 0..n : Decimals(t)[i] \in Nat}
  <1>9. 0 \in S
    BY <1>1, <1>8
  <1>10. ASSUME NEW i \in 1..n, i - 1 \in S PROVE i \in S
    <2>1. Decimals(t)[i - 1] \in Nat /\ t[i] \in Nat
      BY <1>1, <1>10
    <2>2. Decimals(t)[i] \in Nat
      BY <1>8, <2>1
    <2> QED
      BY <1>1, <2>2
  <1> HIDE DEF S
  <1>11. 0..n \subseteq S
    BY <1>1, <1>9, <1>10, Induction
  <1> QED
    BY <1>8, <1>11 DEF S

\* After i characters the loop has read digits only and is within the limit, or
\* it has given up.
LEMMA ParsedInRange ==
    ASSUME NEW t \in Texts, NEW n \in 0..Len(t), Parsed(t)[n] # Refused
    PROVE  Parsed(t)[n] \in 0..MaxPool /\ \A j \in 1..n : t[j] \in 0..9
  <1> DEFINE P(i) == Parsed(t)[i] # Refused =>
                        Parsed(t)[i] \in 0..MaxPool /\ \A j \in 1..i : t[j] \in 0..9
             S == {i \in 0..Len(t) : P(i)}
  <1>1. Len(t) \in Nat /\ MaxPool \in Nat /\ Other \notin 0..9
        /\ \A i \in 1..Len(t) : t[i] \in 0..9 \cup {Other}
    BY TextFacts, EngineAssumption
  <1>2. 0 \in S
    BY <1>1, ParsedIs
  <1>3. ASSUME NEW i \in 1..Len(t), i - 1 \in S PROVE i \in S
    <2>1. SUFFICES ASSUME Parsed(t)[i] # Refused PROVE P(i)
      BY <1>1
    <2>2. Parsed(t)[i] = Digit(Parsed(t)[i - 1], t[i])
      BY <1>1, ParsedIs
    <2>3. /\ Parsed(t)[i - 1] # Refused
          /\ t[i] \in 0..9
          /\ Parsed(t)[i] = Parsed(t)[i - 1] * 10 + t[i]
          /\ ~(Parsed(t)[i] > MaxPool)
      BY <1>1, <2>1, <2>2 DEF Digit
    <2>4. Parsed(t)[i - 1] \in 0..MaxPool /\ \A j \in 1..(i - 1) : t[j] \in 0..9
      BY <1>3, <2>3
    <2>5. \A v \in 0..MaxPool, c \in 0..9 : ~(v * 10 + c > MaxPool) => v * 10 + c \in 0..MaxPool
      BY <1>1
    <2>6. Parsed(t)[i] \in 0..MaxPool
      BY <2>3, <2>4, <2>5
    <2>7. \A j \in 1..i : j = i \/ j \in 1..(i - 1)
      BY <1>1
    <2> QED
      BY <2>3, <2>4, <2>6, <2>7
  <1> HIDE DEF S
  <1>4. n \in S
    BY <1>1, <1>2, <1>3, Induction
  <1> QED
    BY <1>4 DEF S

\* On a text of digits the loop computes its number, and gives up only when that
\* has passed the limit, which the digits that follow do not undo.
LEMMA ParsedIsDecimal ==
    ASSUME NEW t \in Texts, IsNumber(t), NEW n \in 0..Len(t)
    PROVE  IF Parsed(t)[n] = Refused THEN Decimals(t)[n] > MaxPool
                                     ELSE Parsed(t)[n] = Decimals(t)[n]
  <1> DEFINE P(i) == IF Parsed(t)[i] = Refused THEN Decimals(t)[i] > MaxPool
                                               ELSE Parsed(t)[i] = Decimals(t)[i]
             S == {i \in 0..Len(t) : P(i)}
  <1>1. /\ Len(t) \in Nat /\ MaxPool \in Nat /\ Other \notin 0..9
        /\ \A i \in 1..Len(t) : t[i] \in 0..9
    BY TextFacts, EngineAssumption
  <1>2. 0 \in S
    BY <1>1, ParsedIs, DecimalsIs DEF Refused
  <1>3. ASSUME NEW i \in 1..Len(t), i - 1 \in S PROVE i \in S
    <2>1. Parsed(t)[i] = Digit(Parsed(t)[i - 1], t[i])
      BY <1>1, ParsedIs
    <2>2. /\ Decimals(t)[i] = Decimals(t)[i - 1] * 10 + t[i]
          /\ Decimals(t)[i - 1] \in Nat
      BY <1>1, DecimalsIs
    <2>3. t[i] # Other /\ t[i] \in Nat
      BY <1>1
    <2>4. P(i - 1)
      BY <1>3
    <2>5. CASE Parsed(t)[i - 1] = Refused
      <3>1. Decimals(t)[i] > MaxPool
        BY <1>1, <2>2, <2>3, <2>4, <2>5
      <3> QED
        BY <2>1, <2>5, <3>1 DEF Digit
    <2>6. CASE Parsed(t)[i - 1] # Refused
      <3>1. Parsed(t)[i] = IF Decimals(t)[i] > MaxPool THEN Refused ELSE Decimals(t)[i]
        BY <2>1, <2>2, <2>3, <2>4, <2>6 DEF Digit
      <3>2. Decimals(t)[i] # Refused
        BY <2>2, <2>3 DEF Refused
      <3> QED
        BY <3>1, <3>2
    <2> QED
      BY <2>5, <2>6
  <1> HIDE DEF S
  <1>4. n \in S
    BY <1>1, <1>2, <1>3, Induction
  <1> QED
    BY <1>4 DEF S

\* ParseCount takes exactly the numbers up to the limit, for texts of any length.
LEMMA ParseCountIs ==
    ASSUME NEW t \in Texts
    PROVE  /\ ParseCount(t) \notin {Refused, 0} =>
                 IsNumber(t) /\ ParseCount(t) = Decimal(t) /\ ParseCount(t) \in 1..MaxPool
           /\ ParseCount(t) \in {Refused, 0} =>
                 ~(IsNumber(t) /\ Decimal(t) \in 1..MaxPool)
  <1>1. /\ Len(t) \in Nat /\ Len(t) \in 0..Len(t) /\ MaxPool \in Nat
        /\ t = <<>> <=> Len(t) = 0
        /\ IsNumber(t) <=> Len(t) # 0 /\ \A i \in 1..Len(t) : t[i] \in 0..9
    BY TextFacts, EngineAssumption
  <1>2. ASSUME ParseCount(t) \notin {Refused, 0}
        PROVE  IsNumber(t) /\ ParseCount(t) = Decimal(t) /\ ParseCount(t) \in 1..MaxPool
    <2>1. t # <<>> /\ ParseCount(t) = Parsed(t)[Len(t)]
      BY <1>2 DEF ParseCount
    <2>2. Parsed(t)[Len(t)] \in 0..MaxPool /\ IsNumber(t)
      BY <1>1, <1>2, <2>1, ParsedInRange
    <2>3. ParseCount(t) = Decimal(t)
      BY <1>1, <1>2, <2>1, <2>2, ParsedIsDecimal DEF Decimal
    <2> QED
      BY <1>1, <1>2, <2>1, <2>2, <2>3
  <1>3. ASSUME ParseCount(t) \in {Refused, 0}, IsNumber(t), Decimal(t) \in 1..MaxPool
        PROVE  FALSE
    <2>1. ParseCount(t) = Parsed(t)[Len(t)]
      BY <1>1, <1>3 DEF ParseCount
    <2>2. IF Parsed(t)[Len(t)] = Refused THEN Decimal(t) > MaxPool
                                         ELSE Parsed(t)[Len(t)] = Decimal(t)
      BY <1>1, <1>3, ParsedIsDecimal DEF Decimal
    <2> QED
      BY <1>1, <1>3, <2>1, <2>2
  <1> QED
    BY <1>2, <1>3

-----------------------------------------------------------------------------
(* The engine's life *)

\* What is decided early and needed when the engine ends.
Life ==
    /\ pc = "args" => pool = Default
    /\ pc \in {"args", "dir", "open"} => ~opened
    /\ closed => Ended
    /\ Ended => pending = {}
    /\ Ended <=> status # "none"
    /\ isolated => pending \subseteq handled \cup {"KILL"}

EInv == TypeOK /\ Life /\ PoolAsAsked /\ ClosesOrKilled

\* What Exit(code) does to the invariant, whatever step of main takes it.
LEMMA ExitInv ==
    ASSUME EInv, NEW code \in {"0", "2", "3", "4", "5"}, ~Ended, Exit(code),
           UNCHANGED pool, opened' \in BOOLEAN, closed' \in BOOLEAN,
           opened' => closed', 
           code = "2" /\ known => ~(IsNumber(text) /\ Decimal(text) \in 1..MaxPool)
    PROVE  EInv'
  <1>1. TypeOK'
    BY DEF EInv, TypeOK, Exit, argVars, Pcs, Signal
  <1>2. Life'
    BY DEF EInv, Life, Exit, argVars, Ended
  <1>3. PoolAsAsked'
    BY DEF EInv, PoolAsAsked, Exit, argVars, Ended
  <1>4. ClosesOrKilled'
    BY DEF ClosesOrKilled
  <1> QED
    BY <1>1, <1>2, <1>3, <1>4 DEF EInv

\* What GoesOn(to) does once main has its arguments.
LEMMA GoesOnInv ==
    ASSUME EInv, NEW to \in Pcs \ {"args", "dir", "open", "end"}, GoesOn(to),
           pc \notin {"args", "end"}, UNCHANGED <<pool, closed>>,
           opened' \in BOOLEAN, g_stop' = g_stop,
           handled' \in SUBSET {"INT", "TERM"}, handled \subseteq handled'
    PROVE  EInv'
  <1>1. TypeOK'
    BY DEF EInv, TypeOK, GoesOn, argVars
  <1>2. Life'
    BY DEF EInv, TypeOK, Life, GoesOn, argVars, Ended
  <1>3. PoolAsAsked'
    BY DEF EInv, Life, PoolAsAsked, GoesOn, argVars, Ended
  <1>4. ClosesOrKilled'
    BY DEF ClosesOrKilled, GoesOn, Ended
  <1> QED
    BY <1>1, <1>2, <1>3, <1>4 DEF EInv

LEMMA ParseArgsInv ==
    ASSUME EInv, ParseArgs
    PROVE  EInv'
  <1>0. ~Ended /\ pc = "args" /\ opened = FALSE /\ closed = FALSE
        /\ UNCHANGED <<opened, closed>> /\ text \in Texts \cup {None}
        /\ pool = Default
    BY DEF ParseArgs, EInv, TypeOK, Life, Ended
  <1>1. ASSUME GoesOn("dir"), pool' \in 1..MaxPool, UNCHANGED <<handled, g_stop>>,
               IF text = None THEN pool' = Default
               ELSE IsNumber(text) /\ pool' = Decimal(text)
        PROVE  EInv'
    <2>1. TypeOK'
      BY <1>0, <1>1 DEF EInv, TypeOK, GoesOn, argVars, Pcs
    <2>2. Life'
      BY <1>0, <1>1 DEF EInv, Life, GoesOn, argVars, Ended
    <2>3. PoolAsAsked'
      BY <1>0, <1>1 DEF EInv, Life, PoolAsAsked, GoesOn, argVars, Ended
    <2>4. ClosesOrKilled'
      BY <1>1 DEF ClosesOrKilled, GoesOn, Ended
    <2> QED
      BY <2>1, <2>2, <2>3, <2>4 DEF EInv
  <1>2. CASE text = None /\ GoesOn("dir") /\ UNCHANGED <<pool, handled, g_stop>>
    <2>1. Default \in 1..MaxPool
      BY EngineAssumption
    <2> QED
      BY <1>0, <1>1, <1>2, <2>1
  <1>3. CASE /\ text # None /\ ParseCount(text) \notin {Refused, 0}
             /\ pool' = ParseCount(text) /\ GoesOn("dir") /\ UNCHANGED <<handled, g_stop>>
    <2>1. /\ IsNumber(text) /\ ParseCount(text) = Decimal(text)
          /\ ParseCount(text) \in 1..MaxPool
      BY <1>0, <1>3, ParseCountIs
    <2> QED
      BY <1>1, <1>3, <2>1
  <1>4. CASE /\ ~known \/ (text # None /\ ParseCount(text) \in {Refused, 0})
             /\ Exit("2") /\ UNCHANGED pool
    <2>1. known => ~(IsNumber(text) /\ Decimal(text) \in 1..MaxPool)
      BY <1>0, <1>4, ParseCountIs
    <2> QED
      BY <1>0, <1>4, <2>1, ExitInv
  <1> QED
    BY <1>2, <1>3, <1>4 DEF ParseArgs

LEMMA DataDirInv ==
    ASSUME EInv, DataDir
    PROVE  EInv'
  <1>0. ~Ended /\ pc = "dir" /\ opened = FALSE /\ closed = FALSE /\ UNCHANGED dbVars
    BY DEF DataDir, EInv, TypeOK, Life, Ended
  <1>1. CASE GoesOn("open") /\ UNCHANGED <<handled, g_stop>>
    <2>1. TypeOK'
      BY <1>0, <1>1 DEF EInv, TypeOK, GoesOn, argVars, dbVars, Pcs
    <2>2. Life'
      BY <1>0, <1>1 DEF EInv, Life, GoesOn, argVars, dbVars, Ended
    <2>3. PoolAsAsked'
      BY <1>0, <1>1 DEF EInv, PoolAsAsked, GoesOn, argVars, dbVars
    <2>4. ClosesOrKilled'
      BY <1>1 DEF ClosesOrKilled, GoesOn, Ended
    <2> QED
      BY <2>1, <2>2, <2>3, <2>4 DEF EInv
  <1>2. CASE Exit("3")
    BY <1>0, <1>2, ExitInv DEF dbVars
  <1> QED
    BY <1>1, <1>2 DEF DataDir

LEMMA OpenDatabaseInv ==
    ASSUME EInv, OpenDatabase
    PROVE  EInv'
  <1>0. /\ ~Ended /\ pc = "open" /\ opened = FALSE /\ closed = FALSE
        /\ UNCHANGED <<pool, closed>> /\ handled \in SUBSET {"INT", "TERM"}
    BY DEF OpenDatabase, EInv, TypeOK, Life, Ended
  <1>1. CASE opened' = TRUE /\ GoesOn("pages") /\ UNCHANGED <<handled, g_stop>>
    BY <1>0, <1>1, GoesOnInv DEF Pcs
  <1>2. CASE (Exit("3") \/ Exit("4")) /\ UNCHANGED opened
    BY <1>0, <1>2, ExitInv
  <1> QED
    BY <1>1, <1>2 DEF OpenDatabase

LEMMA CountPagesInv ==
    ASSUME EInv, CountPages
    PROVE  EInv'
  <1>0. /\ ~Ended /\ pc = "pages" /\ opened \in BOOLEAN
        /\ UNCHANGED <<pool, opened>> /\ handled \in SUBSET {"INT", "TERM"}
    BY DEF CountPages, EInv, TypeOK, Ended
  <1>1. CASE GoesOn("on_INT") /\ UNCHANGED <<closed, handled, g_stop>>
    BY <1>0, <1>1, GoesOnInv DEF Pcs
  <1>2. CASE closed' = TRUE /\ Exit("3")
    BY <1>0, <1>2, ExitInv
  <1> QED
    BY <1>1, <1>2 DEF CountPages

LEMMA InstallHandlerInv ==
    ASSUME EInv, OnInt \/ OnTerm
    PROVE  EInv'
  <1>0. opened \in BOOLEAN /\ handled \in SUBSET {"INT", "TERM"}
    BY DEF EInv, TypeOK
  <1>1. CASE OnInt
    BY <1>0, <1>1, GoesOnInv DEF OnInt, InstallHandler, dbVars, Pcs
  <1>2. CASE OnTerm
    BY <1>0, <1>2, GoesOnInv DEF OnTerm, InstallHandler, dbVars, Pcs
  <1> QED
    BY <1>1, <1>2

LEMMA IdleInv ==
    ASSUME EInv, TestStop \/ IdleOnce
    PROVE  EInv'
  <1>0. opened \in BOOLEAN /\ handled \in SUBSET {"INT", "TERM"}
    BY DEF EInv, TypeOK
  <1>1. CASE TestStop
    <2>1. PICK to \in {"close", "enter"} : GoesOn(to)
      BY <1>1 DEF TestStop
    <2> QED
      BY <1>0, <1>1, <2>1, GoesOnInv DEF TestStop, dbVars, Pcs
  <1>2. CASE IdleOnce
    BY <1>0, <1>2, GoesOnInv DEF IdleOnce, dbVars, Pcs
  <1> QED
    BY <1>1, <1>2

LEMMA CloseDatabaseInv ==
    ASSUME EInv, CloseDatabase
    PROVE  EInv'
  <1>0. ~Ended /\ closed' = TRUE /\ UNCHANGED <<pool, opened>> /\ opened \in BOOLEAN
    BY DEF CloseDatabase, EInv, TypeOK, Ended
  <1>1. CASE Exit("0")
    BY <1>0, <1>1, ExitInv
  <1>2. CASE Exit("5")
    BY <1>0, <1>2, ExitInv
  <1> QED
    BY <1>1, <1>2 DEF CloseDatabase

\* A signal without a handler that reaches an isolated engine is SIGKILL.
LEMMA DeliverInv ==
    ASSUME EInv, NEW s \in Signal, Deliver(s)
    PROVE  EInv'
  <1>0. ~Ended /\ UNCHANGED <<argVars, dbVars, handled, stopper>>
    BY DEF Deliver, EInv, Life
  <1>1. CASE s \in handled
    <2>1. /\ g_stop' = TRUE /\ pending' = pending \ {s} /\ UNCHANGED status
          /\ pc' = IF pc = "pause" THEN "test" ELSE pc
      BY <1>1 DEF Deliver
    <2>2. TypeOK'
      BY <1>0, <2>1 DEF EInv, TypeOK, argVars, dbVars, Pcs
    <2>3. Life'
      BY <1>0, <2>1 DEF EInv, Life, argVars, dbVars, Ended
    <2>4. PoolAsAsked'
      BY <1>0, <2>1 DEF EInv, PoolAsAsked, argVars, dbVars, Ended
    <2>5. ClosesOrKilled'
      BY <1>0, <2>1 DEF ClosesOrKilled, Ended
    <2> QED
      BY <2>2, <2>3, <2>4, <2>5 DEF EInv
  <1>2. CASE s \notin handled
    <2>1. pc' = "end" /\ status' = s /\ pending' = {} /\ UNCHANGED g_stop
      BY <1>2 DEF Deliver
    <2>2. TypeOK'
      BY <1>0, <2>1 DEF EInv, TypeOK, argVars, dbVars, Pcs
    <2>3. Life'
      BY <1>0, <2>1 DEF EInv, Life, argVars, dbVars, Ended, Signal
    <2>4. PoolAsAsked'
      BY <1>0, <2>1 DEF EInv, PoolAsAsked, argVars, dbVars, Signal
    <2>5. s = "KILL" \/ (s \in {"INT", "TERM"} \ handled /\ ~isolated)
      BY <1>2 DEF Deliver, EInv, Life, Signal
    <2>6. ClosesOrKilled'
      BY <1>0, <2>1, <2>5 DEF ClosesOrKilled, argVars
    <2> QED
      BY <2>2, <2>3, <2>4, <2>6 DEF EInv
  <1> QED
    BY <1>1, <1>2

\* Steps of the processes that stop the engine: they send signals.
LEMMA SentInv ==
    ASSUME EInv, StopperOnly, NEW s \in Signal,
           \/ pending' = pending
           \/ pending' = {}
           \/ ~Ended /\ pending' = Sent(s),
           stopper' \in [pc : {"none", "grace", "reap", "done"}, tries : 0..Tries]
    PROVE  EInv'
  <1>1. /\ pending' \in SUBSET Signal
        /\ Ended => pending' = {}
        /\ isolated => pending' \subseteq handled \cup {"KILL"}
    BY DEF EInv, TypeOK, Life, Sent
  <1>2. TypeOK'
    BY <1>1 DEF EInv, TypeOK, StopperOnly, argVars, dbVars
  <1>3. Life'
    BY <1>1 DEF EInv, Life, StopperOnly, argVars, dbVars, Ended
  <1>4. PoolAsAsked'
    BY DEF EInv, PoolAsAsked, StopperOnly, argVars, dbVars
  <1>5. ClosesOrKilled'
    BY DEF EInv, ClosesOrKilled, StopperOnly, argVars, dbVars, Ended
  <1> QED
    BY <1>2, <1>3, <1>4, <1>5 DEF EInv

LEMMA OutsideStopInv ==
    ASSUME EInv, NEW s \in Signal, OutsideStop(s)
    PROVE  EInv'
  <1>1. stopper' \in [pc : {"none", "grace", "reap", "done"}, tries : 0..Tries]
    BY DEF EInv, TypeOK, OutsideStop
  <1> QED
    BY <1>1, SentInv DEF OutsideStop, StopperOnly

LEMMA StopperInv ==
    ASSUME EInv, BeginStop \/ Poll \/ Reap
    PROVE  EInv'
  <1>0. /\ stopper \in [pc : {"none", "grace", "reap", "done"}, tries : 0..Tries]
        /\ Tries \in Nat
    BY EngineAssumption DEF EInv, TypeOK
  <1>1. /\ StopperOnly
        /\ \/ pending' = pending
           \/ pending' = {}
           \/ ~Ended /\ (pending' = Sent("TERM") \/ pending' = Sent("KILL"))
    BY DEF BeginStop, Poll, Reap
  <1>2. stopper' \in [pc : {"none", "grace", "reap", "done"}, tries : 0..Tries]
    <2>1. CASE BeginStop
      BY <1>0, <2>1 DEF BeginStop
    <2>2. CASE Poll
      BY <1>0, <2>2 DEF Poll
    <2>3. CASE Reap
      BY <1>0, <2>3 DEF Reap
    <2> QED
      BY <2>1, <2>2, <2>3
  <1> QED
    BY <1>1, <1>2, SentInv DEF Signal

-----------------------------------------------------------------------------
(* The theorems *)

\* The inductive invariant holds for engines of every configuration.
THEOREM Invariance == Spec => []EInv
  <1>1. Init => EInv
    <2> SUFFICES ASSUME Init PROVE EInv
      OBVIOUS
    <2>1. TypeOK
      <3>1. Default \in 1..MaxPool /\ 0 \in 0..Tries
        BY EngineAssumption
      <3> QED
        BY <3>1 DEF Init, TypeOK, Pcs
    <2>2. Life /\ PoolAsAsked /\ ClosesOrKilled
      BY DEF Init, Life, PoolAsAsked, ClosesOrKilled, Ended
    <2> QED
      BY <2>1, <2>2 DEF EInv
  <1>2. EInv /\ [Next]_vars => EInv'
    <2> SUFFICES ASSUME EInv, [Next]_vars PROVE EInv'
      OBVIOUS
    <2>1. CASE Main
      BY <2>1, ParseArgsInv, DataDirInv, OpenDatabaseInv, CountPagesInv,
         InstallHandlerInv, IdleInv, CloseDatabaseInv DEF Main
    <2>2. CASE \E s \in Signal : Deliver(s) \/ OutsideStop(s)
      BY <2>2, DeliverInv, OutsideStopInv
    <2>3. CASE BeginStop \/ Poll \/ Reap
      BY <2>3, StopperInv
    <2>4. CASE UNCHANGED vars
      <3>1. TypeOK'
        BY <2>4 DEF vars, EInv, TypeOK
      <3>2. Life' /\ ClosesOrKilled'
        BY <2>4 DEF vars, EInv, Life, ClosesOrKilled, Ended
      <3>3. PoolAsAsked'
        BY <2>4 DEF vars, EInv, PoolAsAsked
      <3> QED
        BY <3>1, <3>2, <3>3 DEF EInv
    <2> QED
      BY <2>1, <2>2, <2>3, <2>4 DEF Next
  <1> QED
    BY <1>1, <1>2, PTL DEF Spec

\* Every variable keeps its type; the pool of an engine of any argument is within
\* the limit.
THEOREM TypeCorrect == Spec => []TypeOK
  BY Invariance, PTL DEF EInv

\* The engine runs with the pool it was asked for, and refuses exactly the other
\* arguments, for arguments of every length and every limit.
THEOREM PoolIsAsAsked == Spec => []PoolAsAsked
  BY Invariance, PTL DEF EInv

\* Every path of main closes an opened database, whenever the signals arrive and
\* however long the grace period is.
THEOREM ClosedOrKilled == Spec => []ClosesOrKilled
  BY Invariance, PTL DEF EInv
=============================================================================
