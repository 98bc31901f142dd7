---------------------------- MODULE TablesProofs ----------------------------
(***************************************************************************)
(* Proofs about Tables for any number of pages, tables and records, any    *)
(* capacity of a page and any combination of failures.                     *)
(*                                                                         *)
(* The properties speak of chains, but what a crash leaves of a chain is   *)
(* decided page by page.  TInv is therefore about single pages: what they  *)
(* refer to exists and is of the right kind (Shaped), no two of them refer *)
(* to the same page, not even pages that a crash has cut off (Single), and *)
(* the file has an older version of every page of the process (Lags).      *)
(* What chains and their lists are then follows by induction.              *)
(***************************************************************************)
EXTENDS Tables, SequenceTheorems, WellFoundedInduction, TLAPS

Content == Image \cup {Empty("header"), Empty("blank"), Empty("torn")}

\* The pages of a file refer to pages of the kind they promise, and a chain goes
\* to pages that were allocated later.
Shaped(s) ==
    /\ Len(s) >= 2
    /\ \A p \in DOMAIN s : s[p].kind = "header" <=> p = 1
    /\ s[Root].kind = "catalog"
    /\ \A p \in DOMAIN s :
          /\ s[p].kind \in Kinds => Len(s[p].list) <= Cap[s[p].kind]
          /\ s[p].next # None => /\ s[p].next \in DOMAIN s
                                 /\ s[p].next > p
                                 /\ s[s[p].next].kind = s[p].kind
          /\ s[p].kind = "dir" => \A i \in DOMAIN s[p].list :
                                     /\ s[p].list[i] \in DOMAIN s
                                     /\ s[s[p].list[i]].kind = "data"
          /\ s[p].kind = "catalog" => \A i \in DOMAIN s[p].list :
                                         /\ s[p].list[i].root \in DOMAIN s
                                         /\ s[s[p].list[i].root].kind = "dir"

\* No two references of a file, reachable or not, are to the same page.
Single(s) ==
    \A p, q \in DOMAIN s :
       /\ s[p].next = s[q].next => p = q \/ s[p].next = None
       /\ s[p].kind = s[q].kind => \A i \in DOMAIN s[p].list, j \in DOMAIN s[q].list :
             /\ s[p].kind = "dir" /\ s[p].list[i] = s[q].list[j] => p = q /\ i = j
             /\ s[p].kind = "catalog" /\ s[p].list[i].root = s[q].list[j].root => p = q /\ i = j
       /\ s[p].kind = "catalog" => \A i \in DOMAIN s[p].list : s[p].list[i].root # s[q].next

\* No name is entered twice in the catalog.
NamesOnce(s) ==
    \A p, q \in ToSet(Chain(s, Root, "catalog")) :
       \A i \in DOMAIN s[p].list, j \in DOMAIN s[q].list :
          s[p].list[i].name = s[q].list[j].name => p = q /\ i = j

Good(s) == Shaped(s) /\ Single(s) /\ NamesOnce(s)

\* s is an older version of v, page by page.
Lags(s, v) ==
    /\ Len(s) = Len(v)
    /\ \A p \in DOMAIN s :
          /\ s[p].kind \in Kinds \/ v[p].kind \in Kinds => s[p].kind = v[p].kind
          /\ s[p].kind = "header" <=> v[p].kind = "header"
          /\ s[p].kind \in Kinds => Len(s[p].list) <= Len(v[p].list)
          /\ s[p].kind \in {"catalog", "dir"} =>
                \A i \in DOMAIN s[p].list : s[p].list[i] = v[p].list[i]
          /\ s[p].next \in {None, v[p].next}

Unnamed(v, d) ==
    \A p \in DOMAIN v :
       /\ v[p].next # d
       /\ v[p].kind = "dir" => \A i \in DOMAIN v[p].list : v[p].list[i] # d
       /\ v[p].kind = "catalog" => \A i \in DOMAIN v[p].list : v[p].list[i].root # d

Rooting == {"alloc root", "init root", "load root"}
Storing == {"alloc data", "init data", "fill"}
Linking == {"alloc link", "init link", "link"}
Entering == {"append", "enter"} \cup Linking

\* The object that a call is about to append to agrees with the end of its chain.
AtEnd(o, kind) ==
    /\ o.last \in DOMAIN view
    /\ view[o.last].kind = kind
    /\ view[o.last].next = None
    /\ o.count = Len(view[o.last].list)

Items(kind) == IF kind = "dir" THEN Page ELSE [name : Name, root : Page]
Objects(kind) == [list : Seq(Items(kind)), last : Page \cup {None}, count : 0..Cap[kind]]
Jobs == [name : Name \cup {None}, rec : Rec \cup {None}, page : Page \cup {None}, full : BOOLEAN]

\* What a call in progress works on.
Called ==
    /\ pc = "idle" => job = NoJob
    /\ pc \in Rooting \cup Entering /\ job.rec = None => /\ job.name \in Name
                                                         /\ ~Exists(job.name)
    /\ pc \in Rooting => job.rec = None
    /\ pc \in Storing => job.rec \in Rec /\ job.name \in Name
    /\ pc \in Entering => job.rec = None \/ (job.rec \in Rec /\ job.name \in Name /\ out \in Id)
    /\ pc \in Storing \cup Entering /\ job.rec # None => AtEnd(obj["dir"], "dir")
    /\ pc \in {"load root", "fill"} \cup Entering =>
          /\ job.page \in DOMAIN view
          /\ view[job.page].kind = IF job.rec = None THEN "dir" ELSE "data"
          /\ Unnamed(view, job.page)
    /\ pc = "fill" => view[job.page].list = <<>>
    /\ pc \in Linking => obj[Target].count >= Cap[Target]
    /\ pc = "link" => view[Len(view)] = Empty(Target) /\ Unnamed(view, Len(view))
    /\ pc = "enter" => obj[Target].count = 0

Typed ==
    /\ out \in Id \cup {NoId}
    /\ past \subseteq Name \X Id \X (Rec \cup {Deleted})
    /\ pc \in {"down", "idle"} \cup Rooting \cup Storing \cup Entering
    /\ up \in BOOLEAN
    /\ job \in Jobs
    /\ DOMAIN obj = {"catalog", "dir"}
    /\ \A c \in {"catalog", "dir"} : obj[c] \in Objects(c)

Stored == store \in Seq(Content) /\ Len(store) <= MaxPage

\* The pages of a process, and the catalog it has read from them.
Held ==
    /\ view \in Seq(Content)
    /\ store # <<>>
    /\ Lags(store, view)
    /\ Good(view)
    /\ obj["catalog"] = Loaded(view, Root, "catalog")

TInv ==
    /\ Typed
    /\ Stored
    /\ up <=> pc # "down"
    /\ up => Held /\ Called
    /\ ~up => /\ view = <<>>
              /\ obj = [c \in {"catalog", "dir"} |-> NoObj]
              /\ job = NoJob
              /\ store # <<>> => Good(store)

-----------------------------------------------------------------------------
(* Induction *)

\* A set of numbers that is not empty has a least element.
LEMMA LeastElement ==
    ASSUME NEW T \in SUBSET Nat, T # {}
    PROVE  \E x \in T : \A y \in T : x <= y
  <1>1. \E x \in T : \A y \in T : ~(<<y, x>> \in OpToRel(<, Nat))
    BY NatLessThanWellFounded, WFMin, Zenon
  <1>2. \E x \in T : \A y \in T : ~(y < x)
    BY <1>1, Zenon DEF OpToRel
  <1>3. \A x, y \in T : ~(y < x) => x <= y
    OBVIOUS
  <1> QED
    BY <1>2, <1>3, Zenon

\* A set that holds 0 and with each number below n the next one holds 0..n.
LEMMA Induction ==
    ASSUME NEW n \in Nat, NEW S, 0 \in S, \A i \in 1..n : i - 1 \in S => i \in S
    PROVE  0..n \subseteq S
  <1>1. SUFFICES ASSUME (0..n) \ S # {} PROVE FALSE
    OBVIOUS
  <1>2. (0..n) \ S \in SUBSET Nat
    OBVIOUS
  <1>3. PICK m \in (0..n) \ S : \A y \in (0..n) \ S : m <= y
    BY <1>1, <1>2, LeastElement
  <1> QED
    BY <1>3

\* f is defined by recursion over 0..n: it starts with b, and step[<<v, i>>] is
\* its value at i when v is the one before.
Unfolds(f, n, b, step) ==
    f[0] = b /\ \A i \in 1..n : f[i] = step[<<f[i - 1], i>>]

\* There is such a function.
LEMMA Recursion ==
    ASSUME NEW n \in Nat, NEW V, NEW b \in V, NEW step \in [V \X (1..n) -> V]
    PROVE  \E f \in [0..n -> V] : Unfolds(f, n, b, step)
  <1> DEFINE Defined(m) == \E f \in [0..m -> V] :
                              f[0] = b /\ \A i \in 1..m : f[i] = step[<<f[i - 1], i>>]
  <1> DEFINE S == {m \in 0..n : Defined(m)}
  <1>1. 0 \in S
    <2> DEFINE z == [i \in 0..0 |-> b]
    <2>1. z \in [0..0 -> V] /\ z[0] = b /\ 1..0 = {}
      OBVIOUS
    <2> HIDE DEF z
    <2>2. \A i \in 1..0 : z[i] = step[<<z[i - 1], i>>]
      BY <2>1, Zenon
    <2>3. Defined(0)
      BY <2>1, <2>2, Zenon
    <2> QED
      BY <2>3
  <1>2. ASSUME NEW m \in 1..n, m - 1 \in S PROVE m \in S
    <2>1. PICK f \in [0..(m - 1) -> V] :
            f[0] = b /\ \A i \in 1..(m - 1) : f[i] = step[<<f[i - 1], i>>]
      BY <1>2
    <2> DEFINE g == [i \in 0..m |-> IF i = m THEN step[<<f[m - 1], m>>] ELSE f[i]]
    <2>2. step[<<f[m - 1], m>>] \in V
      BY <2>1
    <2>3. g \in [0..m -> V]
      BY <2>1, <2>2
    <2>4. g[0] = b
      BY <2>1
    <2>5. \A i \in 1..m : g[i] = step[<<g[i - 1], i>>]
      BY <2>1
    <2> HIDE DEF g
    <2> QED
      BY <2>3, <2>4, <2>5
  <1> HIDE DEF S
  <1>3. n \in S
    BY <1>1, <1>2, Induction
  <1> QED
    BY <1>3 DEF S, Unfolds

-----------------------------------------------------------------------------
(* Pages *)

\* A page by its fields.
LEMMA ContentFacts ==
    ASSUME NEW x \in Content
    PROVE  /\ x.kind \in Kinds \cup {"header", "blank", "torn"}
           /\ x.next \in Page \cup {None}
           /\ x.next \in Nat
           /\ Len(x.list) \in Nat /\ DOMAIN x.list = 1..Len(x.list)
           /\ x.kind = "catalog" => /\ x.list \in Seq([name : Name, root : Page])
                                    /\ x = [kind |-> "catalog", list |-> x.list, next |-> x.next]
           /\ x.kind = "dir" => /\ x.list \in Seq(Page)
                                /\ x = [kind |-> "dir", list |-> x.list, next |-> x.next]
           /\ x.kind = "data" => /\ x.list \in Seq(Rec \cup {Deleted})
                                 /\ x = [kind |-> "data", list |-> x.list, next |-> None]
           /\ x.kind \notin {"catalog", "dir"} => x.next = None
           /\ x.kind \notin Kinds => x.list = <<>>
           /\ x.kind \in Kinds <=> x \in Image
  <1>1. None \in Nat /\ Page \subseteq Nat
    BY DEF None, Page
  <1>2. CASE x \in [kind : {"catalog"}, list : Seq([name : Name, root : Page]), next : Page \cup {None}]
    <2>1. x \in Image
      BY <1>2 DEF Image
    <2> QED  BY <1>1, <1>2, <2>1, LenProperties DEF Kinds
  <1>3. CASE x \in [kind : {"dir"}, list : Seq(Page), next : Page \cup {None}]
    <2>1. x \in Image
      BY <1>3 DEF Image
    <2> QED  BY <1>1, <1>3, <2>1, LenProperties DEF Kinds
  <1>4. CASE x \in [kind : {"data"}, list : Seq(Rec \cup {Deleted}), next : {None}]
    <2>1. x \in Image
      BY <1>4 DEF Image
    <2> QED  BY <1>1, <1>4, <2>1, LenProperties DEF Kinds
  <1>5. CASE x \in {Empty("header"), Empty("blank"), Empty("torn")}
    <2>1. x.kind \in {"header", "blank", "torn"} /\ x.list = <<>> /\ x.next = None
      BY <1>5 DEF Empty
    <2>2. x \notin Image
      BY <2>1 DEF Image
    <2> QED  BY <1>1, <2>1, <2>2 DEF Kinds
  <1> QED
    BY <1>2, <1>3, <1>4, <1>5 DEF Content, Image

\* What a page lists.
LEMMA ItemFacts ==
    ASSUME NEW x \in Content, NEW i \in DOMAIN x.list
    PROVE  /\ x.kind = "catalog" => /\ x.list[i] \in [name : Name, root : Page]
                                    /\ x.list[i].name \in Name
                                    /\ x.list[i].root \in Page /\ x.list[i].root # None
           /\ x.kind = "dir" => x.list[i] \in Page /\ x.list[i] # None
  <1>1. None \notin Page /\ DOMAIN x.list = 1..Len(x.list)
    BY ContentFacts DEF Page, None
  <1>2. \A T : x.list \in Seq(T) => x.list[i] \in T
    BY ElementOfSeq, <1>1
  <1>3. ASSUME x.kind = "catalog" PROVE x.list[i] \in [name : Name, root : Page]
    BY <1>2, <1>3, ContentFacts
  <1>4. ASSUME x.kind = "dir" PROVE x.list[i] \in Page
    BY <1>2, <1>4, ContentFacts
  <1> QED  BY <1>1, <1>3, <1>4

\* The converse, for the pages that are written.
LEMMA MakeContent ==
    ASSUME NEW l, NEW n \in Page \cup {None}
    PROVE  /\ l \in Seq([name : Name, root : Page]) =>
                 [kind |-> "catalog", list |-> l, next |-> n] \in Image
           /\ l \in Seq(Page) => [kind |-> "dir", list |-> l, next |-> n] \in Image
           /\ l \in Seq(Rec \cup {Deleted}) => [kind |-> "data", list |-> l, next |-> None] \in Image
  BY DEF Image

LEMMA EmptyContent ==
    /\ \A kind \in Kinds : Empty(kind) \in Image
    /\ \A kind \in Kinds \cup {"header", "blank", "torn"} : Empty(kind) \in Content
    /\ \A kind : Empty(kind).kind = kind /\ Empty(kind).list = <<>> /\ Empty(kind).next = None
  <1>1. \A T : <<>> \in Seq(T)
    OBVIOUS
  <1>2. \A kind \in Kinds : Empty(kind) \in Image
    BY <1>1, MakeContent DEF Empty, Kinds
  <1> QED  BY <1>2 DEF Content, Empty, Kinds

\* A file, page by page.
LEMMA FileFacts ==
    ASSUME NEW s \in Seq(Content)
    PROVE  /\ Len(s) \in Nat /\ DOMAIN s = 1..Len(s)
           /\ \A p \in DOMAIN s : s[p] \in Content
           /\ None \notin DOMAIN s
           /\ \A p \in DOMAIN s : p \in Nat
  BY LenProperties DEF None

-----------------------------------------------------------------------------
(* Chains *)

LEMMA WalkIs ==
    ASSUME NEW s \in Seq(Content), NEW r \in Nat, NEW kind
    PROVE  /\ Walk(s, r, kind)[0] = r
           /\ \A i \in 1..Len(s) : Walk(s, r, kind)[i] = Successor(s, Walk(s, r, kind)[i - 1], kind)
           /\ \A i \in 0..Len(s) : Walk(s, r, kind)[i] \in Nat
  <1> DEFINE n == Len(s)
             Body(f) == [i \in 0..n |-> IF i = 0 THEN r ELSE Successor(s, f[i - 1], kind)]
             step == [w \in Nat \X (1..n) |-> Successor(s, w[1], kind)]
  <1>1. n \in Nat
    BY FileFacts
  <1>2. \A p : Successor(s, p, kind) \in Nat
    BY FileFacts, ContentFacts DEF Successor, None
  <1>3. step \in [Nat \X (1..n) -> Nat]
    BY <1>2
  <1> HIDE DEF step
  <1>4. PICK f \in [0..n -> Nat] : Unfolds(f, n, r, step)
    <2> HIDE DEF n
    <2> QED
      BY <1>1, <1>3, Recursion, Zenon
  <1>5. ASSUME NEW i \in 1..n PROVE f[i] = Successor(s, f[i - 1], kind)
    <2>1. f[i - 1] \in Nat
      BY <1>1, <1>4
    <2>2. <<f[i - 1], i>> \in Nat \X (1..n)
      BY <2>1
    <2>3. step[<<f[i - 1], i>>] = Successor(s, f[i - 1], kind)
      BY <2>2 DEF step
    <2> QED
      BY <1>4, <2>3 DEF Unfolds
  <1>6. f = Body(f)
    BY <1>1, <1>4, <1>5 DEF Unfolds
  <1>7. Walk(s, r, kind) = CHOOSE g : g = Body(g)
    BY DEF Walk
  <1> HIDE DEF Body
  <1>8. Walk(s, r, kind) = Body(Walk(s, r, kind))
    BY <1>6, <1>7, Zenon
  <1> USE DEF Body
  <1>9. /\ Walk(s, r, kind)[0] = r
        /\ \A i \in 1..n : Walk(s, r, kind)[i] = Successor(s, Walk(s, r, kind)[i - 1], kind)
    BY <1>1, <1>8
  <1>10. ASSUME NEW i \in 0..n PROVE Walk(s, r, kind)[i] \in Nat
    <2>1. CASE i = 0
      BY <1>9, <2>1
    <2>2. CASE i # 0
      BY <1>1, <1>2, <1>9, <2>2
    <2> QED  BY <2>1, <2>2
  <1> QED
    BY <1>9, <1>10

\* c is the whole chain from r on.
IsChain(s, r, kind, c) ==
    /\ c \in Seq(DOMAIN s)
    /\ Len(c) \in 1..Len(s)
    /\ c[1] = r
    /\ \A i \in 1..Len(c) : c[i] \in DOMAIN s /\ s[c[i]].kind = kind
    /\ \A i \in 1..(Len(c) - 1) : c[i + 1] = s[c[i]].next
    /\ s[c[Len(c)]].next = None

LEMMA ChainIs ==
    ASSUME NEW s \in Seq(Content), NEW r, NEW kind, NEW c, IsChain(s, r, kind, c)
    PROVE  Chain(s, r, kind) = c
  <1> DEFINE at == Walk(s, r, kind)
             m  == Len(c)
             S  == {n \in 0..Len(s) : at[n] = IF n < m THEN c[n + 1] ELSE None}
  <1>1. /\ Len(s) \in Nat /\ m \in 1..Len(s) /\ m \in Nat
        /\ None \notin DOMAIN s /\ c[1] = r /\ r \in Nat
        /\ DOMAIN c = 1..m
    BY FileFacts, LenProperties DEF IsChain
  <1>2. 0 \in S
    BY <1>1, WalkIs
  <1>3. ASSUME NEW i \in 1..Len(s), i - 1 \in S PROVE i \in S
    <2>1. at[i] = Successor(s, at[i - 1], kind)
      BY <1>1, WalkIs
    <2>2. at[i - 1] = IF i - 1 < m THEN c[i] ELSE None
      BY <1>1, <1>3
    <2> HIDE DEF at, m
    <2>3. CASE i < m
      <3>1. i \in 1..(m - 1)
        BY <1>1, <2>3
      <3>2. at[i - 1] = c[i]
        BY <1>1, <2>2, <2>3
      <3>3. c[i] \in DOMAIN s /\ s[c[i]].kind = kind /\ c[i + 1] = s[c[i]].next
        BY <1>1, <3>1 DEF IsChain, m
      <3> QED  BY <1>1, <2>1, <2>3, <3>2, <3>3 DEF Successor
    <2>4. CASE i = m
      <3>1. at[i - 1] = c[m]
        BY <1>1, <2>2, <2>4
      <3>2. c[m] \in DOMAIN s /\ s[c[m]].kind = kind /\ s[c[m]].next = None
        BY <1>1 DEF IsChain, m
      <3> QED  BY <1>1, <2>1, <2>4, <3>1, <3>2 DEF Successor
    <2>5. CASE i > m
      <3>1. at[i - 1] = None
        BY <1>1, <2>2, <2>5
      <3> QED  BY <1>1, <2>1, <2>5, <3>1 DEF Successor
    <2> QED  BY <1>1, <2>3, <2>4, <2>5
  <1> HIDE DEF S
  <1>4. 0..Len(s) \subseteq S
    BY <1>1, <1>2, <1>3, Induction
  <1>5. \A n \in 0..Len(s) : at[n] = IF n < m THEN c[n + 1] ELSE None
    BY <1>4 DEF S
  <1>6. \A n \in 0..(m - 1) : c[n + 1] # None
    BY <1>1 DEF IsChain
  <1> HIDE DEF at, m
  <1> DEFINE Ends(n) == at[n] # None /\ (n = Len(s) \/ at[n + 1] = None)
             links == CHOOSE n \in 0..Len(s) : Ends(n)
  <1>7. m - 1 \in 0..Len(s) /\ Ends(m - 1)
    BY <1>1, <1>5, <1>6
  <1>8. ASSUME NEW n \in 0..Len(s), Ends(n) PROVE n = m - 1
    <2>1. n < m
      BY <1>5, <1>8
    <2>2. n + 1 \in 0..Len(s) /\ at[n + 1] = None
      BY <1>1, <1>8, <2>1
    <2>3. n + 1 < m => n + 1 \in 0..(m - 1)
      BY <1>1, <2>2
    <2>4. ~(n + 1 < m)
      BY <1>5, <1>6, <2>2, <2>3
    <2> QED  BY <1>1, <2>1, <2>4
  <1> HIDE DEF Ends
  <1>9. links = m - 1
    BY <1>7, <1>8
  <1>10. Chain(s, r, kind) = [i \in 1..(links + 1) |-> at[i - 1]]
    BY DEF Chain, at, links, Ends
  <1> HIDE DEF links
  <1>11. Chain(s, r, kind) = [i \in 1..m |-> at[i - 1]]
    BY <1>1, <1>9, <1>10
  <1>12. \A i \in 1..m : at[i - 1] = c[i]
    BY <1>1, <1>5
  <1>13. c \in [1..m -> DOMAIN s]
    BY LenProperties DEF IsChain, m
  <1> QED
    BY <1>11, <1>12, <1>13

\* In a file whose pages refer to later pages every chain comes to its end.
LEMMA ChainEnds ==
    ASSUME NEW s \in Seq(Content), Shaped(s), NEW r \in DOMAIN s, NEW kind, s[r].kind = kind
    PROVE  IsChain(s, r, kind, Chain(s, r, kind))
  <1> DEFINE at == Walk(s, r, kind)
             P(n) == at[n] # None => at[n] \in DOMAIN s /\ s[at[n]].kind = kind /\ at[n] >= n + 1
             S == {n \in 0..Len(s) : P(n)}
  <1>1. Len(s) \in Nat /\ DOMAIN s = 1..Len(s) /\ None \notin DOMAIN s /\ r \in Nat
    BY FileFacts
  <1>2. /\ at[0] = r
        /\ \A i \in 1..Len(s) : at[i] = Successor(s, at[i - 1], kind)
        /\ \A i \in 0..Len(s) : at[i] \in Nat
    BY <1>1, WalkIs
  <1> HIDE DEF at
  <1>3. 0 \in S
    BY <1>1, <1>2
  <1>4. ASSUME NEW i \in 1..Len(s), i - 1 \in S PROVE i \in S
    <2>1. SUFFICES ASSUME at[i] # None PROVE P(i)
      BY <1>1
    <2>2. at[i - 1] \in DOMAIN s /\ s[at[i - 1]].kind = kind /\ at[i] = s[at[i - 1]].next
      BY <1>2, <2>1 DEF Successor
    <2>3. at[i - 1] >= i
      BY <1>1, <1>4, <2>2
    <2>4. at[i] \in DOMAIN s /\ at[i] > at[i - 1] /\ s[at[i]].kind = kind
      BY <2>1, <2>2 DEF Shaped
    <2> QED  BY <1>1, <2>2, <2>3, <2>4
  <1> HIDE DEF S
  <1>5. 0..Len(s) \subseteq S
    BY <1>1, <1>3, <1>4, Induction
  <1>6. \A n \in 0..Len(s) : P(n)
    BY <1>5 DEF S
  <1> DEFINE T == {n \in 0..Len(s) : at[n] = None}
  <1>7. Len(s) \in T
    BY <1>1, <1>6
  <1>8. T \in SUBSET Nat /\ T # {}
    BY <1>1, <1>7
  <1>9. PICK m \in T : \A y \in T : m <= y
    BY <1>8, LeastElement
  <1>10. m \in 1..Len(s) /\ m \in Nat /\ at[m] = None /\ \A n \in 0..(m - 1) : at[n] # None
    BY <1>1, <1>2, <1>9
  <1> DEFINE c == [i \in 1..m |-> at[i - 1]]
  <1>11. \A i \in 1..m : at[i - 1] \in DOMAIN s /\ s[at[i - 1]].kind = kind
    BY <1>1, <1>6, <1>10
  <1>12. c \in Seq(DOMAIN s) /\ Len(c) = m /\ \A i \in 1..m : c[i] = at[i - 1]
    BY <1>10, <1>11
  <1> HIDE DEF c
  <1>13. ASSUME NEW i \in 1..m PROVE at[i] = s[c[i]].next
    <2>1. i \in 1..Len(s)
      BY <1>1, <1>10
    <2>2. at[i] = Successor(s, c[i], kind)
      BY <1>2, <1>12, <2>1
    <2> QED  BY <1>11, <1>12, <2>2 DEF Successor
  <1>14. \A i \in 1..(m - 1) : c[i + 1] = at[i]
    BY <1>10, <1>12
  <1>15. IsChain(s, r, kind, c)
    <2>1. 1 \in 1..m /\ m \in 1..m /\ \A i \in 1..(m - 1) : i \in 1..m
      BY <1>10
    <2>2. c[1] = r
      BY <1>2, <1>12, <2>1
    <2>3. s[c[m]].next = None
      BY <1>10, <1>13, <2>1
    <2>4. \A i \in 1..(m - 1) : c[i + 1] = s[c[i]].next
      BY <1>13, <1>14, <2>1
    <2> QED  BY <1>10, <1>11, <1>12, <2>2, <2>3, <2>4 DEF IsChain
  <1> QED
    BY <1>15, ChainIs

\* A chain goes to later and later pages.
LEMMA ChainGrows ==
    ASSUME NEW s \in Seq(Content), Shaped(s), NEW r, NEW kind, NEW c, IsChain(s, r, kind, c),
           NEW i \in 1..Len(c), NEW j \in 1..Len(c), i < j
    PROVE  c[i] < c[j]
  <1>1. Len(c) \in Nat /\ \A k \in 1..Len(c) : c[k] \in DOMAIN s /\ c[k] \in Nat
    BY FileFacts DEF IsChain
  <1> DEFINE S == {k \in 0..Len(c) : k > i => c[i] < c[k]}
  <1>2. 0 \in S
    BY <1>1
  <1>3. ASSUME NEW k \in 1..Len(c), k - 1 \in S PROVE k \in S
    <2>1. SUFFICES ASSUME k > i PROVE c[i] < c[k]
      BY <1>1
    <2>2. k - 1 \in 1..(Len(c) - 1) /\ k - 1 >= i /\ (k - 1) + 1 = k
      BY <1>1, <2>1
    <2>3. c[k] = s[c[k - 1]].next /\ c[k] # None /\ c[k - 1] \in DOMAIN s
      <3>1. \A m \in 1..(Len(c) - 1) : c[m + 1] = s[c[m]].next
        BY Zenon DEF IsChain
      <3>2. c[(k - 1) + 1] = s[c[k - 1]].next
        BY <2>2, <3>1, Zenon
      <3>3. k - 1 \in 1..Len(c)
        BY <1>1, <2>2
      <3>4. c[k] \in DOMAIN s /\ c[k - 1] \in DOMAIN s /\ None \notin DOMAIN s
        BY <1>1, <3>3, FileFacts
      <3> QED  BY <2>2, <3>2, <3>4
    <2>4. c[k] > c[k - 1]
      BY <2>3 DEF Shaped
    <2>5. k - 1 = i \/ c[i] < c[k - 1]
      BY <1>1, <1>3, <2>2
    <2> QED  BY <1>1, <2>2, <2>4, <2>5
  <1> HIDE DEF S
  <1>4. 0..Len(c) \subseteq S
    BY <1>1, <1>2, <1>3, Induction
  <1> QED
    BY <1>4 DEF S

-----------------------------------------------------------------------------
(* Lists one after the other *)

Joins(f, t) == f[0] = <<>> /\ \A i \in 1..Len(t) : f[i] = f[i - 1] \o t[i]

LEMMA SeqOfSeqs ==
    ASSUME NEW X, NEW t \in Seq(Seq(X))
    PROVE  /\ Len(t) \in Nat /\ DOMAIN t = 1..Len(t)
           /\ \A i \in 1..Len(t) : /\ t[i] \in Seq(X)
                                   /\ Len(t[i]) \in Nat
                                   /\ DOMAIN t[i] = 1..Len(t[i])
           /\ Len(t) = 0 <=> t = <<>>
  <1>1. Len(t) \in Nat /\ DOMAIN t = 1..Len(t) /\ t \in [1..Len(t) -> Seq(X)]
    BY LenProperties
  <1>2. \A i \in 1..Len(t) : t[i] \in Seq(X)
    BY <1>1
  <1>3. \A l \in Seq(X) : Len(l) \in Nat /\ DOMAIN l = 1..Len(l)
    BY LenProperties
  <1>4. Len(t) = 0 <=> t = <<>>
    BY EmptySeq
  <1> QED  BY <1>1, <1>2, <1>3, <1>4

\* The sequences so far, joined.
LEMMA JoinsExists ==
    ASSUME NEW X, NEW t \in Seq(Seq(X))
    PROVE  \E f \in [0..Len(t) -> Seq(X)] : Joins(f, t)
  <1> DEFINE n == Len(t)
             step == [w \in Seq(X) \X (1..n) |-> w[1] \o t[w[2]]]
  <1>1. n \in Nat /\ \A i \in 1..n : t[i] \in Seq(X)
    BY SeqOfSeqs
  <1>2. step \in [Seq(X) \X (1..n) -> Seq(X)]
    <2>1. \A w \in Seq(X) \X (1..n) : w[1] \in Seq(X) /\ t[w[2]] \in Seq(X)
      BY <1>1
    <2>2. \A u, v \in Seq(X) : u \o v \in Seq(X)
      BY ConcatProperties
    <2> QED  BY <2>1, <2>2
  <1> HIDE DEF step
  <1>3. <<>> \in Seq(X)
    OBVIOUS
  <1>4. PICK f \in [0..n -> Seq(X)] : Unfolds(f, n, <<>>, step)
    <2> HIDE DEF n
    <2> QED
      BY <1>1, <1>2, <1>3, Recursion, Zenon
  <1>5. ASSUME NEW i \in 1..n PROVE f[i] = f[i - 1] \o t[i]
    <2>0. i - 1 \in 0..n
      BY <1>1
    <2>1. f[i - 1] \in Seq(X)
      BY <1>4, <2>0, Zenon
    <2>2. <<f[i - 1], i>> \in Seq(X) \X (1..n)
      BY <2>1
    <2>3. step[<<f[i - 1], i>>] = f[i - 1] \o t[i]
      BY <2>2 DEF step
    <2> QED
      BY <1>4, <2>3 DEF Unfolds
  <1>6. Joins(f, t)
    BY <1>4, <1>5 DEF Joins, Unfolds
  <1> QED
    BY <1>4, <1>6

\* FlattenSeq joins them all.
LEMMA FlattenIs ==
    ASSUME NEW X, NEW t \in Seq(Seq(X)), NEW f \in [0..Len(t) -> Seq(X)], Joins(f, t)
    PROVE  FlattenSeq(t) = f[Len(t)]
  <1> DEFINE n == Len(t)
             Body(g) == [i \in 1..n |-> IF i = 1 THEN t[i] ELSE g[i - 1] \o t[i]]
             all == CHOOSE g : g = Body(g)
  <1>1. n \in Nat
    BY SeqOfSeqs
  <1>2. CASE n = 0
    BY <1>2, SeqOfSeqs DEF FlattenSeq, Joins
  <1>3. CASE n # 0
    <2>1. FlattenSeq(t) = all[n]
      BY <1>3 DEF FlattenSeq
    <2> DEFINE h == [i \in 1..n |-> f[i]]
    <2>2. f[1] = t[1]
      <3>1. 1 \in 1..n /\ 1 - 1 = 0
        BY <1>1, <1>3
      <3>2. f[1] = <<>> \o t[1] /\ t[1] \in Seq(X)
        BY <3>1, SeqOfSeqs DEF Joins
      <3> QED  BY <3>2, ConcatEmptySeq
    <2>3. ASSUME NEW i \in 1..n PROVE h[i] = IF i = 1 THEN t[i] ELSE h[i - 1] \o t[i]
      <3>1. i # 1 => i - 1 \in 1..n
        BY <1>1
      <3>2. f[i] = f[i - 1] \o t[i]
        BY DEF Joins
      <3> QED  BY <2>2, <3>1, <3>2
    <2>4. h = Body(h)
      BY <2>3
    <2> HIDE DEF h, Body
    <2>5. all = Body(all)
      BY <2>4, Zenon
    <2> USE DEF Body
    <2> HIDE DEF all
    <2> DEFINE S == {i \in 0..n : i > 0 => all[i] = f[i]}
    <2>6. 0 \in S
      BY <1>1
    <2>7. ASSUME NEW i \in 1..n, i - 1 \in S PROVE i \in S
      <3>1. all[i] = IF i = 1 THEN t[i] ELSE all[i - 1] \o t[i]
        BY <2>5
      <3>2. f[i] = f[i - 1] \o t[i]
        BY DEF Joins
      <3>3. i # 1 => all[i - 1] = f[i - 1]
        BY <1>1, <2>7
      <3>4. all[i] = f[i]
        BY <2>2, <3>1, <3>2, <3>3
      <3> QED  BY <1>1, <3>4
    <2> HIDE DEF S
    <2>8. 0..n \subseteq S
      BY <1>1, <2>6, <2>7, Induction
    <2>9. all[n] = f[n]
      <3>1. n \in 0..n /\ n > 0
        BY <1>1, <1>3
      <3>2. n \in S
        BY <2>8, <3>1
      <3> QED  BY <3>1, <3>2 DEF S
    <2> QED  BY <2>1, <2>9
  <1> QED  BY <1>2, <1>3

LEMMA FlattenType ==
    ASSUME NEW X, NEW t \in Seq(Seq(X))
    PROVE  FlattenSeq(t) \in Seq(X)
  <1>1. PICK f \in [0..Len(t) -> Seq(X)] : Joins(f, t)
    BY JoinsExists
  <1>2. Len(t) \in 0..Len(t)
    BY SeqOfSeqs
  <1> QED  BY <1>1, <1>2, FlattenIs

\* One more list comes last.
LEMMA FlattenAppend ==
    ASSUME NEW X, NEW t \in Seq(Seq(X)), NEW l \in Seq(X)
    PROVE  FlattenSeq(Append(t, l)) = FlattenSeq(t) \o l
  <1> DEFINE u == Append(t, l)
  <1>1. /\ Len(t) \in Nat /\ u \in Seq(Seq(X)) /\ Len(u) = Len(t) + 1
        /\ u[Len(t) + 1] = l
        /\ \A i \in 1..Len(t) : u[i] = t[i]
    BY SeqOfSeqs, AppendProperties
  <1> HIDE DEF u
  <1>2. PICK f \in [0..Len(u) -> Seq(X)] : Joins(f, u)
    BY <1>1, JoinsExists
  <1> DEFINE g == [i \in 0..Len(t) |-> f[i]]
  <1>3. g \in [0..Len(t) -> Seq(X)] /\ g[Len(t)] = f[Len(t)]
    BY <1>1
  <1>4. Joins(g, t)
    <2>1. 0 \in 0..Len(t) /\ \A i \in 1..Len(t) : i \in 0..Len(t) /\ i - 1 \in 0..Len(t) /\ i \in 1..Len(u)
      BY <1>1
    <2>2. \A i \in 0..Len(t) : g[i] = f[i]
      OBVIOUS
    <2> HIDE DEF g
    <2> QED  BY <1>1, <1>2, <2>1, <2>2 DEF Joins
  <1> HIDE DEF g
  <1>5. FlattenSeq(t) = f[Len(t)]
    BY <1>3, <1>4, FlattenIs
  <1>6. FlattenSeq(u) = f[Len(t) + 1]
    BY <1>1, <1>2, FlattenIs
  <1>7. f[Len(t) + 1] = f[Len(t)] \o l
    <2>1. Len(t) + 1 \in 1..Len(u) /\ (Len(t) + 1) - 1 = Len(t)
      BY <1>1
    <2> QED  BY <1>1, <1>2, <2>1 DEF Joins
  <1> QED  BY <1>5, <1>6, <1>7 DEF u

\* F has each element of the first n sequences of t once: the element at k comes
\* from column col[k] of row row[k].
Spread(F, t, n, row, col) ==
    /\ \A k \in 1..Len(F) : /\ row[k] \in 1..n
                            /\ col[k] \in 1..Len(t[row[k]])
                            /\ F[k] = t[row[k]][col[k]]
    /\ \A k, l \in 1..Len(F) : row[k] = row[l] /\ col[k] = col[l] => k = l
    /\ \A a \in 1..n : \A b \in 1..Len(t[a]) : \E k \in 1..Len(F) : row[k] = a /\ col[k] = b

LEMMA SpreadStep ==
    ASSUME NEW X, NEW t \in Seq(Seq(X)), NEW i \in 1..Len(t), NEW F \in Seq(X),
           NEW row, NEW col, Spread(F, t, i - 1, row, col)
    PROVE  \E row2, col2 : Spread(F \o t[i], t, i, row2, col2)
  <1> DEFINE l == t[i]
             G == F \o l
             m == Len(F)
             row2 == [k \in 1..Len(G) |-> IF k <= m THEN row[k] ELSE i]
             col2 == [k \in 1..Len(G) |-> IF k <= m THEN col[k] ELSE k - m]
  <1>1. /\ l \in Seq(X) /\ Len(l) \in Nat /\ i \in Nat /\ m \in Nat
        /\ \A a \in 1..i : Len(t[a]) \in Nat
    <2>1. Len(t) \in Nat
      BY SeqOfSeqs
    <2>2. i \in Nat /\ 1..i \subseteq 1..Len(t)
      BY <2>1
    <2>3. m \in Nat
      BY LenProperties
    <2> QED  BY <2>2, <2>3, SeqOfSeqs
  <1>2. /\ Len(G) = m + Len(l)
        /\ \A k \in 1..Len(G) : G[k] = IF k <= m THEN F[k] ELSE l[k - m]
    <2> HIDE DEF l
    <2> QED  BY <1>1, ConcatProperties
  <1>3. /\ \A k \in 1..m : k \in 1..Len(G) /\ row2[k] = row[k] /\ col2[k] = col[k]
        /\ \A k \in 1..Len(G) : ~(k <= m) => row2[k] = i /\ col2[k] = k - m
        /\ \A k \in 1..Len(G) : k <= m => k \in 1..m
        /\ \A k \in 1..Len(G) : ~(k <= m) => k - m \in 1..Len(l)
    <2> HIDE DEF G, l, m
    <2> QED  BY <1>1, <1>2
  <1>4. /\ \A k \in 1..m : /\ row[k] \in 1..(i - 1)
                           /\ col[k] \in 1..Len(t[row[k]])
                           /\ F[k] = t[row[k]][col[k]]
        /\ \A k, j \in 1..m : row[k] = row[j] /\ col[k] = col[j] => k = j
        /\ \A a \in 1..(i - 1) : \A b \in 1..Len(t[a]) : \E k \in 1..m : row[k] = a /\ col[k] = b
    BY DEF Spread
  <1>5. \A a \in 1..(i - 1) : a \in 1..i /\ a # i
    BY <1>1
  <1>6. i \in 1..i /\ \A a \in 1..i : a = i \/ a \in 1..(i - 1)
    BY <1>1
  <1> HIDE DEF row2, col2, G, l, m
  <1>7. ASSUME NEW k \in 1..Len(G)
        PROVE  row2[k] \in 1..i /\ col2[k] \in 1..Len(t[row2[k]]) /\ G[k] = t[row2[k]][col2[k]]
    <2>1. CASE k <= m
      BY <1>2, <1>3, <1>4, <1>5, <2>1
    <2>2. CASE ~(k <= m)
      BY <1>2, <1>3, <1>6, <2>2 DEF l
    <2> QED  BY <2>1, <2>2
  <1>8. ASSUME NEW k \in 1..Len(G), NEW j \in 1..Len(G), row2[k] = row2[j], col2[k] = col2[j]
        PROVE  k = j
    <2>1. CASE k <= m /\ j <= m
      BY <1>3, <1>4, <1>8, <2>1
    <2>2. CASE k <= m /\ ~(j <= m)
      BY <1>3, <1>4, <1>5, <1>8, <2>2
    <2>3. CASE ~(k <= m) /\ j <= m
      BY <1>3, <1>4, <1>5, <1>8, <2>3
    <2>4. CASE ~(k <= m) /\ ~(j <= m)
      <3>1. k - m = j - m
        BY <1>3, <1>8, <2>4
      <3> QED  BY <1>1, <1>2, <3>1
    <2> QED  BY <2>1, <2>2, <2>3, <2>4
  <1>9. ASSUME NEW a \in 1..i, NEW b \in 1..Len(t[a])
        PROVE  \E k \in 1..Len(G) : row2[k] = a /\ col2[k] = b
    <2>1. CASE a = i
      <3>1. b \in 1..Len(l)
        BY <2>1 DEF l
      <3>2. b + m \in 1..Len(G) /\ ~(b + m <= m) /\ (b + m) - m = b
        BY <1>1, <1>2, <3>1
      <3> QED  BY <1>3, <2>1, <3>2
    <2>2. CASE a # i
      <3>1. PICK k \in 1..m : row[k] = a /\ col[k] = b
        BY <1>4, <1>6, <2>2
      <3> QED  BY <1>3, <3>1
    <2> QED  BY <2>1, <2>2
  <1>10. Spread(G, t, i, row2, col2)
    BY <1>7, <1>8, <1>9 DEF Spread
  <1> QED  BY <1>10 DEF G, l

LEMMA FlattenSpread ==
    ASSUME NEW X, NEW t \in Seq(Seq(X))
    PROVE  \E row, col : Spread(FlattenSeq(t), t, Len(t), row, col)
  <1>1. PICK f \in [0..Len(t) -> Seq(X)] : Joins(f, t)
    BY JoinsExists
  <1>2. Len(t) \in Nat
    BY SeqOfSeqs
  <1> DEFINE P(n) == \E row, col : Spread(f[n], t, n, row, col)
             S == {n \in 0..Len(t) : P(n)}
  <1>3. 0 \in S
    <2>1. f[0] = <<>> /\ Len(<<>>) = 0 /\ 1..0 = {}
      BY <1>1 DEF Joins
    <2>2. Spread(f[0], t, 0, <<>>, <<>>)
      BY <2>1, Zenon DEF Spread
    <2>3. P(0)
      BY <2>2
    <2> QED  BY <1>2, <2>3
  <1>4. ASSUME NEW i \in 1..Len(t), i - 1 \in S PROVE i \in S
    <2>1. PICK row, col : Spread(f[i - 1], t, i - 1, row, col)
      BY <1>4, Zenon
    <2>2. i - 1 \in 0..Len(t) /\ i \in 0..Len(t)
      BY <1>2
    <2>3. f[i - 1] \in Seq(X)
      BY <2>2, Zenon
    <2>4. \E row2, col2 : Spread(f[i - 1] \o t[i], t, i, row2, col2)
      BY <2>1, <2>3, SpreadStep
    <2>5. P(i)
      BY <1>1, <2>4 DEF Joins
    <2> QED  BY <2>2, <2>5
  <1> HIDE DEF P, S
  <1>5. 0..Len(t) \subseteq S
    BY <1>2, <1>3, <1>4, Induction
  <1>6. Len(t) \in S
    BY <1>2, <1>5
  <1>7. P(Len(t))
    BY <1>6 DEF S
  <1>8. FlattenSeq(t) = f[Len(t)]
    BY <1>1, FlattenIs
  <1> QED  BY <1>7, <1>8 DEF P

-----------------------------------------------------------------------------
(* What the pages of a chain list *)

Lists(s, c) == [i \in 1..Len(c) |-> s[c[i]].list]

LEMMA ListsFacts ==
    ASSUME NEW s \in Seq(Content), NEW r, NEW kind \in {"catalog", "dir"}, NEW c,
           IsChain(s, r, kind, c)
    PROVE  /\ Lists(s, c) \in Seq(Seq(Items(kind)))
           /\ Len(Lists(s, c)) = Len(c)
           /\ \A i \in 1..Len(c) : Lists(s, c)[i] = s[c[i]].list
           /\ \A i \in 1..Len(c) : s[c[i]].list \in Seq(Items(kind))
  <1>1. Len(c) \in Nat
    BY FileFacts DEF IsChain
  <1>2. ASSUME NEW i \in 1..Len(c) PROVE s[c[i]].list \in Seq(Items(kind))
    <2>1. c[i] \in DOMAIN s /\ s[c[i]].kind = kind
      BY DEF IsChain
    <2>2. s[c[i]] \in Content
      BY <2>1, FileFacts
    <2> QED  BY <2>1, <2>2, ContentFacts DEF Items
  <1> DEFINE T == Seq(Items(kind))
  <1>3. Lists(s, c) \in [1..Len(c) -> T] /\ \A i \in 1..Len(c) : Lists(s, c)[i] = s[c[i]].list
    BY <1>2, Zenon DEF Lists
  <1> HIDE DEF T
  <1>4. Lists(s, c) \in Seq(T) /\ Len(Lists(s, c)) = Len(c)
    <2> DEFINE u == Lists(s, c)
    <2>1. u \in [1..Len(c) -> T]
      BY <1>3
    <2> HIDE DEF u
    <2>2. u \in Seq(T) /\ Len(u) = Len(c)
      BY <1>1, <2>1
    <2> QED  BY <2>2 DEF u
  <1> QED  BY <1>2, <1>3, <1>4 DEF T

\* Every item of a chain's pages is listed, once, and nothing else is.
Tells(s, c, L, row, col) ==
    /\ \A k \in 1..Len(L) : /\ row[k] \in 1..Len(c)
                            /\ col[k] \in DOMAIN s[c[row[k]]].list
                            /\ L[k] = s[c[row[k]]].list[col[k]]
    /\ \A k, l \in 1..Len(L) : row[k] = row[l] /\ col[k] = col[l] => k = l
    /\ \A a \in 1..Len(c) : \A b \in DOMAIN s[c[a]].list :
          \E k \in 1..Len(L) : row[k] = a /\ col[k] = b

LEMMA ListedFacts ==
    ASSUME NEW s \in Seq(Content), NEW r, NEW kind \in {"catalog", "dir"}, NEW c,
           IsChain(s, r, kind, c)
    PROVE  /\ Chain(s, r, kind) = c
           /\ Listed(s, r, kind) = FlattenSeq(Lists(s, c))
           /\ Listed(s, r, kind) \in Seq(Items(kind))
           /\ Len(Listed(s, r, kind)) \in Nat
           /\ DOMAIN Listed(s, r, kind) = 1..Len(Listed(s, r, kind))
           /\ \E row, col : Tells(s, c, Listed(s, r, kind), row, col)
  <1>1. Chain(s, r, kind) = c
    BY ChainIs
  <1>2. Listed(s, r, kind) = FlattenSeq(Lists(s, c))
    BY <1>1 DEF Listed, Lists
  <1>3. /\ Lists(s, c) \in Seq(Seq(Items(kind)))
        /\ Len(Lists(s, c)) = Len(c)
        /\ \A i \in 1..Len(c) : Lists(s, c)[i] = s[c[i]].list
    BY ListsFacts
  <1>4. Listed(s, r, kind) \in Seq(Items(kind))
    BY <1>2, <1>3, FlattenType
  <1>5. PICK row, col : Spread(Listed(s, r, kind), Lists(s, c), Len(c), row, col)
    BY <1>2, <1>3, FlattenSpread
  <1>6. \A i \in 1..Len(c) : DOMAIN s[c[i]].list = 1..Len(s[c[i]].list)
    BY FileFacts, ContentFacts DEF IsChain
  <1>7. Tells(s, c, Listed(s, r, kind), row, col)
    <2> DEFINE L == Listed(s, r, kind)
               t == Lists(s, c)
    <2>1. /\ \A k \in 1..Len(L) : /\ row[k] \in 1..Len(c)
                                  /\ col[k] \in 1..Len(t[row[k]])
                                  /\ L[k] = t[row[k]][col[k]]
          /\ \A k, l \in 1..Len(L) : row[k] = row[l] /\ col[k] = col[l] => k = l
          /\ \A a \in 1..Len(c) : \A b \in 1..Len(t[a]) :
                \E k \in 1..Len(L) : row[k] = a /\ col[k] = b
      BY <1>5, Zenon DEF Spread
    <2> HIDE DEF L, t
    <2>2. \A i \in 1..Len(c) : t[i] = s[c[i]].list /\ DOMAIN s[c[i]].list = 1..Len(t[i])
      BY <1>3, <1>6 DEF t
    <2>3. ASSUME NEW k \in 1..Len(L)
          PROVE  /\ row[k] \in 1..Len(c)
                 /\ col[k] \in DOMAIN s[c[row[k]]].list
                 /\ L[k] = s[c[row[k]]].list[col[k]]
      <3>1. row[k] \in 1..Len(c) /\ col[k] \in 1..Len(t[row[k]]) /\ L[k] = t[row[k]][col[k]]
        BY <2>1, Zenon
      <3>2. t[row[k]] = s[c[row[k]]].list /\ DOMAIN s[c[row[k]]].list = 1..Len(t[row[k]])
        BY <2>2, <3>1, Zenon
      <3>3. col[k] \in DOMAIN s[c[row[k]]].list
        BY <3>1, <3>2, Zenon
      <3>4. L[k] = s[c[row[k]]].list[col[k]]
        BY <3>1, <3>2, Zenon
      <3> QED  BY <3>1, <3>3, <3>4
    <2>4. ASSUME NEW a \in 1..Len(c), NEW b \in DOMAIN s[c[a]].list
          PROVE  \E k \in 1..Len(L) : row[k] = a /\ col[k] = b
      <3>1. b \in 1..Len(t[a])
        BY <2>2, Zenon
      <3> QED  BY <2>1, <3>1, Zenon
    <2> QED  BY <2>1, <2>3, <2>4 DEF Tells, L
  <1>8. /\ Len(Listed(s, r, kind)) \in Nat
        /\ DOMAIN Listed(s, r, kind) = 1..Len(Listed(s, r, kind))
    BY <1>4, LenProperties
  <1> QED  BY <1>1, <1>2, <1>4, <1>7, <1>8

\* What is listed is in a page of the chain, and the other way round.
LEMMA ListedSet ==
    ASSUME NEW s \in Seq(Content), NEW r, NEW kind \in {"catalog", "dir"}, NEW c,
           IsChain(s, r, kind, c)
    PROVE  \A x : x \in ToSet(Listed(s, r, kind)) <=>
                     \E a \in 1..Len(c) : \E b \in DOMAIN s[c[a]].list : x = s[c[a]].list[b]
  <1> DEFINE L == Listed(s, r, kind)
  <1>1. DOMAIN L = 1..Len(L) /\ \E row, col : Tells(s, c, L, row, col)
    BY ListedFacts
  <1> HIDE DEF L
  <1>2. PICK row, col : Tells(s, c, L, row, col)
    BY <1>1
  <1>3. \A x : x \in ToSet(L) <=> \E k \in 1..Len(L) : x = L[k]
    BY <1>1 DEF ToSet
  <1>4. ASSUME NEW k \in 1..Len(L)
        PROVE  \E a \in 1..Len(c) : \E b \in DOMAIN s[c[a]].list : L[k] = s[c[a]].list[b]
    <2>1. /\ row[k] \in 1..Len(c) /\ col[k] \in DOMAIN s[c[row[k]]].list
          /\ L[k] = s[c[row[k]]].list[col[k]]
      BY <1>2, Zenon DEF Tells
    <2> QED  BY <2>1, Zenon
  <1>5. ASSUME NEW a \in 1..Len(c), NEW b \in DOMAIN s[c[a]].list
        PROVE  \E k \in 1..Len(L) : s[c[a]].list[b] = L[k]
    <2>1. PICK k \in 1..Len(L) : row[k] = a /\ col[k] = b
      BY <1>2, Zenon DEF Tells
    <2> QED  BY <1>2, <2>1, Zenon DEF Tells
  <1> SUFFICES ASSUME NEW x
               PROVE  x \in ToSet(L) <=>
                         \E a \in 1..Len(c) : \E b \in DOMAIN s[c[a]].list : x = s[c[a]].list[b]
    BY DEF L
  <1>6. ASSUME x \in ToSet(L)
        PROVE  \E a \in 1..Len(c) : \E b \in DOMAIN s[c[a]].list : x = s[c[a]].list[b]
    <2>1. PICK k \in 1..Len(L) : x = L[k]
      BY <1>3, <1>6
    <2> QED  BY <1>4, <2>1, Zenon
  <1>7. ASSUME NEW a \in 1..Len(c), NEW b \in DOMAIN s[c[a]].list, x = s[c[a]].list[b]
        PROVE  x \in ToSet(L)
    BY <1>3, <1>5, <1>7, Zenon
  <1> QED  BY <1>6, <1>7, Zenon

LEMMA ChainDistinct ==
    ASSUME NEW s \in Seq(Content), Shaped(s), NEW r, NEW kind, NEW c, IsChain(s, r, kind, c),
           NEW i \in 1..Len(c), NEW j \in 1..Len(c), c[i] = c[j]
    PROVE  i = j
  <1>1. Len(c) \in Nat /\ c[i] \in Nat
    BY FileFacts DEF IsChain
  <1>2. CASE i < j
    BY <1>1, <1>2, ChainGrows
  <1>3. CASE j < i
    BY <1>1, <1>3, ChainGrows
  <1> QED  BY <1>1, <1>2, <1>3

-----------------------------------------------------------------------------
(* What good pages show *)

\* A reference to a directory is to a table that opens, with data pages only.
LEMMA GoodTable ==
    ASSUME NEW s \in Seq(Content), Shaped(s), NEW r \in DOMAIN s, s[r].kind = "dir"
    PROVE  /\ TableOpens(s, r)
           /\ \A p \in ToSet(Listed(s, r, "dir")) : p \in DOMAIN s /\ s[p].kind = "data"
  <1> DEFINE c == Chain(s, r, "dir")
  <1>1. IsChain(s, r, "dir", c)
    BY ChainEnds
  <1> HIDE DEF c
  <1>2. c = Chain(s, r, "dir") /\ Len(c) \in Nat /\ Len(c) # 0
    BY <1>1, FileFacts DEF c, IsChain
  <1>3. ASSUME NEW i \in 1..Len(c)
        PROVE  /\ c[i] \in DOMAIN s /\ s[c[i]].kind = "dir"
               /\ Len(s[c[i]].list) <= Cap["dir"]
    <2>1. c[i] \in DOMAIN s /\ s[c[i]].kind = "dir"
      BY <1>1 DEF IsChain
    <2> QED  BY <2>1 DEF Shaped, Kinds
  <1>4. ChainOK(s, r, "dir")
    BY <1>1, <1>2, <1>3 DEF ChainOK, IsChain, Last
  <1>5. ASSUME NEW p \in ToSet(Listed(s, r, "dir")) PROVE p \in DOMAIN s /\ s[p].kind = "data"
    <2>1. PICK a \in 1..Len(c) : \E b \in DOMAIN s[c[a]].list : p = s[c[a]].list[b]
      BY <1>1, <1>5, ListedSet
    <2> QED  BY <1>3, <2>1 DEF Shaped
  <1>6. \A p \in ToSet(Listed(s, r, "dir")) : p # r
    BY <1>5
  <1> QED  BY <1>4, <1>5, <1>6 DEF TableOpens

\* The chain of the catalog.
LEMMA GoodCatalog ==
    ASSUME NEW s \in Seq(Content), Shaped(s)
    PROVE  /\ IsChain(s, Root, "catalog", Chain(s, Root, "catalog"))
           /\ ChainOK(s, Root, "catalog")
           /\ \A e \in ToSet(Listed(s, Root, "catalog")) :
                 e.root \in DOMAIN s /\ s[e.root].kind = "dir"
  <1> DEFINE c == Chain(s, Root, "catalog")
  <1>1. Root \in DOMAIN s /\ s[Root].kind = "catalog"
    BY FileFacts DEF Shaped, Root
  <1>2. IsChain(s, Root, "catalog", c)
    BY <1>1, ChainEnds
  <1> HIDE DEF c
  <1>3. c = Chain(s, Root, "catalog") /\ Len(c) \in Nat /\ Len(c) # 0
    BY <1>2, FileFacts DEF c, IsChain
  <1>4. ASSUME NEW i \in 1..Len(c)
        PROVE  /\ c[i] \in DOMAIN s /\ s[c[i]].kind = "catalog"
               /\ Len(s[c[i]].list) <= Cap["catalog"]
    <2>1. c[i] \in DOMAIN s /\ s[c[i]].kind = "catalog"
      BY <1>2 DEF IsChain
    <2> QED  BY <2>1 DEF Shaped, Kinds
  <1>5. ChainOK(s, Root, "catalog")
    BY <1>2, <1>3, <1>4 DEF ChainOK, IsChain, Last
  <1>6. ASSUME NEW e \in ToSet(Listed(s, Root, "catalog"))
        PROVE  e.root \in DOMAIN s /\ s[e.root].kind = "dir"
    <2>1. PICK a \in 1..Len(c) : \E b \in DOMAIN s[c[a]].list : e = s[c[a]].list[b]
      BY <1>2, <1>6, ListedSet
    <2> QED  BY <1>4, <2>1 DEF Shaped
  <1> QED  BY <1>2, <1>3, <1>5, <1>6

LEMMA GoodSound ==
    ASSUME NEW s \in Seq(Content), Good(s)
    PROVE  Sound(s)
  <1> DEFINE c == Chain(s, Root, "catalog")
             L == Listed(s, Root, "catalog")
  <1>1. Shaped(s) /\ IsChain(s, Root, "catalog", c)
    BY GoodCatalog DEF Good
  <1>2. DOMAIN L = 1..Len(L) /\ \E row, col : Tells(s, c, L, row, col)
    BY <1>1, ListedFacts
  <1>3. DOMAIN c = 1..Len(c)
    BY <1>1, LenProperties DEF IsChain
  <1>4. NamesOnce(s)
    BY DEF Good
  <1> HIDE DEF L
  <1>5. PICK row, col : Tells(s, c, L, row, col)
    BY <1>2
  <1>6. ASSUME NEW i \in 1..Len(L), NEW j \in 1..Len(L), L[i].name = L[j].name
        PROVE  i = j
    <2>1. /\ row[i] \in 1..Len(c) /\ col[i] \in DOMAIN s[c[row[i]]].list
          /\ row[j] \in 1..Len(c) /\ col[j] \in DOMAIN s[c[row[j]]].list
          /\ L[i] = s[c[row[i]]].list[col[i]] /\ L[j] = s[c[row[j]]].list[col[j]]
      BY <1>5, Zenon DEF Tells
    <2>2. c[row[i]] \in ToSet(c) /\ c[row[j]] \in ToSet(c)
      BY <1>3, <2>1 DEF ToSet
    <2>3. c[row[i]] = c[row[j]] /\ col[i] = col[j]
      <3>1. s[c[row[i]]].list[col[i]].name = s[c[row[j]]].list[col[j]].name
        BY <1>6, <2>1
      <3>2. \A p, q \in ToSet(c) : \A m \in DOMAIN s[p].list, n \in DOMAIN s[q].list :
               s[p].list[m].name = s[q].list[n].name => p = q /\ m = n
        BY <1>4, Zenon DEF NamesOnce
      <3> HIDE DEF c
      <3>3. \A m \in DOMAIN s[c[row[i]]].list, n \in DOMAIN s[c[row[j]]].list :
               s[c[row[i]]].list[m].name = s[c[row[j]]].list[n].name
                  => c[row[i]] = c[row[j]] /\ m = n
        BY <2>2, <3>2, Zenon
      <3> QED  BY <2>1, <3>1, <3>3
    <2>4. row[i] = row[j]
      BY <1>1, <2>1, <2>3, ChainDistinct
    <2> QED  BY <1>5, <2>3, <2>4, Zenon DEF Tells
  <1>7. CatalogLoads(s)
    <2>1. ASSUME NEW e \in ToSet(L) PROVE TableOpens(s, e.root)
      BY <1>1, <2>1, GoodCatalog, GoodTable DEF L
    <2> QED  BY <1>1, <1>6, <2>1, GoodCatalog DEF CatalogLoads, L
  <1>8. \A e \in ToSet(L) : \A p \in ToSet(Listed(s, e.root, "dir")) : s[p].kind = "data"
    BY <1>1, GoodCatalog, GoodTable DEF L
  <1> QED  BY <1>7, <1>8 DEF Sound, L

\* Two chains that nobody leads into do not meet.
LEMMA ChainsApart ==
    ASSUME NEW s \in Seq(Content), Shaped(s), Single(s), NEW q, NEW r, NEW c, NEW d,
           IsChain(s, q, "dir", c), IsChain(s, r, "dir", d),
           \A p \in DOMAIN s : s[p].next \notin {q, r},
           NEW i \in 1..Len(c), NEW j \in 1..Len(d), c[i] = d[j]
    PROVE  q = r
  <1>1. Len(c) \in Nat /\ Len(d) \in Nat /\ c[1] = q /\ d[1] = r
    BY FileFacts DEF IsChain
  <1>2. ASSUME NEW m \in 1..Len(c), NEW n \in 1..Len(d)
        PROVE  /\ c[m] \in DOMAIN s /\ m # 1 => (m - 1 \in 1..Len(c) /\ c[m] = s[c[m - 1]].next)
               /\ d[n] \in DOMAIN s /\ n # 1 => (n - 1 \in 1..Len(d) /\ d[n] = s[d[n - 1]].next)
    <2>1. m # 1 => m - 1 \in 1..(Len(c) - 1) /\ (m - 1) + 1 = m /\ m - 1 \in 1..Len(c)
      BY <1>1
    <2>2. n # 1 => n - 1 \in 1..(Len(d) - 1) /\ (n - 1) + 1 = n /\ n - 1 \in 1..Len(d)
      BY <1>1
    <2> QED  BY <2>1, <2>2 DEF IsChain
  <1> DEFINE S == {m \in 0..Len(c) : m > 0 => \A n \in 1..Len(d) : c[m] = d[n] => q = r}
  <1>3. 0 \in S
    BY <1>1
  <1>4. ASSUME NEW m \in 1..Len(c), m - 1 \in S PROVE m \in S
    <2>1. SUFFICES ASSUME NEW n \in 1..Len(d), c[m] = d[n] PROVE q = r
      BY <1>1
    <2>2. c[m] \in DOMAIN s /\ d[n] \in DOMAIN s
      BY DEF IsChain
    <2>3. CASE m = 1 /\ n = 1
      BY <1>1, <2>1, <2>3
    <2>4. CASE m = 1 /\ n # 1
      <3>1. n - 1 \in 1..Len(d) /\ d[n] = s[d[n - 1]].next
        BY <1>2, <2>2, <2>4
      <3>2. d[n - 1] \in DOMAIN s
        BY <3>1 DEF IsChain
      <3> QED  BY <1>1, <2>1, <2>4, <3>1, <3>2
    <2>5. CASE m # 1 /\ n = 1
      <3>1. m - 1 \in 1..Len(c) /\ c[m] = s[c[m - 1]].next
        BY <1>2, <2>2, <2>5
      <3>2. c[m - 1] \in DOMAIN s
        BY <3>1 DEF IsChain
      <3> QED  BY <1>1, <2>1, <2>5, <3>1, <3>2
    <2>6. CASE m # 1 /\ n # 1
      <3>1. /\ n - 1 \in 1..Len(d) /\ d[n] = s[d[n - 1]].next
            /\ m - 1 \in 1..Len(c) /\ c[m] = s[c[m - 1]].next
        BY <1>2, <2>2, <2>6
      <3>2. c[m - 1] \in DOMAIN s /\ d[n - 1] \in DOMAIN s
        BY <3>1 DEF IsChain
      <3>3. c[m] # None
        BY <2>2, FileFacts
      <3>4. c[m - 1] = d[n - 1]
        BY <2>1, <3>1, <3>2, <3>3 DEF Single
      <3>5. m - 1 > 0
        BY <1>1, <3>1
      <3> QED  BY <1>4, <3>1, <3>4, <3>5
    <2> QED  BY <2>3, <2>4, <2>5, <2>6
  <1> HIDE DEF S
  <1>5. 0..Len(c) \subseteq S
    BY <1>1, <1>3, <1>4, Induction
  <1>6. i \in S /\ i > 0
    BY <1>1, <1>5
  <1> QED  BY <1>6 DEF S

LEMMA ConcatInjective ==
    ASSUME NEW X, NEW u \in Seq(X), NEW v \in Seq(X), IsInjective(u), IsInjective(v),
           \A i \in DOMAIN u, j \in DOMAIN v : u[i] # v[j]
    PROVE  IsInjective(u \o v)
  <1>1. /\ u \o v \in Seq(X) /\ Len(u \o v) = Len(u) + Len(v)
        /\ \A i \in 1..(Len(u) + Len(v)) : (u \o v)[i] = IF i <= Len(u) THEN u[i] ELSE v[i - Len(u)]
        /\ Len(u) \in Nat /\ Len(v) \in Nat /\ DOMAIN u = 1..Len(u) /\ DOMAIN v = 1..Len(v)
        /\ DOMAIN (u \o v) = 1..(Len(u) + Len(v))
    BY ConcatProperties, LenProperties
  <1> DEFINE w == u \o v
  <1> HIDE DEF w
  <1>2. SUFFICES ASSUME NEW i \in DOMAIN w, NEW j \in DOMAIN w, w[i] = w[j] PROVE i = j
    BY DEF IsInjective, w
  <1>3. /\ i \in 1..(Len(u) + Len(v)) /\ j \in 1..(Len(u) + Len(v))
        /\ w[i] = IF i <= Len(u) THEN u[i] ELSE v[i - Len(u)]
        /\ w[j] = IF j <= Len(u) THEN u[j] ELSE v[j - Len(u)]
    BY <1>1 DEF w
  <1>4. /\ i <= Len(u) => i \in DOMAIN u
        /\ ~(i <= Len(u)) => i - Len(u) \in DOMAIN v
        /\ j <= Len(u) => j \in DOMAIN u
        /\ ~(j <= Len(u)) => j - Len(u) \in DOMAIN v
    BY <1>1, <1>3
  <1>5. CASE i <= Len(u) /\ j <= Len(u)
    BY <1>2, <1>3, <1>4, <1>5 DEF IsInjective
  <1>6. CASE ~(i <= Len(u)) /\ ~(j <= Len(u))
    <2>1. i - Len(u) = j - Len(u)
      BY <1>2, <1>3, <1>4, <1>6 DEF IsInjective
    <2> QED  BY <1>1, <1>3, <2>1
  <1> QED  BY <1>2, <1>3, <1>4, <1>5, <1>6

LEMMA FlattenInjective ==
    ASSUME NEW X, NEW t \in Seq(Seq(X)),
           \A i \in 1..Len(t) : IsInjective(t[i]),
           \A i, j \in 1..Len(t) : i # j =>
              \A a \in DOMAIN t[i], b \in DOMAIN t[j] : t[i][a] # t[j][b]
    PROVE  /\ IsInjective(FlattenSeq(t))
           /\ \A k \in DOMAIN FlattenSeq(t) :
                 \E i \in 1..Len(t) : \E a \in DOMAIN t[i] : FlattenSeq(t)[k] = t[i][a]
  <1> DEFINE F == FlattenSeq(t)
  <1>1. F \in Seq(X) /\ \E row, col : Spread(F, t, Len(t), row, col)
    BY FlattenType, FlattenSpread
  <1>2. DOMAIN F = 1..Len(F)
    BY <1>1, LenProperties
  <1> HIDE DEF F
  <1>3. PICK row, col : Spread(F, t, Len(t), row, col)
    BY <1>1
  <1>4. \A i \in 1..Len(t) : DOMAIN t[i] = 1..Len(t[i])
    BY SeqOfSeqs
  <1>5. ASSUME NEW k \in DOMAIN F
        PROVE  row[k] \in 1..Len(t) /\ col[k] \in DOMAIN t[row[k]] /\ F[k] = t[row[k]][col[k]]
    <2>1. row[k] \in 1..Len(t) /\ col[k] \in 1..Len(t[row[k]]) /\ F[k] = t[row[k]][col[k]]
      BY <1>2, <1>3, Zenon DEF Spread
    <2> QED  BY <1>4, <2>1, Zenon
  <1>6. ASSUME NEW k \in DOMAIN F, NEW l \in DOMAIN F, F[k] = F[l] PROVE k = l
    <2>1. /\ row[k] \in 1..Len(t) /\ col[k] \in DOMAIN t[row[k]] /\ F[k] = t[row[k]][col[k]]
          /\ row[l] \in 1..Len(t) /\ col[l] \in DOMAIN t[row[l]] /\ F[l] = t[row[l]][col[l]]
      BY <1>5
    <2>2. row[k] = row[l]
      BY <1>6, <2>1, Zenon
    <2>3. col[k] = col[l]
      BY <1>6, <2>1, <2>2, Zenon DEF IsInjective
    <2> QED  BY <1>2, <1>3, <2>2, <2>3, Zenon DEF Spread
  <1>7. \A k \in DOMAIN F : \E i \in 1..Len(t) : \E a \in DOMAIN t[i] : F[k] = t[i][a]
    BY <1>5, Zenon
  <1> QED  BY <1>6, <1>7 DEF IsInjective, F

\* The pages of a table: its chain, and the data pages its directories list.
IsTable(s, r, c, w) == c = Chain(s, r, "dir") /\ w = c \o Listed(s, r, "dir")

\* What is in w is a page of the chain c or is listed by one.
Within(s, c, w) == \A k \in DOMAIN w :
    \/ \E a \in 1..Len(c) : w[k] = c[a]
    \/ \E a \in 1..Len(c) : \E b \in DOMAIN s[c[a]].list : w[k] = s[c[a]].list[b]

LEMMA TablePages ==
    ASSUME NEW s \in Seq(Content), Shaped(s), Single(s), NEW r \in DOMAIN s, s[r].kind = "dir",
           NEW c, NEW w, IsTable(s, r, c, w)
    PROVE  /\ IsChain(s, r, "dir", c)
           /\ w \in Seq(Nat)
           /\ IsInjective(w)
           /\ Within(s, c, w)
  <1> DEFINE L == Listed(s, r, "dir")
  <1>1. IsChain(s, r, "dir", c)
    BY ChainEnds DEF IsTable
  <1>2. L \in Seq(Page) /\ \E row, col : Tells(s, c, L, row, col)
    BY <1>1, ListedFacts DEF Items
  <1>3. \A p \in ToSet(L) : p \in DOMAIN s /\ s[p].kind = "data"
    BY GoodTable
  <1>0. w = c \o L
    BY DEF IsTable
  <1> HIDE DEF L
  <1>4. c \in Seq(Nat) /\ L \in Seq(Nat)
    <2>1. \A p \in DOMAIN s : p \in Nat
      BY FileFacts
    <2>2. \A p \in Page : p \in Nat
      BY DEF Page
    <2>3. c \in Seq(DOMAIN s)
      BY <1>1 DEF IsChain
    <2> QED  BY <1>2, <2>1, <2>2, <2>3
  <1>5. DOMAIN c = 1..Len(c) /\ DOMAIN L = 1..Len(L) /\ Len(c) \in Nat /\ Len(L) \in Nat
    BY <1>4, LenProperties
  <1>6. IsInjective(c)
    BY <1>1, <1>5, ChainDistinct DEF IsInjective
  <1>7. PICK row, col : Tells(s, c, L, row, col)
    BY <1>2
  <1>8. ASSUME NEW k \in 1..Len(L)
        PROVE  /\ row[k] \in 1..Len(c) /\ col[k] \in DOMAIN s[c[row[k]]].list
               /\ L[k] = s[c[row[k]]].list[col[k]]
               /\ c[row[k]] \in DOMAIN s /\ s[c[row[k]]].kind = "dir"
               /\ L[k] \in DOMAIN s /\ s[L[k]].kind = "data"
    <2>1. /\ row[k] \in 1..Len(c) /\ col[k] \in DOMAIN s[c[row[k]]].list
          /\ L[k] = s[c[row[k]]].list[col[k]]
      BY <1>7, Zenon DEF Tells
    <2>2. c[row[k]] \in DOMAIN s /\ s[c[row[k]]].kind = "dir"
      BY <1>1, <2>1 DEF IsChain
    <2>3. L[k] \in ToSet(L)
      BY <1>5 DEF ToSet
    <2> QED  BY <1>3, <2>1, <2>2, <2>3
  <1>9. IsInjective(L)
    <2>1. SUFFICES ASSUME NEW k \in 1..Len(L), NEW l \in 1..Len(L), L[k] = L[l] PROVE k = l
      BY <1>5 DEF IsInjective
    <2>2. /\ c[row[k]] \in DOMAIN s /\ c[row[l]] \in DOMAIN s
          /\ s[c[row[k]]].kind = "dir" /\ s[c[row[l]]].kind = "dir"
          /\ col[k] \in DOMAIN s[c[row[k]]].list /\ col[l] \in DOMAIN s[c[row[l]]].list
          /\ s[c[row[k]]].list[col[k]] = s[c[row[l]]].list[col[l]]
          /\ row[k] \in 1..Len(c) /\ row[l] \in 1..Len(c)
      BY <1>8, <2>1
    <2>3. c[row[k]] = c[row[l]] /\ col[k] = col[l]
      BY <2>2 DEF Single
    <2>4. row[k] = row[l]
      BY <1>1, <2>2, <2>3, ChainDistinct
    <2> QED  BY <1>7, <2>3, <2>4, Zenon DEF Tells
  <1>10. \A i \in DOMAIN c, k \in DOMAIN L : c[i] # L[k]
    <2>1. \A i \in 1..Len(c) : s[c[i]].kind = "dir"
      BY <1>1 DEF IsChain
    <2> QED  BY <1>5, <1>8, <2>1
  <1>11. IsInjective(w)
    BY <1>0, <1>4, <1>6, <1>9, <1>10, ConcatInjective
  <1>12. w \in Seq(Nat)
    BY <1>0, <1>4, ConcatProperties
  <1>13. ASSUME NEW k \in DOMAIN w
         PROVE  \/ \E a \in 1..Len(c) : w[k] = c[a]
                \/ \E a \in 1..Len(c) : \E b \in DOMAIN s[c[a]].list : w[k] = s[c[a]].list[b]
    <2>1. /\ k \in 1..(Len(c) + Len(L))
          /\ w[k] = IF k <= Len(c) THEN c[k] ELSE L[k - Len(c)]
      BY <1>0, <1>4, ConcatProperties, LenProperties
    <2>2. CASE k <= Len(c)
      <3>1. k \in 1..Len(c)
        BY <1>5, <2>1, <2>2
      <3> QED  BY <2>1, <2>2, <3>1
    <2>3. CASE ~(k <= Len(c))
      <3> DEFINE m == k - Len(c)
      <3>1. m \in 1..Len(L) /\ w[k] = L[m]
        BY <1>5, <2>1, <2>3
      <3> HIDE DEF m
      <3>2. /\ row[m] \in 1..Len(c) /\ col[m] \in DOMAIN s[c[row[m]]].list
            /\ w[k] = s[c[row[m]]].list[col[m]]
        BY <1>8, <3>1
      <3> QED  BY <3>2, Zenon
    <2> QED  BY <2>2, <2>3
  <1> QED  BY <1>1, <1>11, <1>12, <1>13 DEF Within

LEMMA GoodReferences ==
    ASSUME NEW s \in Seq(Content), Good(s)
    PROVE  IsInjective(References(s))
  <1> DEFINE L == Listed(s, Root, "catalog")
             d == Chain(s, Root, "catalog")
             roots == [i \in DOMAIN L |-> L[i].root]
             t == [i \in DOMAIN roots |-> Chain(s, roots[i], "dir") \o Listed(s, roots[i], "dir")]
  <1>1. Shaped(s) /\ Single(s) /\ NamesOnce(s)
    BY DEF Good
  <1>2. IsChain(s, Root, "catalog", d)
    BY <1>1, GoodCatalog
  <1>3. Len(L) \in Nat /\ DOMAIN L = 1..Len(L) /\ \E row, col : Tells(s, d, L, row, col)
    BY <1>2, ListedFacts
  <1>4. References(s) = d \o FlattenSeq(t)
    BY DEF References
  <1>5. PICK row, col : Tells(s, d, L, row, col)
    BY <1>3
  <1> HIDE DEF L, d
  <1>6. ASSUME NEW i \in 1..Len(L)
        PROVE  /\ row[i] \in 1..Len(d) /\ d[row[i]] \in DOMAIN s /\ s[d[row[i]]].kind = "catalog"
               /\ col[i] \in DOMAIN s[d[row[i]]].list
               /\ roots[i] = s[d[row[i]]].list[col[i]].root
               /\ roots[i] \in DOMAIN s /\ s[roots[i]].kind = "dir"
               /\ \A p \in DOMAIN s : s[p].next # roots[i]
    <2>1. /\ row[i] \in 1..Len(d) /\ col[i] \in DOMAIN s[d[row[i]]].list
          /\ L[i] = s[d[row[i]]].list[col[i]]
      BY <1>5, Zenon DEF Tells
    <2>2. d[row[i]] \in DOMAIN s /\ s[d[row[i]]].kind = "catalog"
      BY <1>2, <2>1 DEF IsChain
    <2>3. roots[i] = L[i].root
      BY <1>3
    <2>4. roots[i] = s[d[row[i]]].list[col[i]].root
      BY <2>1, <2>3
    <2> HIDE DEF roots
    <2>5. roots[i] \in DOMAIN s /\ s[roots[i]].kind = "dir"
      BY <1>1, <2>1, <2>2, <2>4 DEF Shaped
    <2>6. \A p \in DOMAIN s : s[p].next # roots[i]
      BY <1>1, <2>1, <2>2, <2>4 DEF Single
    <2> QED  BY <2>1, <2>2, <2>4, <2>5, <2>6
  <1>7. ASSUME NEW i \in 1..Len(L), NEW j \in 1..Len(L), roots[i] = roots[j] PROVE i = j
    <2> HIDE DEF roots
    <2>1. d[row[i]] = d[row[j]] /\ col[i] = col[j]
      <3> DEFINE p == d[row[i]]
                 q == d[row[j]]
      <3>1. /\ p \in DOMAIN s /\ q \in DOMAIN s /\ s[p].kind = "catalog" /\ s[q].kind = "catalog"
            /\ col[i] \in DOMAIN s[p].list /\ col[j] \in DOMAIN s[q].list
            /\ s[p].list[col[i]].root = s[q].list[col[j]].root
        BY <1>6, <1>7
      <3> HIDE DEF p, q
      <3>2. p = q /\ col[i] = col[j]
        BY <1>1, <3>1 DEF Single
      <3> QED  BY <3>2 DEF p, q
    <2>2. row[i] = row[j]
      BY <1>1, <1>2, <1>6, <2>1, ChainDistinct
    <2> QED  BY <1>5, <2>1, <2>2, Zenon DEF Tells
  <1>8. DOMAIN roots = 1..Len(L)
    BY <1>3
  <1>9. \A i \in 1..Len(L) : t[i] = Chain(s, roots[i], "dir") \o Listed(s, roots[i], "dir")
    BY <1>8
  <1>10. DOMAIN t = 1..Len(L)
    BY <1>8
  <1>11. t = [i \in 1..Len(L) |-> t[i]]
    BY <1>10
  <1> HIDE DEF roots, t
  <1> DEFINE c(i) == Chain(s, roots[i], "dir")
  <1>12. ASSUME NEW i \in 1..Len(L)
         PROVE  /\ IsChain(s, roots[i], "dir", c(i))
                /\ t[i] \in Seq(Nat)
                /\ IsInjective(t[i])
                /\ \A k \in DOMAIN t[i] :
                     \/ \E a \in 1..Len(c(i)) : t[i][k] = c(i)[a]
                     \/ \E a \in 1..Len(c(i)) : \E b \in DOMAIN s[c(i)[a]].list :
                           t[i][k] = s[c(i)[a]].list[b]
    <2>1. roots[i] \in DOMAIN s /\ s[roots[i]].kind = "dir"
      BY <1>6
    <2>2. t[i] = c(i) \o Listed(s, roots[i], "dir")
      BY <1>9
    <2>3. IsTable(s, roots[i], c(i), t[i])
      BY <2>2 DEF IsTable
    <2> DEFINE r == roots[i]
               e == c(i)
               w == t[i]
    <2>4. r \in DOMAIN s /\ s[r].kind = "dir" /\ IsTable(s, r, e, w)
      BY <2>1, <2>3
    <2> HIDE DEF r, e, w, c
    <2>5. IsChain(s, r, "dir", e) /\ w \in Seq(Nat) /\ IsInjective(w) /\ Within(s, e, w)
      BY <1>1, <2>4, TablePages
    <2> QED  BY <2>5, Zenon DEF r, e, w, Within
  <1> HIDE DEF c
  <1>13. t \in Seq(Seq(Nat)) /\ Len(t) = Len(L)
    <2> DEFINE T == Seq(Nat)
    <2>1. \A i \in 1..Len(L) : t[i] \in T
      BY <1>12
    <2> HIDE DEF T
    <2>2. t \in [1..Len(L) -> T]
      BY <1>11, <2>1, Zenon
    <2>3. t \in Seq(T) /\ Len(t) = Len(L)
      BY <1>3, <2>2
    <2> QED  BY <2>3 DEF T
  \* The page at a place of t is a directory of its table, or named by one.
  <1>14. ASSUME NEW i \in 1..Len(L), NEW k \in DOMAIN t[i]
         PROVE  \E a \in 1..Len(c(i)) :
                   /\ c(i)[a] \in DOMAIN s /\ s[c(i)[a]].kind = "dir"
                   /\ \/ t[i][k] = c(i)[a]
                      \/ \E b \in DOMAIN s[c(i)[a]].list :
                            /\ t[i][k] = s[c(i)[a]].list[b]
                            /\ t[i][k] \in DOMAIN s /\ s[t[i][k]].kind = "data"
    <2>1. \A a \in 1..Len(c(i)) : c(i)[a] \in DOMAIN s /\ s[c(i)[a]].kind = "dir"
      BY <1>12, Zenon DEF IsChain
    <2>2. \A a \in 1..Len(c(i)) : \A b \in DOMAIN s[c(i)[a]].list :
             s[c(i)[a]].list[b] \in DOMAIN s /\ s[s[c(i)[a]].list[b]].kind = "data"
      <3> SUFFICES ASSUME NEW a \in 1..Len(c(i)), NEW b \in DOMAIN s[c(i)[a]].list
                   PROVE  s[c(i)[a]].list[b] \in DOMAIN s /\ s[s[c(i)[a]].list[b]].kind = "data"
        OBVIOUS
      <3> DEFINE p == c(i)[a]
      <3>1. p \in DOMAIN s /\ s[p].kind = "dir" /\ b \in DOMAIN s[p].list
        BY <2>1
      <3> HIDE DEF p
      <3>2. s[p].list[b] \in DOMAIN s /\ s[s[p].list[b]].kind = "data"
        BY <1>1, <3>1 DEF Shaped
      <3> QED  BY <3>2 DEF p
    <2>3. \/ \E a \in 1..Len(c(i)) : t[i][k] = c(i)[a]
          \/ \E a \in 1..Len(c(i)) : \E b \in DOMAIN s[c(i)[a]].list :
                t[i][k] = s[c(i)[a]].list[b]
      BY <1>12
    <2> QED  BY <2>1, <2>2, <2>3
  <1>15. ASSUME NEW i \in 1..Len(L), NEW j \in 1..Len(L), i # j,
                NEW k \in DOMAIN t[i], NEW l \in DOMAIN t[j], t[i][k] = t[j][l]
         PROVE  FALSE
    <2>1. PICK a \in 1..Len(c(i)) :
             /\ c(i)[a] \in DOMAIN s /\ s[c(i)[a]].kind = "dir"
             /\ \/ t[i][k] = c(i)[a]
                \/ \E b \in DOMAIN s[c(i)[a]].list :
                      /\ t[i][k] = s[c(i)[a]].list[b]
                      /\ t[i][k] \in DOMAIN s /\ s[t[i][k]].kind = "data"
      BY <1>14
    <2>2. PICK e \in 1..Len(c(j)) :
             /\ c(j)[e] \in DOMAIN s /\ s[c(j)[e]].kind = "dir"
             /\ \/ t[j][l] = c(j)[e]
                \/ \E b \in DOMAIN s[c(j)[e]].list :
                      /\ t[j][l] = s[c(j)[e]].list[b]
                      /\ t[j][l] \in DOMAIN s /\ s[t[j][l]].kind = "data"
      BY <1>14
    <2>3. c(i)[a] = c(j)[e]
      BY <1>1, <1>15, <2>1, <2>2 DEF Single
    <2>4. IsChain(s, roots[i], "dir", c(i)) /\ IsChain(s, roots[j], "dir", c(j))
      BY <1>12
    <2>5. \A p \in DOMAIN s : s[p].next \notin {roots[i], roots[j]}
      BY <1>6
    <2>6. roots[i] = roots[j]
      BY <1>1, <2>3, <2>4, <2>5, ChainsApart
    <2> QED  BY <1>7, <1>15, <2>6
  <1> DEFINE F == FlattenSeq(t)
  <1>16. /\ IsInjective(F)
         /\ \A k \in DOMAIN F : \E i \in 1..Len(t) : \E a \in DOMAIN t[i] : F[k] = t[i][a]
    <2>1. \A i \in 1..Len(t) : IsInjective(t[i])
      BY <1>12, <1>13
    <2>2. \A i, j \in 1..Len(t) : i # j =>
             \A a \in DOMAIN t[i], b \in DOMAIN t[j] : t[i][a] # t[j][b]
      BY <1>13, <1>15
    <2> QED  BY <1>13, <2>1, <2>2, FlattenInjective
  <1>17. F \in Seq(Nat)
    BY <1>13, FlattenType
  <1> HIDE DEF F
  <1>18. ASSUME NEW k \in DOMAIN F PROVE s[F[k]].kind \in {"dir", "data"}
    <2>1. PICK i \in 1..Len(L) : \E a \in DOMAIN t[i] : F[k] = t[i][a]
      BY <1>13, <1>16
    <2> QED  BY <1>14, <2>1
  <1>19. /\ d \in Seq(Nat) /\ DOMAIN d = 1..Len(d)
         /\ \A i \in 1..Len(d) : s[d[i]].kind = "catalog"
    <2>1. \A p \in DOMAIN s : p \in Nat
      BY FileFacts
    <2>2. d \in Seq(DOMAIN s) /\ \A i \in 1..Len(d) : s[d[i]].kind = "catalog"
      BY <1>2 DEF IsChain
    <2>3. d \in Seq(Nat)
      BY <2>1, <2>2
    <2>4. DOMAIN d = 1..Len(d)
      BY <2>3, LenProperties
    <2> QED  BY <2>2, <2>3, <2>4
  <1>20. IsInjective(d)
    BY <1>1, <1>2, <1>19, ChainDistinct DEF IsInjective
  <1>21. \A i \in DOMAIN d, k \in DOMAIN F : d[i] # F[k]
    BY <1>18, <1>19
  <1>22. IsInjective(d \o F)
    BY <1>16, <1>17, <1>19, <1>20, <1>21, ConcatInjective
  <1> QED  BY <1>4, <1>22 DEF F

-----------------------------------------------------------------------------
(* The file is behind the process *)

LEMMA LagsFacts ==
    ASSUME NEW s \in Seq(Content), NEW v \in Seq(Content), Lags(s, v), NEW p \in DOMAIN s
    PROVE  /\ p \in DOMAIN v
           /\ s[p].kind \in Kinds => s[p].kind = v[p].kind
           /\ v[p].kind \in Kinds => s[p].kind = v[p].kind
           /\ s[p].next # None => s[p].next = v[p].next /\ s[p].kind = v[p].kind
           /\ s[p].kind \in Kinds => Len(s[p].list) <= Len(v[p].list)
           /\ s[p].kind \in {"catalog", "dir"} => \A i \in DOMAIN s[p].list :
                 i \in DOMAIN v[p].list /\ s[p].list[i] = v[p].list[i]
  <1>1. p \in DOMAIN v
    BY FileFacts DEF Lags
  <1>2. s[p] \in Content /\ v[p] \in Content
    BY <1>1, FileFacts
  <1>3. s[p].next # None => s[p].next = v[p].next /\ s[p].kind = v[p].kind
    <2>1. s[p].next # None => s[p].kind \in Kinds /\ s[p].next = v[p].next
      BY <1>2, ContentFacts DEF Lags, Kinds
    <2> QED  BY <2>1 DEF Lags
  <1>4. /\ Len(s[p].list) \in Nat /\ DOMAIN s[p].list = 1..Len(s[p].list)
        /\ Len(v[p].list) \in Nat /\ DOMAIN v[p].list = 1..Len(v[p].list)
    BY <1>2, ContentFacts
  <1>5. s[p].kind \in {"catalog", "dir"} => s[p].kind \in Kinds
    BY DEF Kinds
  <1> QED  BY <1>1, <1>3, <1>4, <1>5 DEF Lags

LEMMA LagsShaped ==
    ASSUME NEW s \in Seq(Content), NEW v \in Seq(Content), Lags(s, v), Shaped(v)
    PROVE  Shaped(s)
  <1>1. Len(s) = Len(v) /\ DOMAIN s = DOMAIN v /\ DOMAIN s = 1..Len(s) /\ Len(s) \in Nat
    BY FileFacts DEF Lags
  <1>2. Len(s) >= 2 /\ 1 \in DOMAIN s /\ Root \in DOMAIN s
    BY <1>1 DEF Shaped, Root
  <1>3. \A p \in DOMAIN s : s[p].kind = "header" <=> p = 1
    BY <1>1 DEF Lags, Shaped
  <1>4. s[Root].kind = "catalog"
    BY <1>2, LagsFacts DEF Shaped, Kinds
  <1>5. ASSUME NEW p \in DOMAIN s
        PROVE  /\ s[p].kind \in Kinds => Len(s[p].list) <= Cap[s[p].kind]
               /\ s[p].next # None => /\ s[p].next \in DOMAIN s
                                      /\ s[p].next > p
                                      /\ s[s[p].next].kind = s[p].kind
               /\ s[p].kind = "dir" => \A i \in DOMAIN s[p].list :
                                          /\ s[p].list[i] \in DOMAIN s
                                          /\ s[s[p].list[i]].kind = "data"
               /\ s[p].kind = "catalog" => \A i \in DOMAIN s[p].list :
                                              /\ s[p].list[i].root \in DOMAIN s
                                              /\ s[s[p].list[i].root].kind = "dir"
    <2>1. p \in DOMAIN v /\ s[p] \in Content /\ v[p] \in Content
      BY <1>1, FileFacts
    <2>2. ASSUME s[p].kind \in Kinds PROVE Len(s[p].list) <= Cap[s[p].kind]
      <3>1. /\ s[p].kind = v[p].kind /\ Len(s[p].list) <= Len(v[p].list)
            /\ Len(v[p].list) <= Cap[v[p].kind]
        BY <2>1, <2>2, LagsFacts DEF Shaped
      <3>2. Len(s[p].list) \in Nat /\ Len(v[p].list) \in Nat /\ Cap[s[p].kind] \in Nat
        BY <2>1, <2>2, ContentFacts, TablesAssumption
      <3> QED  BY <3>1, <3>2
    <2>3. ASSUME s[p].next # None
          PROVE  s[p].next \in DOMAIN s /\ s[p].next > p /\ s[s[p].next].kind = s[p].kind
      <3>1. s[p].next = v[p].next /\ s[p].kind = v[p].kind
        BY <2>3, LagsFacts
      <3>2. v[p].next \in DOMAIN v /\ v[p].next > p /\ v[v[p].next].kind = v[p].kind
        BY <2>1, <2>3, <3>1 DEF Shaped
      <3>3. v[p].kind \in Kinds
        BY <2>1, <2>3, <3>1, ContentFacts DEF Kinds
      <3> QED  BY <1>1, <3>1, <3>2, <3>3, LagsFacts
    <2>4. ASSUME s[p].kind = "dir", NEW i \in DOMAIN s[p].list
          PROVE  s[p].list[i] \in DOMAIN s /\ s[s[p].list[i]].kind = "data"
      <3>1. v[p].kind = "dir" /\ i \in DOMAIN v[p].list /\ s[p].list[i] = v[p].list[i]
        BY <2>4, LagsFacts DEF Kinds
      <3>2. v[p].list[i] \in DOMAIN v /\ v[v[p].list[i]].kind = "data"
        BY <2>1, <3>1 DEF Shaped
      <3> QED  BY <1>1, <3>1, <3>2, LagsFacts DEF Kinds
    <2>5. ASSUME s[p].kind = "catalog", NEW i \in DOMAIN s[p].list
          PROVE  s[p].list[i].root \in DOMAIN s /\ s[s[p].list[i].root].kind = "dir"
      <3>1. v[p].kind = "catalog" /\ i \in DOMAIN v[p].list /\ s[p].list[i] = v[p].list[i]
        BY <2>5, LagsFacts DEF Kinds
      <3>2. v[p].list[i].root \in DOMAIN v /\ v[v[p].list[i].root].kind = "dir"
        BY <2>1, <3>1 DEF Shaped
      <3> QED  BY <1>1, <3>1, <3>2, LagsFacts DEF Kinds
    <2> QED  BY <2>2, <2>3, <2>4, <2>5
  <1> QED  BY <1>2, <1>3, <1>4, <1>5 DEF Shaped

LEMMA LagsSingle ==
    ASSUME NEW s \in Seq(Content), NEW v \in Seq(Content), Lags(s, v), Single(v)
    PROVE  Single(s)
  <1> SUFFICES ASSUME NEW p \in DOMAIN s, NEW q \in DOMAIN s
               PROVE  /\ s[p].next = s[q].next => p = q \/ s[p].next = None
                      /\ s[p].kind = s[q].kind => \A i \in DOMAIN s[p].list, j \in DOMAIN s[q].list :
                            /\ s[p].kind = "dir" /\ s[p].list[i] = s[q].list[j] => p = q /\ i = j
                            /\ s[p].kind = "catalog" /\ s[p].list[i].root = s[q].list[j].root
                                  => p = q /\ i = j
                      /\ s[p].kind = "catalog" => \A i \in DOMAIN s[p].list :
                            s[p].list[i].root # s[q].next
    BY DEF Single
  <1>1. p \in DOMAIN v /\ q \in DOMAIN v /\ s[p] \in Content
    BY LagsFacts, FileFacts
  <1>2. s[p].next = s[q].next => p = q \/ s[p].next = None
    BY <1>1, LagsFacts DEF Single
  <1>3. ASSUME s[p].kind = s[q].kind, NEW i \in DOMAIN s[p].list, NEW j \in DOMAIN s[q].list
        PROVE  /\ s[p].kind = "dir" /\ s[p].list[i] = s[q].list[j] => p = q /\ i = j
               /\ s[p].kind = "catalog" /\ s[p].list[i].root = s[q].list[j].root => p = q /\ i = j
    <2>1. SUFFICES ASSUME s[p].kind \in {"dir", "catalog"}
                   PROVE  /\ s[p].kind = "dir" /\ s[p].list[i] = s[q].list[j] => p = q /\ i = j
                          /\ s[p].kind = "catalog" /\ s[p].list[i].root = s[q].list[j].root
                                => p = q /\ i = j
      OBVIOUS
    <2>2. /\ v[p].kind = s[p].kind /\ v[q].kind = s[p].kind
          /\ i \in DOMAIN v[p].list /\ s[p].list[i] = v[p].list[i]
          /\ j \in DOMAIN v[q].list /\ s[q].list[j] = v[q].list[j]
      BY <1>3, <2>1, LagsFacts DEF Kinds
    <2> QED  BY <1>1, <2>2 DEF Single
  <1>4. ASSUME s[p].kind = "catalog", NEW i \in DOMAIN s[p].list
        PROVE  s[p].list[i].root # s[q].next
    <2>1. v[p].kind = "catalog" /\ i \in DOMAIN v[p].list /\ s[p].list[i] = v[p].list[i]
      BY <1>4, LagsFacts DEF Kinds
    <2>2. v[p].list[i].root # v[q].next
      BY <1>1, <2>1 DEF Single
    <2>3. CASE s[q].next # None
      BY <2>1, <2>2, <2>3, LagsFacts
    <2>4. CASE s[q].next = None
      <3>1. s[p].list[i].root # None
        BY <1>1, <1>4, ItemFacts
      <3> QED  BY <2>4, <3>1
    <2> QED  BY <2>3, <2>4
  <1> QED  BY <1>2, <1>3, <1>4

\* What the file has of a chain is a beginning of it.
LEMMA LagsChain ==
    ASSUME NEW s \in Seq(Content), NEW v \in Seq(Content), Lags(s, v), NEW r, NEW kind, NEW c, NEW d,
           IsChain(s, r, kind, c), IsChain(v, r, kind, d), NEW n \in 1..Len(c)
    PROVE  n \in 1..Len(d) /\ c[n] = d[n]
  <1>1. Len(c) \in Nat /\ Len(d) \in Nat /\ Len(c) >= 1 /\ Len(d) >= 1 /\ c[1] = r /\ d[1] = r
    BY FileFacts DEF IsChain
  <1> DEFINE S == {m \in 0..Len(c) : m > 0 => m \in 1..Len(d) /\ c[m] = d[m]}
  <1>2. 0 \in S
    BY <1>1
  <1>3. ASSUME NEW m \in 1..Len(c), m - 1 \in S PROVE m \in S
    <2>1. CASE m = 1
      BY <1>1, <2>1
    <2>2. CASE m # 1
      <3>1. m - 1 \in 1..(Len(c) - 1) /\ m - 1 \in 1..Len(c) /\ m - 1 > 0 /\ (m - 1) + 1 = m
        BY <1>1, <2>2
      <3>2. m - 1 \in 1..Len(d) /\ c[m - 1] = d[m - 1]
        BY <1>3, <3>1
      <3>3. c[m] = s[c[m - 1]].next /\ c[m - 1] \in DOMAIN s
        BY <3>1 DEF IsChain
      <3>4. c[m] # None
        BY FileFacts DEF IsChain
      <3>5. c[m] = v[d[m - 1]].next
        BY <3>2, <3>3, <3>4, LagsFacts
      <3>6. m - 1 # Len(d)
        BY <3>4, <3>5 DEF IsChain
      <3>7. m - 1 \in 1..(Len(d) - 1)
        BY <1>1, <3>2, <3>6
      <3>8. d[m] = v[d[m - 1]].next
        BY <3>1, <3>7 DEF IsChain
      <3> QED  BY <1>1, <3>5, <3>7, <3>8
    <2> QED  BY <2>1, <2>2
  <1> HIDE DEF S
  <1>4. 0..Len(c) \subseteq S
    BY <1>1, <1>2, <1>3, Induction
  <1>5. n \in S /\ n > 0
    BY <1>1, <1>4
  <1> QED  BY <1>5 DEF S

\* A file that is behind a good one is good.
LEMMA LagsGood ==
    ASSUME NEW s \in Seq(Content), NEW v \in Seq(Content), Lags(s, v), Good(v)
    PROVE  Good(s)
  <1>1. Shaped(v) /\ Single(v) /\ NamesOnce(v)
    BY DEF Good
  <1>2. Shaped(s) /\ Single(s)
    BY <1>1, LagsShaped, LagsSingle
  <1> DEFINE c == Chain(s, Root, "catalog")
             d == Chain(v, Root, "catalog")
  <1>3. IsChain(s, Root, "catalog", c) /\ IsChain(v, Root, "catalog", d)
    BY <1>1, <1>2, GoodCatalog
  <1>4. \A p, q \in ToSet(d) : \A i \in DOMAIN v[p].list, j \in DOMAIN v[q].list :
           v[p].list[i].name = v[q].list[j].name => p = q /\ i = j
    BY <1>1, Zenon DEF NamesOnce
  <1>5. NamesOnce(s) <=>
           \A p, q \in ToSet(c) : \A i \in DOMAIN s[p].list, j \in DOMAIN s[q].list :
              s[p].list[i].name = s[q].list[j].name => p = q /\ i = j
    BY DEF NamesOnce
  <1> HIDE DEF c, d
  <1>6. DOMAIN c = 1..Len(c) /\ DOMAIN d = 1..Len(d)
    BY <1>3, LenProperties DEF IsChain
  <1>7. ASSUME NEW p \in ToSet(c)
        PROVE  p \in ToSet(d) /\ p \in DOMAIN s /\ s[p].kind = "catalog"
    <2>1. PICK n \in 1..Len(c) : p = c[n]
      BY <1>6, <1>7 DEF ToSet
    <2>2. n \in 1..Len(d) /\ c[n] = d[n]
      BY <1>3, LagsChain
    <2> QED  BY <1>3, <1>6, <2>1, <2>2 DEF ToSet, IsChain
  <1>8. ASSUME NEW p \in ToSet(c), NEW q \in ToSet(c),
               NEW i \in DOMAIN s[p].list, NEW j \in DOMAIN s[q].list,
               s[p].list[i].name = s[q].list[j].name
        PROVE  p = q /\ i = j
    <2>1. /\ p \in ToSet(d) /\ q \in ToSet(d) /\ p \in DOMAIN s /\ q \in DOMAIN s
          /\ s[p].kind = "catalog" /\ s[q].kind = "catalog"
      BY <1>7
    <2>2. /\ i \in DOMAIN v[p].list /\ s[p].list[i] = v[p].list[i]
          /\ j \in DOMAIN v[q].list /\ s[q].list[j] = v[q].list[j]
      BY <2>1, LagsFacts
    <2>3. v[p].list[i].name = v[q].list[j].name
      BY <1>8, <2>2
    <2> QED  BY <1>4, <2>1, <2>2, <2>3
  <1> QED  BY <1>2, <1>5, <1>8 DEF Good

-----------------------------------------------------------------------------
(* What the steps do to the pages *)

\* Nothing changes for the catalog as long as its pages stay as they are.
LEMMA CatalogSame ==
    ASSUME NEW v \in Seq(Content), NEW w \in Seq(Content), Shaped(v), Len(w) >= Len(v),
           \A p \in DOMAIN v : v[p].kind = "catalog" => w[p] = v[p]
    PROVE  /\ Loaded(w, Root, "catalog") = Loaded(v, Root, "catalog")
           /\ NamesOnce(v) => NamesOnce(w)
  <1> DEFINE c == Chain(v, Root, "catalog")
  <1>1. IsChain(v, Root, "catalog", c)
    BY GoodCatalog
  <1> HIDE DEF c
  <1>2. /\ Len(v) \in Nat /\ Len(w) \in Nat /\ DOMAIN v = 1..Len(v) /\ DOMAIN w = 1..Len(w)
        /\ DOMAIN v \subseteq DOMAIN w
    BY FileFacts
  <1>3. /\ c \in Seq(DOMAIN v) /\ Len(c) \in 1..Len(v) /\ Len(c) \in 1..Len(w)
        /\ Len(c) \in 1..Len(c) /\ Len(c) \in Nat /\ c[1] = Root
        /\ DOMAIN c = 1..Len(c)
    <2>1. c \in Seq(DOMAIN v) /\ Len(c) \in 1..Len(v) /\ c[1] = Root
      BY <1>1 DEF IsChain
    <2>2. DOMAIN c = 1..Len(c)
      BY <2>1, LenProperties
    <2> QED  BY <1>2, <2>1, <2>2
  <1>4. \A i \in 1..Len(c) : c[i] \in DOMAIN w /\ w[c[i]] = v[c[i]] /\ v[c[i]].kind = "catalog"
    BY <1>1, <1>2 DEF IsChain
  <1>5. c \in Seq(DOMAIN w)
    <2> DEFINE D == DOMAIN v
               E == DOMAIN w
    <2>1. D \subseteq E /\ c \in Seq(D)
      BY <1>2, <1>3
    <2> HIDE DEF D, E
    <2>2. c \in Seq(E)
      BY <2>1
    <2> QED  BY <2>2 DEF E
  <1>6. IsChain(w, Root, "catalog", c)
    <2>1. \A i \in 1..(Len(c) - 1) : i \in 1..Len(c)
      BY <1>3
    <2>2. \A i \in 1..(Len(c) - 1) : c[i + 1] = w[c[i]].next
      BY <1>1, <1>4, <2>1 DEF IsChain
    <2>3. w[c[Len(c)]].next = None
      BY <1>1, <1>3, <1>4 DEF IsChain
    <2> QED  BY <1>3, <1>4, <1>5, <2>2, <2>3 DEF IsChain
  <1>7. Chain(v, Root, "catalog") = c /\ Chain(w, Root, "catalog") = c
    BY <1>1, <1>6, ChainIs
  <1>8. Lists(w, c) = Lists(v, c)
    BY <1>4 DEF Lists
  <1>9. Listed(w, Root, "catalog") = Listed(v, Root, "catalog")
    BY <1>1, <1>6, <1>8, ListedFacts
  <1>10. w[Last(c)] = v[Last(c)]
    BY <1>3, <1>4 DEF Last
  <1>11. Loaded(w, Root, "catalog") = Loaded(v, Root, "catalog")
    BY <1>7, <1>9, <1>10 DEF Loaded
  <1>12. ASSUME NamesOnce(v) PROVE NamesOnce(w)
    <2>1. \A p \in ToSet(c) : w[p] = v[p]
      BY <1>3, <1>4 DEF ToSet
    <2> QED  BY <1>7, <1>12, <2>1 DEF NamesOnce
  <1> QED  BY <1>11, <1>12

\* A data page gets other records.
LEMMA DataGood ==
    ASSUME NEW v \in Seq(Content), NEW w \in Seq(Content), Good(v), DOMAIN w = DOMAIN v,
           NEW p \in DOMAIN v, v[p].kind = "data", w[p].kind = "data",
           Len(w[p].list) <= Cap["data"], \A q \in DOMAIN v : q # p => w[q] = v[q]
    PROVE  Good(w) /\ Loaded(w, Root, "catalog") = Loaded(v, Root, "catalog")
  <1>1. Shaped(v) /\ Single(v) /\ NamesOnce(v)
    BY DEF Good
  <1>2. Len(w) = Len(v) /\ Len(v) \in Nat
    BY FileFacts
  <1>3. \A q \in DOMAIN v : v[q].kind # "data" => w[q] = v[q]
    OBVIOUS
  <1>4. \A q \in DOMAIN v : w[q].kind = v[q].kind
    OBVIOUS
  <1>5. \A q \in DOMAIN v : w[q].next = v[q].next
    <2>1. w[p].next = None /\ v[p].next = None
      BY FileFacts, ContentFacts
    <2> QED  BY <2>1
  <1>6. Shaped(w)
    <2>1. Len(w) >= 2 /\ 1 \in DOMAIN v /\ Root \in DOMAIN v
      BY <1>1, <1>2, FileFacts DEF Shaped, Root
    <2>2. w[Root].kind = "catalog" /\ \A q \in DOMAIN w : w[q].kind = "header" <=> q = 1
      BY <1>1, <1>4, <2>1 DEF Shaped
    <2>3. \A q \in DOMAIN w : w[q].kind \in Kinds => Len(w[q].list) <= Cap[w[q].kind]
      BY <1>1 DEF Shaped
    <2>4. \A q \in DOMAIN w :
             /\ w[q].next # None => /\ w[q].next \in DOMAIN w
                                    /\ w[q].next > q
                                    /\ w[w[q].next].kind = w[q].kind
             /\ w[q].kind = "dir" => \A i \in DOMAIN w[q].list :
                                        /\ w[q].list[i] \in DOMAIN w
                                        /\ w[w[q].list[i]].kind = "data"
             /\ w[q].kind = "catalog" => \A i \in DOMAIN w[q].list :
                                            /\ w[q].list[i].root \in DOMAIN w
                                            /\ w[w[q].list[i].root].kind = "dir"
      BY <1>1, <1>3, <1>4, <1>5 DEF Shaped
    <2> QED  BY <2>1, <2>2, <2>3, <2>4 DEF Shaped
  <1>7. Single(w)
    BY <1>1, <1>3, <1>4, <1>5 DEF Single
  <1>8. /\ Loaded(w, Root, "catalog") = Loaded(v, Root, "catalog")
        /\ NamesOnce(w)
    BY <1>1, <1>2, <1>3, CatalogSame
  <1> QED  BY <1>6, <1>7, <1>8 DEF Good

LEMMA Replaced ==
    ASSUME NEW v \in Seq(Content), NEW p \in DOMAIN v, NEW x \in Content
    PROVE  /\ [v EXCEPT ![p] = x] \in Seq(Content)
           /\ Len([v EXCEPT ![p] = x]) = Len(v)
           /\ DOMAIN [v EXCEPT ![p] = x] = DOMAIN v
           /\ [v EXCEPT ![p] = x][p] = x
           /\ \A q \in DOMAIN v : q # p => [v EXCEPT ![p] = x][q] = v[q]
  <1>1. DOMAIN [v EXCEPT ![p] = x] = DOMAIN v
    OBVIOUS
  <1>2. [v EXCEPT ![p] = x][p] = x /\ \A q \in DOMAIN v : q # p => [v EXCEPT ![p] = x][q] = v[q]
    OBVIOUS
  <1>3. [v EXCEPT ![p] = x] \in Seq(Content) /\ Len([v EXCEPT ![p] = x]) = Len(v)
    BY ExceptSeq
  <1> QED  BY <1>1, <1>2, <1>3

\* Nothing refers to a page that is not in use.
LEMMA FreshUnnamed ==
    ASSUME NEW v \in Seq(Content), Shaped(v), NEW n, n # None,
           n \in DOMAIN v => v[n].kind \notin Kinds
    PROVE  Unnamed(v, n)
  <1> SUFFICES ASSUME NEW p \in DOMAIN v
               PROVE  /\ v[p].next # n
                      /\ v[p].kind = "dir" => \A i \in DOMAIN v[p].list : v[p].list[i] # n
                      /\ v[p].kind = "catalog" => \A i \in DOMAIN v[p].list : v[p].list[i].root # n
    BY DEF Unnamed
  <1>1. v[p] \in Content
    BY FileFacts
  <1>2. v[p].next # n
    <2>1. v[p].next # None => v[p].kind \in Kinds
      BY <1>1, ContentFacts DEF Kinds
    <2> QED  BY <2>1 DEF Shaped
  <1>3. v[p].kind = "dir" => \A i \in DOMAIN v[p].list : v[p].list[i] # n
    BY DEF Shaped, Kinds
  <1>4. v[p].kind = "catalog" => \A i \in DOMAIN v[p].list : v[p].list[i].root # n
    BY DEF Shaped, Kinds
  <1> QED  BY <1>2, <1>3, <1>4

\* A page that was not in use is now, and holds nothing.
LEMMA FreshGood ==
    ASSUME NEW v \in Seq(Content), NEW w \in Seq(Content), Good(v), NEW n \in DOMAIN w, n # 1,
           n \in DOMAIN v => v[n].kind \notin Kinds,
           DOMAIN w = DOMAIN v \cup {n}, \A q \in DOMAIN v : q # n => w[q] = v[q],
           w[n].list = <<>>, w[n].next = None, w[n].kind # "header"
    PROVE  /\ Good(w)
           /\ Loaded(w, Root, "catalog") = Loaded(v, Root, "catalog")
           /\ Unnamed(w, n)
           /\ \A d : d # None /\ Unnamed(v, d) => Unnamed(w, d)
  <1>1. Shaped(v) /\ Single(v) /\ NamesOnce(v)
    BY DEF Good
  <1>2. /\ Len(v) \in Nat /\ Len(w) \in Nat /\ Len(w) >= Len(v)
        /\ DOMAIN v = 1..Len(v) /\ DOMAIN w = 1..Len(w)
    <2>1. Len(v) \in Nat /\ Len(w) \in Nat /\ DOMAIN v = 1..Len(v) /\ DOMAIN w = 1..Len(w)
      BY FileFacts
    <2>2. DOMAIN v \subseteq DOMAIN w
      OBVIOUS
    <2> QED  BY <2>1, <2>2
  <1>3. n # None /\ DOMAIN w[n].list = {} /\ \A p \in DOMAIN w : p # n => p \in DOMAIN v /\ w[p] = v[p]
    BY FileFacts
  <1>4. Unnamed(v, n)
    BY <1>1, <1>3, FreshUnnamed
  <1>5. Shaped(w)
    <2>1. Root \in DOMAIN v /\ 1 \in DOMAIN v /\ Root # n
      BY <1>1, <1>2 DEF Shaped, Root, Kinds
    <2>2. /\ w[Root].kind = "catalog" /\ Len(w) >= 2
          /\ \A p \in DOMAIN w : w[p].kind = "header" <=> p = 1
      BY <1>1, <1>2, <1>3, <2>1 DEF Shaped
    <2>3. ASSUME NEW p \in DOMAIN w
          PROVE  /\ w[p].kind \in Kinds => Len(w[p].list) <= Cap[w[p].kind]
                 /\ w[p].next # None => /\ w[p].next \in DOMAIN w
                                        /\ w[p].next > p
                                        /\ w[w[p].next].kind = w[p].kind
                 /\ w[p].kind = "dir" => \A i \in DOMAIN w[p].list :
                                            /\ w[p].list[i] \in DOMAIN w
                                            /\ w[w[p].list[i]].kind = "data"
                 /\ w[p].kind = "catalog" => \A i \in DOMAIN w[p].list :
                                                /\ w[p].list[i].root \in DOMAIN w
                                                /\ w[w[p].list[i].root].kind = "dir"
      <3>1. CASE p = n
        BY <1>3, <3>1, TablesAssumption
      <3>2. CASE p # n
        <4>1. p \in DOMAIN v /\ w[p] = v[p]
          BY <1>3, <3>2
        <4>2. v[p].kind \in Kinds => Len(v[p].list) <= Cap[v[p].kind]
          BY <1>1, <4>1 DEF Shaped
        <4>3. v[p].next # None => /\ v[p].next \in DOMAIN v /\ v[p].next # n
                                  /\ v[p].next > p
                                  /\ v[v[p].next].kind = v[p].kind
          BY <1>1, <1>4, <4>1 DEF Shaped, Unnamed
        <4>4. v[p].kind = "dir" => \A i \in DOMAIN v[p].list :
                 v[p].list[i] \in DOMAIN v /\ v[p].list[i] # n /\ v[v[p].list[i]].kind = "data"
          BY <1>1, <1>4, <4>1 DEF Shaped, Unnamed
        <4>5. v[p].kind = "catalog" => \A i \in DOMAIN v[p].list :
                 /\ v[p].list[i].root \in DOMAIN v /\ v[p].list[i].root # n
                 /\ v[v[p].list[i].root].kind = "dir"
          BY <1>1, <1>4, <4>1 DEF Shaped, Unnamed
        <4> QED  BY <4>1, <4>2, <4>3, <4>4, <4>5
      <3> QED  BY <3>1, <3>2
    <2> QED  BY <2>2, <2>3 DEF Shaped
  <1>6. Single(w)
    <2> SUFFICES ASSUME NEW p \in DOMAIN w, NEW q \in DOMAIN w
                 PROVE  /\ w[p].next = w[q].next => p = q \/ w[p].next = None
                        /\ w[p].kind = w[q].kind => \A i \in DOMAIN w[p].list, j \in DOMAIN w[q].list :
                              /\ w[p].kind = "dir" /\ w[p].list[i] = w[q].list[j] => p = q /\ i = j
                              /\ w[p].kind = "catalog" /\ w[p].list[i].root = w[q].list[j].root
                                    => p = q /\ i = j
                        /\ w[p].kind = "catalog" => \A i \in DOMAIN w[p].list :
                              w[p].list[i].root # w[q].next
      BY DEF Single
    <2>1. CASE p = n
      BY <1>3, <2>1
    <2>2. CASE p # n /\ q = n
      <3>1. w[p].kind = "catalog" => \A i \in DOMAIN w[p].list : w[p].list[i].root # None
        BY FileFacts, ItemFacts
      <3> QED  BY <1>3, <2>2, <3>1
    <2>3. CASE p # n /\ q # n
      BY <1>1, <1>3, <2>3 DEF Single
    <2> QED  BY <2>1, <2>2, <2>3
  <1>7. \A p \in DOMAIN v : v[p].kind = "catalog" => w[p] = v[p]
    BY DEF Kinds
  <1>8. Loaded(w, Root, "catalog") = Loaded(v, Root, "catalog") /\ NamesOnce(w)
    BY <1>1, <1>2, <1>7, CatalogSame
  <1>9. \A d : d # None /\ Unnamed(v, d) => Unnamed(w, d)
    BY <1>3 DEF Unnamed
  <1> QED  BY <1>3, <1>4, <1>5, <1>6, <1>8, <1>9 DEF Good

\* The page an item refers to.
Ref(kind, x) == IF kind = "dir" THEN x ELSE x.root

\* An item goes to the end of a list.
Appended(v, w, p, x) ==
    /\ DOMAIN w = DOMAIN v
    /\ \A q \in DOMAIN v : q # p => w[q] = v[q]
    /\ w[p].kind = v[p].kind
    /\ w[p].next = v[p].next
    /\ Len(w[p].list) = Len(v[p].list) + 1
    /\ \A i \in DOMAIN v[p].list : w[p].list[i] = v[p].list[i]
    /\ w[p].list[Len(v[p].list) + 1] = x

LEMMA PutGood ==
    ASSUME NEW v \in Seq(Content), NEW w \in Seq(Content), Shaped(v), Single(v),
           NEW p \in DOMAIN v, v[p].kind \in {"catalog", "dir"}, NEW x, Appended(v, w, p, x),
           Len(v[p].list) < Cap[v[p].kind],
           Ref(v[p].kind, x) \in DOMAIN v, Unnamed(v, Ref(v[p].kind, x)),
           v[Ref(v[p].kind, x)].kind = IF v[p].kind = "dir" THEN "data" ELSE "dir"
    PROVE  Shaped(w) /\ Single(w)
  <1> DEFINE d == Ref(v[p].kind, x)
             m == Len(v[p].list)
  <1>1. \A q \in DOMAIN v : w[q].kind = v[q].kind /\ w[q].next = v[q].next
    BY DEF Appended
  <1>2. /\ m \in Nat /\ DOMAIN v[p].list = 1..m /\ DOMAIN w[p].list = 1..(m + 1)
        /\ Len(w[p].list) = m + 1
    BY FileFacts, ContentFacts DEF Appended
  <1>3. ASSUME NEW i \in DOMAIN w[p].list
        PROVE  \/ i \in DOMAIN v[p].list /\ w[p].list[i] = v[p].list[i]
               \/ i = m + 1 /\ i \notin DOMAIN v[p].list /\ w[p].list[i] = x
    BY <1>2 DEF Appended
  <1>4. \A q \in DOMAIN v : q # p => w[q] = v[q]
    BY DEF Appended
  <1>5. DOMAIN w = DOMAIN v /\ Len(w) = Len(v)
    BY FileFacts DEF Appended
  <1>6. Shaped(w)
    <2>1. Len(w) >= 2 /\ w[Root].kind = "catalog" /\ \A q \in DOMAIN w : w[q].kind = "header" <=> q = 1
      <3>1. /\ Len(v) >= 2 /\ v[Root].kind = "catalog"
            /\ \A q \in DOMAIN v : v[q].kind = "header" <=> q = 1
        BY DEF Shaped
      <3>2. Root \in DOMAIN v
        BY <3>1, FileFacts DEF Root
      <3> QED  BY <1>1, <1>5, <3>1, <3>2
    <2>2. \A q \in DOMAIN w : w[q].next # None => /\ w[q].next \in DOMAIN w
                                                  /\ w[q].next > q
                                                  /\ w[w[q].next].kind = w[q].kind
      BY <1>1, <1>5 DEF Shaped
    <2>3. ASSUME NEW q \in DOMAIN w, w[q].kind \in Kinds PROVE Len(w[q].list) <= Cap[w[q].kind]
      <3>1. Cap[v[p].kind] \in Nat
        BY TablesAssumption DEF Kinds
      <3>2. Len(w[p].list) <= Cap[w[p].kind]
        BY <1>1, <1>2, <3>1
      <3> QED  BY <1>4, <1>5, <2>3, <3>2 DEF Shaped
    <2>4. ASSUME NEW q \in DOMAIN w, w[q].kind = "dir", NEW i \in DOMAIN w[q].list
          PROVE  w[q].list[i] \in DOMAIN w /\ w[w[q].list[i]].kind = "data"
      <3>1. \/ i \in DOMAIN v[q].list /\ w[q].list[i] = v[q].list[i]
            \/ q = p /\ w[q].list[i] = x
        BY <1>3, <1>4, <1>5
      <3>2. q \in DOMAIN v /\ v[q].kind = "dir" /\ (q = p => d = x /\ v[d].kind = "data")
        BY <1>1, <1>5, <2>4 DEF Ref
      <3>3. w[q].list[i] \in DOMAIN v /\ v[w[q].list[i]].kind = "data"
        BY <3>1, <3>2 DEF Shaped
      <3> QED  BY <1>1, <1>5, <3>3
    <2>5. ASSUME NEW q \in DOMAIN w, w[q].kind = "catalog", NEW i \in DOMAIN w[q].list
          PROVE  w[q].list[i].root \in DOMAIN w /\ w[w[q].list[i].root].kind = "dir"
      <3>1. \/ i \in DOMAIN v[q].list /\ w[q].list[i] = v[q].list[i]
            \/ q = p /\ w[q].list[i] = x
        BY <1>3, <1>4, <1>5
      <3>2. q \in DOMAIN v /\ v[q].kind = "catalog" /\ (q = p => d = x.root /\ v[d].kind = "dir")
        BY <1>1, <1>5, <2>5 DEF Ref
      <3>3. w[q].list[i].root \in DOMAIN v /\ v[w[q].list[i].root].kind = "dir"
        BY <3>1, <3>2 DEF Shaped
      <3> QED  BY <1>1, <1>5, <3>3
    <2> QED  BY <2>1, <2>2, <2>3, <2>4, <2>5 DEF Shaped
  <1>7. Single(w)
    <2>1. ASSUME NEW q \in DOMAIN w, NEW r \in DOMAIN w
          PROVE  w[q].next = w[r].next => q = r \/ w[q].next = None
      BY <1>1, <1>5 DEF Single
    <2>2. ASSUME NEW q \in DOMAIN v, NEW i \in DOMAIN w[q].list
          PROVE  \/ i \in DOMAIN v[q].list /\ w[q].list[i] = v[q].list[i]
                 \/ q = p /\ i = m + 1 /\ w[q].list[i] = x
      BY <1>3, <1>4
    <2>3. ASSUME NEW q \in DOMAIN w, NEW r \in DOMAIN w, w[q].kind = w[r].kind,
                 NEW i \in DOMAIN w[q].list, NEW j \in DOMAIN w[r].list
          PROVE  /\ w[q].kind = "dir" /\ w[q].list[i] = w[r].list[j] => q = r /\ i = j
                 /\ w[q].kind = "catalog" /\ w[q].list[i].root = w[r].list[j].root
                       => q = r /\ i = j
      <3>1. /\ \/ i \in DOMAIN v[q].list /\ w[q].list[i] = v[q].list[i]
               \/ q = p /\ i = m + 1 /\ w[q].list[i] = x
            /\ \/ j \in DOMAIN v[r].list /\ w[r].list[j] = v[r].list[j]
               \/ r = p /\ j = m + 1 /\ w[r].list[j] = x
        BY <1>5, <2>2
      <3>2. q \in DOMAIN v /\ r \in DOMAIN v /\ v[q].kind = w[q].kind /\ v[r].kind = w[q].kind
        BY <1>1, <1>5, <2>3
      <3>3. ASSUME w[q].kind = "dir", w[q].list[i] = w[r].list[j] PROVE q = r /\ i = j
        <4>1. q = p \/ r = p => d = x
          BY <3>2, <3>3 DEF Ref
        <4> QED  BY <3>1, <3>2, <3>3, <4>1 DEF Single, Unnamed
      <3>4. ASSUME w[q].kind = "catalog", w[q].list[i].root = w[r].list[j].root
            PROVE  q = r /\ i = j
        <4>1. q = p \/ r = p => d = x.root
          BY <3>2, <3>4 DEF Ref
        <4> QED  BY <3>1, <3>2, <3>4, <4>1 DEF Single, Unnamed
      <3> QED  BY <3>3, <3>4
    <2>4. ASSUME NEW q \in DOMAIN w, NEW r \in DOMAIN w, w[q].kind = "catalog",
                 NEW i \in DOMAIN w[q].list
          PROVE  w[q].list[i].root # w[r].next
      <3>1. \/ i \in DOMAIN v[q].list /\ w[q].list[i] = v[q].list[i]
            \/ q = p /\ i = m + 1 /\ w[q].list[i] = x
        BY <1>5, <2>2
      <3>2. /\ q \in DOMAIN v /\ r \in DOMAIN v /\ v[q].kind = "catalog"
            /\ w[r].next = v[r].next
        BY <1>1, <1>5, <2>4
      <3>3. q = p => d = x.root
        BY <3>2 DEF Ref
      <3> QED  BY <3>1, <3>2, <3>3 DEF Single, Unnamed
    <2> QED  BY <2>1, <2>3, <2>4 DEF Single
  <1> QED  BY <1>6, <1>7

\* A chain gets its next page.
Linked(v, w, p, n) ==
    /\ DOMAIN w = DOMAIN v
    /\ \A q \in DOMAIN v : q # p => w[q] = v[q]
    /\ w[p].kind = v[p].kind
    /\ w[p].list = v[p].list
    /\ w[p].next = n

LEMMA LinkGood ==
    ASSUME NEW v \in Seq(Content), NEW w \in Seq(Content), Shaped(v), Single(v),
           NEW p \in DOMAIN v, NEW n \in DOMAIN v, Linked(v, w, p, n), v[p].next = None,
           n > p, v[n].kind = v[p].kind, Unnamed(v, n)
    PROVE  /\ Shaped(w) /\ Single(w)
           /\ \A d : d # n /\ Unnamed(v, d) => Unnamed(w, d)
  <1>1. \A q \in DOMAIN v : /\ w[q].kind = v[q].kind /\ w[q].list = v[q].list
                            /\ w[q].next = IF q = p THEN n ELSE v[q].next
    BY DEF Linked
  <1>2. DOMAIN w = DOMAIN v /\ Len(w) = Len(v) /\ None \notin DOMAIN v
    BY FileFacts DEF Linked
  <1>3. Shaped(w)
    <2>1. Len(w) >= 2 /\ w[Root].kind = "catalog" /\ \A q \in DOMAIN w : w[q].kind = "header" <=> q = 1
      <3>1. /\ Len(v) >= 2 /\ v[Root].kind = "catalog"
            /\ \A q \in DOMAIN v : v[q].kind = "header" <=> q = 1
        BY DEF Shaped
      <3>2. Root \in DOMAIN v
        BY <3>1, FileFacts DEF Root
      <3> QED  BY <1>1, <1>2, <3>1, <3>2
    <2>2. \A q \in DOMAIN w : w[q].next # None => /\ w[q].next \in DOMAIN w
                                                  /\ w[q].next > q
                                                  /\ w[w[q].next].kind = w[q].kind
      BY <1>1, <1>2 DEF Shaped
    <2>3. \A q \in DOMAIN w : w[q].kind \in Kinds => Len(w[q].list) <= Cap[w[q].kind]
      BY <1>1, <1>2 DEF Shaped
    <2>4. ASSUME NEW q \in DOMAIN w, w[q].kind = "dir", NEW i \in DOMAIN w[q].list
          PROVE  w[q].list[i] \in DOMAIN w /\ w[w[q].list[i]].kind = "data"
      <3>1. q \in DOMAIN v /\ v[q].kind = "dir" /\ w[q].list = v[q].list
        BY <1>1, <1>2, <2>4
      <3>2. v[q].list[i] \in DOMAIN v /\ v[v[q].list[i]].kind = "data"
        BY <2>4, <3>1 DEF Shaped
      <3> QED  BY <1>1, <1>2, <3>1, <3>2
    <2>5. ASSUME NEW q \in DOMAIN w, w[q].kind = "catalog", NEW i \in DOMAIN w[q].list
          PROVE  w[q].list[i].root \in DOMAIN w /\ w[w[q].list[i].root].kind = "dir"
      <3>1. q \in DOMAIN v /\ v[q].kind = "catalog" /\ w[q].list = v[q].list
        BY <1>1, <1>2, <2>5
      <3>2. v[q].list[i].root \in DOMAIN v /\ v[v[q].list[i].root].kind = "dir"
        BY <2>5, <3>1 DEF Shaped
      <3> QED  BY <1>1, <1>2, <3>1, <3>2
    <2> QED  BY <2>1, <2>2, <2>3, <2>4, <2>5 DEF Shaped
  <1>4. Single(w)
    <2>1. ASSUME NEW q \in DOMAIN w, NEW r \in DOMAIN w
          PROVE  w[q].next = w[r].next => q = r \/ w[q].next = None
      BY <1>1, <1>2 DEF Single, Unnamed
    <2>2. ASSUME NEW q \in DOMAIN w, NEW r \in DOMAIN w, w[q].kind = w[r].kind,
                 NEW i \in DOMAIN w[q].list, NEW j \in DOMAIN w[r].list
          PROVE  /\ w[q].kind = "dir" /\ w[q].list[i] = w[r].list[j] => q = r /\ i = j
                 /\ w[q].kind = "catalog" /\ w[q].list[i].root = w[r].list[j].root
                       => q = r /\ i = j
      BY <1>1, <1>2, <2>2 DEF Single
    <2>3. ASSUME NEW q \in DOMAIN w, NEW r \in DOMAIN w, w[q].kind = "catalog",
                 NEW i \in DOMAIN w[q].list
          PROVE  w[q].list[i].root # w[r].next
      BY <1>1, <1>2, <2>3 DEF Single, Unnamed
    <2> QED  BY <2>1, <2>2, <2>3 DEF Single
  <1>5. \A d : d # n /\ Unnamed(v, d) => Unnamed(w, d)
    BY <1>1, <1>2 DEF Unnamed
  <1> QED  BY <1>3, <1>4, <1>5

\* The lists of all the pages of a chain but the last.
Before(s, c) == [i \in 1..(Len(c) - 1) |-> s[c[i]].list]

LEMMA ListedEnd ==
    ASSUME NEW s \in Seq(Content), NEW r, NEW kind \in {"catalog", "dir"}, NEW c,
           IsChain(s, r, kind, c)
    PROVE  /\ Before(s, c) \in Seq(Seq(Items(kind)))
           /\ s[c[Len(c)]].list \in Seq(Items(kind))
           /\ FlattenSeq(Before(s, c)) \in Seq(Items(kind))
           /\ Listed(s, r, kind) = FlattenSeq(Before(s, c)) \o s[c[Len(c)]].list
  <1> DEFINE T == Seq(Items(kind))
             b == Before(s, c)
             l == s[c[Len(c)]].list
             t == Lists(s, c)
  <1>1. Len(c) \in Nat /\ Len(c) \in 1..Len(c) /\ Len(c) >= 1
    BY FileFacts DEF IsChain
  <1>2. /\ t \in Seq(T) /\ Len(t) = Len(c) /\ \A i \in 1..Len(c) : t[i] = s[c[i]].list
        /\ \A i \in 1..Len(c) : s[c[i]].list \in T
    BY ListsFacts
  <1>3. l \in T /\ t[Len(c)] = l
    BY <1>1, <1>2
  <1>4. \A i \in 1..(Len(c) - 1) : i \in 1..Len(c)
    BY <1>1
  <1>5. b \in [1..(Len(c) - 1) -> T] /\ \A i \in 1..(Len(c) - 1) : b[i] = t[i]
    BY <1>2, <1>4, Zenon DEF Before
  <1>6. Listed(s, r, kind) = FlattenSeq(t)
    BY ListedFacts
  <1> HIDE DEF T, b, l, t
  <1>7. b \in Seq(T) /\ Len(b) = Len(c) - 1
    BY <1>1, <1>5
  <1>8. t = Append(b, l)
    <2>1. /\ Append(b, l) \in Seq(T) /\ Len(Append(b, l)) = Len(c)
          /\ \A i \in 1..(Len(c) - 1) : Append(b, l)[i] = b[i]
          /\ Append(b, l)[Len(c)] = l
      BY <1>1, <1>3, <1>7, AppendProperties
    <2>2. \A i \in 1..Len(c) : i \in 1..(Len(c) - 1) \/ i = Len(c)
      BY <1>1
    <2>3. \A i \in 1..Len(c) : t[i] = Append(b, l)[i]
      BY <1>3, <1>5, <2>1, <2>2
    <2> QED  BY <1>2, <2>1, <2>3, SeqEqual
  <1>9. FlattenSeq(t) = FlattenSeq(b) \o l /\ FlattenSeq(b) \in T
    BY <1>3, <1>7, <1>8, FlattenAppend, FlattenType DEF T
  <1> QED  BY <1>3, <1>6, <1>7, <1>9 DEF T, b, l

\* The catalog gets an entry.
LEMMA CatalogPut ==
    ASSUME NEW v \in Seq(Content), NEW w \in Seq(Content), Shaped(v), NamesOnce(v),
           NEW p, p = Last(Chain(v, Root, "catalog")), NEW x, Appended(v, w, p, x),
           \A e \in ToSet(Listed(v, Root, "catalog")) : e.name # x.name
    PROVE  /\ NamesOnce(w)
           /\ Loaded(w, Root, "catalog") = [list  |-> Append(Listed(v, Root, "catalog"), x),
                                            last  |-> p,
                                            count |-> Len(v[p].list) + 1]
  <1> DEFINE c == Chain(v, Root, "catalog")
             n == Len(c)
             X == Items("catalog")
  <1>1. IsChain(v, Root, "catalog", c)
    BY GoodCatalog
  <1>2. NamesOnce(v) <=> \A q, r \in ToSet(c) : \A i \in DOMAIN v[q].list, j \in DOMAIN v[r].list :
                            v[q].list[i].name = v[r].list[j].name => q = r /\ i = j
    BY DEF NamesOnce
  <1>3. p = Last(c) /\ c = Chain(v, Root, "catalog")
    OBVIOUS
  <1> HIDE DEF c
  <1>4. c \in Seq(DOMAIN v) /\ n \in Nat /\ n >= 1 /\ n \in 1..n /\ n \in 1..Len(v) /\ DOMAIN c = 1..n
    BY <1>1, FileFacts, LenProperties DEF IsChain
  <1>5. p = c[n] /\ p \in DOMAIN v /\ v[p].kind = "catalog" /\ v[p].next = None
    BY <1>1, <1>3, <1>4 DEF IsChain, Last
  <1>6. /\ DOMAIN w = DOMAIN v /\ Len(w) = Len(v)
        /\ \A q \in DOMAIN v : w[q].kind = v[q].kind /\ w[q].next = v[q].next
        /\ \A q \in DOMAIN v : q # p => w[q] = v[q]
    BY FileFacts DEF Appended
  <1>7. IsChain(w, Root, "catalog", c)
    <2>1. \A i \in 1..n : c[i] \in DOMAIN v /\ w[c[i]].kind = "catalog" /\ w[c[i]].next = v[c[i]].next
      BY <1>1, <1>6 DEF IsChain
    <2>2. \A i \in 1..(n - 1) : i \in 1..n
      BY <1>4
    <2>3. \A i \in 1..(n - 1) : c[i + 1] = w[c[i]].next
      BY <1>1, <2>1, <2>2 DEF IsChain
    <2>4. w[c[n]].next = None /\ c[1] = Root
      BY <1>1, <1>4, <2>1 DEF IsChain
    <2> QED  BY <1>4, <1>6, <2>1, <2>3, <2>4 DEF IsChain
  <1>8. Before(w, c) = Before(v, c)
    <2>1. \A i \in 1..(n - 1) : w[c[i]].list = v[c[i]].list
      <3>1. ASSUME NEW i \in 1..(n - 1) PROVE c[i] # p /\ c[i] \in DOMAIN v
        <4>1. i \in 1..n /\ i # n
          <5>1. n \in Nat
            BY <1>4
          <5> HIDE DEF n
          <5> QED  BY <5>1
        <4>2. c[i] = c[n] => i = n
          BY <1>1, <1>4, <4>1, ChainDistinct
        <4>3. c[i] \in DOMAIN v
          BY <1>1, <4>1 DEF IsChain
        <4> QED  BY <1>5, <4>1, <4>2, <4>3
      <3> QED  BY <1>6, <3>1
    <2> QED  BY <2>1 DEF Before
  <1>9. /\ v[p].list \in Seq(X) /\ w[p].list \in Seq(X)
        /\ FlattenSeq(Before(v, c)) \in Seq(X)
        /\ Listed(v, Root, "catalog") = FlattenSeq(Before(v, c)) \o v[p].list
        /\ Listed(w, Root, "catalog") = FlattenSeq(Before(v, c)) \o w[p].list
    <2>1. /\ v[c[n]].list \in Seq(X) /\ FlattenSeq(Before(v, c)) \in Seq(X)
          /\ Listed(v, Root, "catalog") = FlattenSeq(Before(v, c)) \o v[c[n]].list
      BY <1>1, ListedEnd
    <2>2. /\ w[c[n]].list \in Seq(X)
          /\ Listed(w, Root, "catalog") = FlattenSeq(Before(w, c)) \o w[c[n]].list
      BY <1>7, ListedEnd
    <2> QED  BY <1>5, <1>8, <2>1, <2>2
  <1>10. Len(v[p].list) \in Nat /\ DOMAIN v[p].list = 1..Len(v[p].list)
    BY <1>9, LenProperties
  <1>11. x \in X
    <2>1. Len(v[p].list) + 1 \in 1..Len(w[p].list) /\ w[p].list[Len(v[p].list) + 1] = x
      BY <1>10 DEF Appended
    <2> QED  BY <1>9, <2>1, ElementOfSeq
  <1>12. w[p].list = Append(v[p].list, x)
    <2>1. /\ Append(v[p].list, x) \in Seq(X) /\ Len(Append(v[p].list, x)) = Len(v[p].list) + 1
          /\ \A i \in 1..Len(v[p].list) : Append(v[p].list, x)[i] = v[p].list[i]
          /\ Append(v[p].list, x)[Len(v[p].list) + 1] = x
      BY <1>9, <1>11, AppendProperties
    <2>2. \A i \in 1..(Len(v[p].list) + 1) : i \in 1..Len(v[p].list) \/ i = Len(v[p].list) + 1
      BY <1>10
    <2>3. \A i \in 1..Len(w[p].list) : w[p].list[i] = Append(v[p].list, x)[i]
      BY <1>10, <2>1, <2>2 DEF Appended
    <2>4. Len(w[p].list) = Len(v[p].list) + 1
      BY DEF Appended
    <2> DEFINE k == w[p].list
               l == Append(v[p].list, x)
    <2>5. k \in Seq(X) /\ l \in Seq(X) /\ Len(k) = Len(l) /\ \A i \in 1..Len(k) : k[i] = l[i]
      BY <1>9, <2>1, <2>3, <2>4
    <2> HIDE DEF k, l
    <2>6. k = l
      BY <2>5, SeqEqual
    <2> QED  BY <2>6 DEF k, l
  <1>13. Listed(w, Root, "catalog") = Append(Listed(v, Root, "catalog"), x)
    <2> DEFINE F == FlattenSeq(Before(v, c))
               l == v[p].list
    <2>1. F \in Seq(X) /\ l \in Seq(X) /\ x \in X
      BY <1>9, <1>11
    <2>2. Listed(w, Root, "catalog") = F \o Append(l, x) /\ Listed(v, Root, "catalog") = F \o l
      BY <1>9, <1>12
    <2> HIDE DEF F, l, X
    <2>3. F \o Append(l, x) = Append(F \o l, x)
      <3>1. <<x>> \in Seq(X) /\ F \o l \in Seq(X)
        BY <2>1, ConcatProperties
      <3>2. Append(l, x) = l \o <<x>> /\ Append(F \o l, x) = (F \o l) \o <<x>>
        BY <2>1, <3>1, AppendIsConcat
      <3>3. (F \o l) \o <<x>> = F \o (l \o <<x>>)
        BY <2>1, <3>1, ConcatAssociative
      <3> QED  BY <3>2, <3>3
    <2> QED  BY <2>2, <2>3
  <1>14. Chain(w, Root, "catalog") = c
    BY <1>7, ChainIs
  <1>15. Loaded(w, Root, "catalog") = [list  |-> Append(Listed(v, Root, "catalog"), x),
                                       last  |-> p,
                                       count |-> Len(v[p].list) + 1]
    <2>1. Len(w[p].list) = Len(v[p].list) + 1
      BY DEF Appended
    <2> QED  BY <1>3, <1>13, <1>14, <2>1 DEF Loaded
  <1>16. NamesOnce(w)
    <2>1. ASSUME NEW q \in ToSet(c), NEW i \in DOMAIN w[q].list
          PROVE  \/ /\ i \in DOMAIN v[q].list /\ w[q].list[i] = v[q].list[i]
                    /\ v[q].list[i].name # x.name
                 \/ q = p /\ i = Len(v[p].list) + 1 /\ w[q].list[i] = x
      <3>1. PICK a \in 1..n : q = c[a]
        BY <1>4 DEF ToSet
      <3>2. \A j \in DOMAIN v[q].list : v[q].list[j].name # x.name
        <4>1. \A j \in DOMAIN v[q].list : v[q].list[j] \in ToSet(Listed(v, Root, "catalog"))
          BY <1>1, <3>1, ListedSet
        <4> QED  BY <4>1
      <3>3. q \in DOMAIN v
        BY <1>1, <3>1 DEF IsChain
      <3>4. CASE q # p
        BY <1>6, <3>2, <3>3, <3>4
      <3>5. CASE q = p
        <4>1. i \in 1..(Len(v[p].list) + 1)
          BY <1>9, <3>5, LenProperties DEF Appended
        <4>2. i \in DOMAIN v[p].list \/ i = Len(v[p].list) + 1
          BY <1>10, <4>1
        <4> QED  BY <3>2, <3>5, <4>2 DEF Appended
      <3> QED  BY <3>4, <3>5
    <2>2. ASSUME NEW q \in ToSet(c), NEW r \in ToSet(c),
                 NEW i \in DOMAIN w[q].list, NEW j \in DOMAIN w[r].list,
                 w[q].list[i].name = w[r].list[j].name
          PROVE  q = r /\ i = j
      <3>1. /\ \/ /\ i \in DOMAIN v[q].list /\ w[q].list[i] = v[q].list[i]
                  /\ v[q].list[i].name # x.name
               \/ q = p /\ i = Len(v[p].list) + 1 /\ w[q].list[i] = x
            /\ \/ /\ j \in DOMAIN v[r].list /\ w[r].list[j] = v[r].list[j]
                  /\ v[r].list[j].name # x.name
               \/ r = p /\ j = Len(v[p].list) + 1 /\ w[r].list[j] = x
        BY <2>1
      <3>2. \A a \in DOMAIN v[q].list, b \in DOMAIN v[r].list :
               v[q].list[a].name = v[r].list[b].name => q = r /\ a = b
        BY <1>2
      <3> QED  BY <2>2, <3>1, <3>2
    <2> QED  BY <1>14, <2>2 DEF NamesOnce
  <1> QED  BY <1>15, <1>16

\* One page replaced by a later version of itself.
LEMMA LagsBehind ==
    ASSUME NEW v \in Seq(Content), NEW w \in Seq(Content), NEW p \in DOMAIN v,
           DOMAIN w = DOMAIN v, \A q \in DOMAIN v : q # p => w[q] = v[q],
           w[p].kind = v[p].kind, v[p].next \in {None, w[p].next},
           Len(w[p].list) >= Len(v[p].list),
           v[p].kind \in {"catalog", "dir"} => \A i \in DOMAIN v[p].list : w[p].list[i] = v[p].list[i]
    PROVE  Lags(v, w)
  <1>1. Len(v) = Len(w)
    BY FileFacts
  <1>2. \A q \in DOMAIN v : Len(v[q].list) \in Nat /\ Len(w[q].list) \in Nat
    BY FileFacts, ContentFacts
  <1>3. ASSUME NEW q \in DOMAIN v
        PROVE  /\ v[q].kind = w[q].kind
               /\ Len(v[q].list) <= Len(w[q].list)
               /\ v[q].kind \in {"catalog", "dir"} =>
                     \A i \in DOMAIN v[q].list : v[q].list[i] = w[q].list[i]
               /\ v[q].next \in {None, w[q].next}
    <2>1. CASE q = p
      BY <1>2, <2>1
    <2>2. CASE q # p
      <3>1. w[q] = v[q]
        BY <2>2
      <3> QED  BY <1>2, <3>1
    <2> QED  BY <2>1, <2>2
  <1> QED  BY <1>1, <1>3 DEF Lags

LEMMA LagsTransitive ==
    ASSUME NEW s \in Seq(Content), NEW v \in Seq(Content), NEW w \in Seq(Content),
           Lags(s, v), Lags(v, w)
    PROVE  Lags(s, w)
  <1>1. Len(s) = Len(w) /\ DOMAIN s = DOMAIN v /\ DOMAIN v = DOMAIN w
    BY FileFacts DEF Lags
  <1>2. \A q \in DOMAIN s : Len(s[q].list) \in Nat /\ Len(v[q].list) \in Nat /\ Len(w[q].list) \in Nat
    BY <1>1, FileFacts, ContentFacts
  <1>3. ASSUME NEW q \in DOMAIN s
        PROVE  /\ s[q].kind \in Kinds \/ w[q].kind \in Kinds => s[q].kind = w[q].kind
               /\ s[q].kind = "header" <=> w[q].kind = "header"
               /\ s[q].kind \in Kinds => Len(s[q].list) <= Len(w[q].list)
               /\ s[q].kind \in {"catalog", "dir"} =>
                     \A i \in DOMAIN s[q].list : s[q].list[i] = w[q].list[i]
               /\ s[q].next \in {None, w[q].next}
    <2>1. q \in DOMAIN v
      BY <1>1
    <2>2. /\ s[q].kind \in Kinds \/ w[q].kind \in Kinds => s[q].kind = w[q].kind /\ s[q].kind = v[q].kind
          /\ s[q].kind = "header" <=> w[q].kind = "header"
          /\ s[q].next \in {None, w[q].next}
      BY <1>1, <2>1 DEF Lags
    <2>3. s[q].kind \in Kinds => Len(s[q].list) <= Len(w[q].list)
      BY <1>2, <2>1, <2>2 DEF Lags
    <2>4. ASSUME s[q].kind \in {"catalog", "dir"}, NEW i \in DOMAIN s[q].list
          PROVE  s[q].list[i] = w[q].list[i]
      <3>1. i \in DOMAIN v[q].list /\ s[q].list[i] = v[q].list[i]
        BY <2>4, LagsFacts
      <3>2. v[q].kind \in {"catalog", "dir"}
        BY <2>2, <2>4 DEF Kinds
      <3> QED  BY <2>1, <3>1, <3>2, LagsFacts
    <2> QED  BY <2>2, <2>3, <2>4
  <1> QED  BY <1>1, <1>3 DEF Lags

\* Some pages are as before, the others agree.
Together(s, v, t, w) ==
    \A p \in DOMAIN t : t[p] = w[p] \/ (p \in DOMAIN s /\ t[p] = s[p] /\ w[p] = v[p])

LEMMA LagsTogether ==
    ASSUME NEW s \in Seq(Content), NEW v \in Seq(Content), Lags(s, v),
           NEW t \in Seq(Content), NEW w \in Seq(Content), Len(t) = Len(w),
           Together(s, v, t, w)
    PROVE  Lags(t, w)
  <1>1. \A p \in DOMAIN w : Len(w[p].list) \in Nat
    BY FileFacts, ContentFacts
  <1>2. DOMAIN t = DOMAIN w
    BY FileFacts
  <1>3. ASSUME NEW p \in DOMAIN t
        PROVE  /\ t[p].kind \in Kinds \/ w[p].kind \in Kinds => t[p].kind = w[p].kind
               /\ t[p].kind = "header" <=> w[p].kind = "header"
               /\ t[p].kind \in Kinds => Len(t[p].list) <= Len(w[p].list)
               /\ t[p].kind \in {"catalog", "dir"} =>
                     \A i \in DOMAIN t[p].list : t[p].list[i] = w[p].list[i]
               /\ t[p].next \in {None, w[p].next}
    <2>1. CASE t[p] = w[p]
      BY <1>1, <1>2, <2>1
    <2>2. CASE p \in DOMAIN s /\ t[p] = s[p] /\ w[p] = v[p]
      <3>1. /\ s[p].kind \in Kinds \/ v[p].kind \in Kinds => s[p].kind = v[p].kind
            /\ s[p].kind = "header" <=> v[p].kind = "header"
            /\ s[p].kind \in Kinds => Len(s[p].list) <= Len(v[p].list)
            /\ s[p].kind \in {"catalog", "dir"} =>
                  \A i \in DOMAIN s[p].list : s[p].list[i] = v[p].list[i]
            /\ s[p].next \in {None, v[p].next}
        BY <2>2 DEF Lags
      <3> QED  BY <2>2, <3>1
    <2> QED  BY <2>1, <2>2 DEF Together
  <1> QED  BY <1>3 DEF Lags

\* The catalog gets another page.
LEMMA CatalogLink ==
    ASSUME NEW v \in Seq(Content), NEW w \in Seq(Content), Shaped(v), NamesOnce(v), Shaped(w),
           NEW p, p = Last(Chain(v, Root, "catalog")), NEW n \in DOMAIN v, Linked(v, w, p, n),
           v[n].list = <<>>, v[n].next = None, n # p
    PROVE  /\ NamesOnce(w)
           /\ Loaded(w, Root, "catalog") = [list  |-> Listed(v, Root, "catalog"),
                                            last  |-> n,
                                            count |-> 0]
  <1> DEFINE c == Chain(v, Root, "catalog")
             d == Chain(w, Root, "catalog")
             m == Len(c)
             X == Items("catalog")
  <1>1. IsChain(v, Root, "catalog", c) /\ IsChain(w, Root, "catalog", d)
    BY GoodCatalog
  <1>2. NamesOnce(v) <=> \A q, r \in ToSet(c) : \A i \in DOMAIN v[q].list, j \in DOMAIN v[r].list :
                            v[q].list[i].name = v[r].list[j].name => q = r /\ i = j
    BY DEF NamesOnce
  <1>3. p = Last(c) /\ c = Chain(v, Root, "catalog") /\ d = Chain(w, Root, "catalog")
    OBVIOUS
  <1> HIDE DEF c, d
  <1>4. /\ m \in Nat /\ m >= 1 /\ m \in 1..m /\ DOMAIN c = 1..m
        /\ Len(d) \in Nat /\ Len(d) >= 1 /\ DOMAIN d = 1..Len(d) /\ Len(d) \in 1..Len(d)
    BY <1>1, FileFacts, LenProperties DEF IsChain
  <1>5. p = c[m] /\ p \in DOMAIN v /\ v[p].kind = "catalog" /\ v[p].next = None
    BY <1>1, <1>3, <1>4 DEF IsChain, Last
  <1>6. /\ DOMAIN w = DOMAIN v /\ \A q \in DOMAIN v : w[q].list = v[q].list
        /\ w[p].next = n /\ w[n].next = None /\ n # None
    BY FileFacts DEF Linked
  <1>7. Lags(v, w)
    <2>1. Len(v[p].list) \in Nat
      BY <1>5, FileFacts, ContentFacts
    <2> QED  BY <1>5, <2>1, LagsBehind DEF Linked
  <1>8. \A i \in 1..m : i \in 1..Len(d) /\ c[i] = d[i]
    BY <1>1, <1>7, LagsChain
  <1>9. m + 1 \in 1..Len(d) /\ d[m + 1] = n
    <2>1. m \in 1..Len(d) /\ d[m] = p
      BY <1>4, <1>5, <1>8
    <2>2. w[d[Len(d)]].next = None
      BY <1>1 DEF IsChain
    <2>3. m # Len(d)
      BY <1>6, <2>1, <2>2
    <2>4. m \in 1..(Len(d) - 1) /\ m + 1 \in 1..Len(d)
      <3>1. m \in Nat /\ Len(d) \in Nat /\ m <= Len(d) /\ m >= 1
        BY <1>4, <2>1
      <3> HIDE DEF m
      <3> QED  BY <2>3, <3>1
    <2>5. \A i \in 1..(Len(d) - 1) : d[i + 1] = w[d[i]].next
      BY <1>1, Zenon DEF IsChain
    <2>6. d[m + 1] = w[d[m]].next
      BY <2>4, <2>5
    <2> QED  BY <1>6, <2>1, <2>4, <2>6
  <1>10. Len(d) = m + 1
    <2>1. SUFFICES ASSUME Len(d) # m + 1 PROVE FALSE
      OBVIOUS
    <2>2. m + 1 \in 1..(Len(d) - 1) /\ (m + 1) + 1 \in 1..Len(d)
      <3>1. m \in Nat /\ Len(d) \in Nat /\ m + 1 <= Len(d) /\ m >= 1
        BY <1>4, <1>9
      <3> HIDE DEF m
      <3> QED  BY <2>1, <3>1
    <2>3. /\ \A i \in 1..(Len(d) - 1) : d[i + 1] = w[d[i]].next
          /\ \A i \in 1..Len(d) : d[i] \in DOMAIN w
      BY <1>1, Zenon DEF IsChain
    <2>4. d[(m + 1) + 1] = w[d[m + 1]].next /\ d[(m + 1) + 1] \in DOMAIN w
      BY <2>2, <2>3, Zenon
    <2> QED  BY <1>6, <1>9, <2>4, FileFacts
  <1>11. Before(w, d) = Lists(v, c)
    <2>1. \A i \in 1..m : w[d[i]].list = v[c[i]].list
      BY <1>1, <1>6, <1>8 DEF IsChain
    <2>2. 1..(Len(d) - 1) = 1..m
      BY <1>4, <1>10
    <2> QED  BY <2>1, <2>2 DEF Before, Lists
  <1>12. Listed(w, Root, "catalog") = Listed(v, Root, "catalog")
    <2>1. /\ FlattenSeq(Before(w, d)) \in Seq(X)
          /\ Listed(w, Root, "catalog") = FlattenSeq(Before(w, d)) \o w[d[Len(d)]].list
      BY <1>1, ListedEnd
    <2>2. w[d[Len(d)]].list = <<>>
      BY <1>6, <1>9, <1>10
    <2>3. Listed(v, Root, "catalog") = FlattenSeq(Lists(v, c))
      BY <1>1, ListedFacts
    <2>4. \A F \in Seq(X) : F \o <<>> = F
      BY ConcatEmptySeq
    <2> QED  BY <1>11, <2>1, <2>2, <2>3, <2>4
  <1>13. Loaded(w, Root, "catalog") = [list |-> Listed(v, Root, "catalog"), last |-> n, count |-> 0]
    <2>1. Last(d) = n /\ Len(w[n].list) = 0
      BY <1>4, <1>6, <1>9, <1>10 DEF Last
    <2> QED  BY <1>3, <1>12, <2>1 DEF Loaded
  <1>14. NamesOnce(w)
    <2>1. ASSUME NEW q \in ToSet(d), NEW i \in DOMAIN w[q].list
          PROVE  q \in ToSet(c) /\ w[q].list = v[q].list
      <3>1. PICK a \in 1..Len(d) : q = d[a]
        BY <1>4 DEF ToSet
      <3>2. a # m + 1
        BY <1>6, <1>9, <3>1
      <3>3. a \in 1..m
        BY <1>4, <1>10, <3>2
      <3>4. q = c[a] /\ q \in DOMAIN v
        BY <1>1, <1>8, <3>1, <3>3 DEF IsChain
      <3> QED  BY <1>4, <1>6, <3>3, <3>4 DEF ToSet
    <2>2. ASSUME NEW q \in ToSet(d), NEW r \in ToSet(d),
                 NEW i \in DOMAIN w[q].list, NEW j \in DOMAIN w[r].list,
                 w[q].list[i].name = w[r].list[j].name
          PROVE  q = r /\ i = j
      <3>1. q \in ToSet(c) /\ r \in ToSet(c) /\ w[q].list = v[q].list /\ w[r].list = v[r].list
        BY <2>1
      <3> QED  BY <1>2, <2>2, <3>1
    <2> QED  BY <1>3, <2>2 DEF NamesOnce
  <1> QED  BY <1>13, <1>14

-----------------------------------------------------------------------------
(* The steps *)

\* A page with another list or another successor.
LEMMA NewList ==
    ASSUME NEW x \in Content, x.kind \in Kinds, NEW l
    PROVE  [x EXCEPT !.list = l] = [kind |-> x.kind, list |-> l, next |-> x.next]
  <1>1. x \in Image
    BY ContentFacts
  <1> QED  BY <1>1 DEF Image

LEMMA NewNext ==
    ASSUME NEW x \in Content, x.kind \in Kinds, NEW n
    PROVE  [x EXCEPT !.next = n] = [kind |-> x.kind, list |-> x.list, next |-> n]
  <1>1. x \in Image
    BY ContentFacts
  <1> QED  BY <1>1 DEF Image

\* An object that is read from good pages.
LEMMA LoadedFacts ==
    ASSUME NEW s \in Seq(Content), Len(s) <= MaxPage, Shaped(s), NEW kind \in {"catalog", "dir"},
           NEW r \in DOMAIN s, s[r].kind = kind
    PROVE  /\ Loaded(s, r, kind) \in Objects(kind)
           /\ Loaded(s, r, kind).list = Listed(s, r, kind)
           /\ Loaded(s, r, kind).last = Last(Chain(s, r, kind))
           /\ Loaded(s, r, kind).last \in DOMAIN s
           /\ s[Loaded(s, r, kind).last].kind = kind
           /\ s[Loaded(s, r, kind).last].next = None
           /\ Loaded(s, r, kind).count = Len(s[Loaded(s, r, kind).last].list)
  <1> DEFINE c == Chain(s, r, kind)
             o == Loaded(s, r, kind)
  <1>1. IsChain(s, r, kind, c)
    BY ChainEnds
  <1>2. o = [list |-> Listed(s, r, kind), last |-> Last(c), count |-> Len(s[Last(c)].list)]
    BY DEF Loaded
  <1> HIDE DEF c
  <1>3. Len(c) \in Nat /\ Len(c) \in 1..Len(c) /\ Last(c) = c[Len(c)]
    BY <1>1, FileFacts DEF IsChain, Last
  <1>4. Last(c) \in DOMAIN s /\ s[Last(c)].kind = kind /\ s[Last(c)].next = None
    BY <1>1, <1>3 DEF IsChain
  <1>5. Last(c) \in Page
    <2>1. Len(s) \in Nat /\ DOMAIN s = 1..Len(s) /\ MaxPage \in Nat
      BY FileFacts, TablesAssumption
    <2> QED  BY <1>4, <2>1 DEF Page
  <1>6. Len(s[Last(c)].list) \in 0..Cap[kind]
    <2>1. Len(s[Last(c)].list) \in Nat /\ Cap[kind] \in Nat
      BY <1>4, FileFacts, ContentFacts, TablesAssumption DEF Kinds
    <2>2. Len(s[Last(c)].list) <= Cap[kind]
      BY <1>4 DEF Shaped, Kinds
    <2> QED  BY <2>1, <2>2
  <1>7. Listed(s, r, kind) \in Seq(Items(kind))
    BY <1>1, ListedFacts
  <1>8. o \in Objects(kind)
    BY <1>2, <1>5, <1>6, <1>7 DEF Objects
  <1>9. Last(Chain(s, r, kind)) = Last(c)
    BY DEF c
  <1> HIDE DEF o
  <1>10. o.list = Listed(s, r, kind) /\ o.last = Last(c) /\ o.count = Len(s[Last(c)].list)
    BY <1>2
  <1> QED  BY <1>4, <1>8, <1>9, <1>10 DEF o

\* A running process.
LEMMA HeldFacts ==
    ASSUME TInv, up
    PROVE  /\ view \in Seq(Content) /\ store \in Seq(Content)
           /\ Len(view) = Len(store) /\ DOMAIN view = DOMAIN store
           /\ Len(view) \in Nat /\ Len(view) >= 2 /\ Len(view) <= MaxPage
           /\ DOMAIN view = 1..Len(view) /\ DOMAIN view \subseteq Page
           /\ Good(view) /\ Shaped(view) /\ Single(view) /\ NamesOnce(view) /\ Lags(store, view)
           /\ AtEnd(obj["catalog"], "catalog")
           /\ obj["catalog"] = Loaded(view, Root, "catalog")
           /\ obj["catalog"].list = Listed(view, Root, "catalog")
           /\ obj["catalog"].last = Last(Chain(view, Root, "catalog"))
  <1>1. Held /\ Stored
    BY DEF TInv
  <1>2. /\ view \in Seq(Content) /\ store \in Seq(Content)
        /\ Len(view) = Len(store) /\ Len(view) <= MaxPage
        /\ Good(view) /\ Shaped(view) /\ Single(view) /\ NamesOnce(view) /\ Lags(store, view)
        /\ obj["catalog"] = Loaded(view, Root, "catalog")
    BY <1>1 DEF Held, Stored, Good, Lags
  <1>3. Len(view) \in Nat /\ DOMAIN view = 1..Len(view) /\ DOMAIN view = DOMAIN store
    BY <1>2, FileFacts
  <1>4. Len(view) >= 2
    BY <1>2 DEF Shaped
  <1>5. DOMAIN view \subseteq Page
    BY <1>2, <1>3, TablesAssumption DEF Page
  <1>6. Root \in DOMAIN view /\ view[Root].kind = "catalog"
    BY <1>2, <1>3, <1>4 DEF Root, Shaped
  <1>7. /\ obj["catalog"].list = Listed(view, Root, "catalog")
        /\ obj["catalog"].last = Last(Chain(view, Root, "catalog"))
        /\ obj["catalog"].last \in DOMAIN view
        /\ view[obj["catalog"].last].kind = "catalog"
        /\ view[obj["catalog"].last].next = None
        /\ obj["catalog"].count = Len(view[obj["catalog"].last].list)
    BY <1>2, <1>6, LoadedFacts
  <1> QED  BY <1>2, <1>3, <1>4, <1>5, <1>7 DEF AtEnd

\* Between calls nothing is under way.
LEMMA CalledIdle ==
    ASSUME pc' = "idle", job' = NoJob
    PROVE  Called'
  BY DEF Called, Rooting, Storing, Entering, Linking

LEMMA TypedJobs ==
    /\ NoJob \in Jobs /\ NoJob.rec = None
    /\ \A n \in Name : [NoJob EXCEPT !.name = n] \in Jobs /\ [NoJob EXCEPT !.name = n].rec = None
                       /\ [NoJob EXCEPT !.name = n].name = n
    /\ \A n \in Name, r \in Rec, full \in BOOLEAN :
          [name |-> n, rec |-> r, page |-> None, full |-> full] \in Jobs
    /\ \A j \in Jobs, p \in Page : /\ [j EXCEPT !.page = p] \in Jobs
                                   /\ [j EXCEPT !.page = p].page = p
                                   /\ [j EXCEPT !.page = p].rec = j.rec
                                   /\ [j EXCEPT !.page = p].name = j.name
  BY DEF Jobs, NoJob

LEMMA SamePages ==
    ASSUME TInv, up, UNCHANGED pageVars, obj'["catalog"] = obj["catalog"]
    PROVE  Held' /\ Stored' /\ up'
  <1>1. Held /\ Stored /\ store' = store /\ view' = view /\ up' = up
    BY DEF TInv, pageVars
  <1>2. Held'
    BY <1>1 DEF Held
  <1>3. Stored'
    BY <1>1 DEF Stored
  <1> QED  BY <1>1, <1>2, <1>3

\* What is left to show of a step of a running process.
LEMMA Stays ==
    ASSUME Typed', Stored', up', pc' # "down", Held', Called'
    PROVE  TInv'
  BY DEF TInv

LEMMA UpWhen ==
    ASSUME TInv, pc # "down"
    PROVE  up
  BY DEF TInv

\* A call gives up without a change to the pages.
LEMMA GivesUp ==
    ASSUME TInv, pc # "down", GiveUp, UNCHANGED pageVars
    PROVE  TInv'
  <1>1. up /\ Typed /\ pc' = "idle" /\ job' = NoJob /\ obj' = obj /\ out' = out /\ past' = past
    BY UpWhen DEF TInv, GiveUp
  <1>2. Held' /\ Stored' /\ up'
    BY <1>1, SamePages
  <1>3. Typed'
    BY <1>1, <1>2, TypedJobs DEF Typed
  <1> QED  BY <1>1, <1>2, <1>3, CalledIdle, Stays

LEMMA AllocateFailsStep == ASSUME TInv, AllocateFails PROVE TInv'
  BY GivesUp DEF AllocateFails

LEMMA FetchFailsStep == ASSUME TInv, FetchFails PROVE TInv'
  BY GivesUp DEF FetchFails

LEMMA CreateTableStep == ASSUME TInv, NEW n \in Name, CreateTable(n) PROVE TInv'
  <1>1. /\ pc = "idle" /\ pc' = "alloc root" /\ ~Exists(n) /\ job' = [NoJob EXCEPT !.name = n]
        /\ UNCHANGED pageVars /\ obj' = obj /\ out' = out /\ past' = past
    BY DEF CreateTable
  <1>2. up /\ Typed
    BY <1>1, UpWhen DEF TInv
  <1>3. Held' /\ Stored' /\ up'
    BY <1>1, <1>2, SamePages
  <1>4. job' \in Jobs /\ job'.rec = None /\ job'.name = n
    BY <1>1, TypedJobs
  <1>5. Typed'
    BY <1>1, <1>2, <1>3, <1>4 DEF Typed, Rooting
  <1>6. ~Exists(n)'
    BY <1>1 DEF Exists, Entries
  <1>7. Called'
    BY <1>1, <1>4, <1>6 DEF Called, Rooting, Storing, Entering, Linking
  <1> QED  BY <1>1, <1>3, <1>5, <1>7, Stays

LEMMA LoadRootStep == ASSUME TInv, LoadRoot PROVE TInv'
  <1>1. /\ pc = "load root" /\ pc' = "append" /\ UNCHANGED pageVars
        /\ obj' = obj /\ out' = out /\ past' = past /\ job' = job /\ view' = view
    BY DEF LoadRoot, pageVars
  <1>2. up /\ Typed /\ Called
    BY <1>1, UpWhen DEF TInv
  <1>3. Held' /\ Stored' /\ up'
    BY <1>1, <1>2, SamePages
  <1>4. Typed'
    BY <1>1, <1>2, <1>3 DEF Typed, Entering
  <1>5. /\ job.rec = None /\ job.name \in Name /\ ~Exists(job.name)
        /\ job.page \in DOMAIN view /\ view[job.page].kind = "dir" /\ Unnamed(view, job.page)
    BY <1>1, <1>2 DEF Called, Rooting
  <1>6. ~Exists(job.name)'
    BY <1>1, <1>5 DEF Exists, Entries
  <1>7. Called'
    BY <1>1, <1>5, <1>6 DEF Called, Rooting, Storing, Entering, Linking
  <1> QED  BY <1>1, <1>3, <1>4, <1>7, Stays

LEMMA ExtendChainStep == ASSUME TInv, ExtendChain PROVE TInv'
  <1>1. /\ pc = "append" /\ pc' = "alloc link" /\ obj[Target].count >= Cap[Target]
        /\ UNCHANGED pageVars
        /\ obj' = obj /\ out' = out /\ past' = past /\ job' = job /\ view' = view
    BY DEF ExtendChain, pageVars
  <1>2. up /\ Typed /\ Called
    BY <1>1, UpWhen DEF TInv
  <1>3. Held' /\ Stored' /\ up'
    BY <1>1, <1>2, SamePages
  <1>4. Typed'
    BY <1>1, <1>2, <1>3 DEF Typed, Entering, Linking
  <1>5. /\ job.rec = None => job.name \in Name /\ ~Exists(job.name)
        /\ job.rec = None \/ (job.rec \in Rec /\ job.name \in Name /\ out \in Id)
        /\ job.rec # None => AtEnd(obj["dir"], "dir")
        /\ job.page \in DOMAIN view
        /\ view[job.page].kind = (IF job.rec = None THEN "dir" ELSE "data")
        /\ Unnamed(view, job.page)
    BY <1>1, <1>2 DEF Called, Entering
  <1>6. /\ Exists(job.name)' <=> Exists(job.name)
        /\ AtEnd(obj["dir"], "dir")' <=> AtEnd(obj["dir"], "dir")
        /\ Target' = Target
    BY <1>1 DEF Exists, Entries, AtEnd, Target
  <1>7. Called'
    BY <1>1, <1>5, <1>6 DEF Called, Rooting, Storing, Entering, Linking
  <1> QED  BY <1>1, <1>3, <1>4, <1>7, Stays

LEMMA LagsReflexive ==
    ASSUME NEW s \in Seq(Content)
    PROVE  Lags(s, s)
  <1>1. \A p \in DOMAIN s : Len(s[p].list) \in Nat
    BY FileFacts, ContentFacts
  <1> QED  BY <1>1 DEF Lags

\* A page of the file catches up with the process.
LEMMA LagsPersisted ==
    ASSUME NEW s \in Seq(Content), NEW v \in Seq(Content), Lags(s, v), NEW p \in DOMAIN s
    PROVE  /\ [s EXCEPT ![p] = v[p]] \in Seq(Content)
           /\ Len([s EXCEPT ![p] = v[p]]) = Len(s)
           /\ Lags([s EXCEPT ![p] = v[p]], v)
  <1> DEFINE t == [s EXCEPT ![p] = v[p]]
  <1>1. p \in DOMAIN v /\ v[p] \in Content /\ Len(s) = Len(v)
    BY FileFacts DEF Lags
  <1>2. /\ t \in Seq(Content) /\ Len(t) = Len(s) /\ DOMAIN t = DOMAIN s
        /\ t[p] = v[p] /\ \A q \in DOMAIN s : q # p => t[q] = s[q]
    BY <1>1, Replaced
  <1> HIDE DEF t
  <1>3. Together(s, v, t, v)
    BY <1>2 DEF Together
  <1>4. Lags(t, v)
    BY <1>1, <1>2, <1>3, LagsTogether
  <1> QED  BY <1>2, <1>4 DEF t

\* The last page of the file, still blank, is torn.
LEMMA LagsTorn ==
    ASSUME NEW s \in Seq(Content), NEW v \in Seq(Content), Lags(s, v), Len(s) >= 2,
           s[Len(s)] = Empty("blank")
    PROVE  /\ [s EXCEPT ![Len(s)] = Empty("torn")] \in Seq(Content)
           /\ Len([s EXCEPT ![Len(s)] = Empty("torn")]) = Len(s)
           /\ Lags([s EXCEPT ![Len(s)] = Empty("torn")], v)
  <1> DEFINE n == Len(s)
             t == [s EXCEPT ![n] = Empty("torn")]
  <1>1. n \in DOMAIN s /\ n # 1 /\ Empty("torn") \in Content /\ Len(s) = Len(v)
    BY FileFacts, EmptyContent DEF Lags
  <1>2. /\ t \in Seq(Content) /\ Len(t) = Len(s) /\ DOMAIN t = DOMAIN s
        /\ t[n] = Empty("torn") /\ \A q \in DOMAIN s : q # n => t[q] = s[q]
    BY <1>1, Replaced
  <1>3. s[n].kind \notin Kinds /\ t[n].kind \notin Kinds /\ t[n].kind \notin {"catalog", "dir"}
    BY <1>2, EmptyContent DEF Kinds
  <1>4. v[n].kind \notin Kinds /\ t[n].next = None
    BY <1>1, <1>2, <1>3, LagsFacts, EmptyContent
  <1>5. t[n].kind # "header" /\ v[n].kind # "header"
    <2>1. s[n].kind # "header" /\ t[n].kind # "header"
      BY <1>2, EmptyContent
    <2> QED  BY <1>1, <2>1 DEF Lags
  <1> HIDE DEF n, t
  <1>6. ASSUME NEW p \in DOMAIN t
        PROVE  /\ t[p].kind \in Kinds \/ v[p].kind \in Kinds => t[p].kind = v[p].kind
               /\ t[p].kind = "header" <=> v[p].kind = "header"
               /\ t[p].kind \in Kinds => Len(t[p].list) <= Len(v[p].list)
               /\ t[p].kind \in {"catalog", "dir"} =>
                     \A i \in DOMAIN t[p].list : t[p].list[i] = v[p].list[i]
               /\ t[p].next \in {None, v[p].next}
    <2>1. CASE p = n
      BY <1>1, <1>3, <1>4, <1>5, <2>1
    <2>2. CASE p # n
      <3>1. p \in DOMAIN s /\ t[p] = s[p]
        BY <1>2, <2>2
      <3>2. /\ s[p].kind \in Kinds \/ v[p].kind \in Kinds => s[p].kind = v[p].kind
            /\ s[p].kind = "header" <=> v[p].kind = "header"
            /\ s[p].kind \in Kinds => Len(s[p].list) <= Len(v[p].list)
            /\ s[p].kind \in {"catalog", "dir"} =>
                  \A i \in DOMAIN s[p].list : s[p].list[i] = v[p].list[i]
            /\ s[p].next \in {None, v[p].next}
        BY <3>1 DEF Lags
      <3> QED  BY <3>1, <3>2
    <2> QED  BY <2>1, <2>2
  <1>7. Lags(t, v)
    BY <1>1, <1>2, <1>6 DEF Lags
  <1> QED  BY <1>2, <1>7 DEF n, t

LEMMA FlushPageStep == ASSUME TInv, NEW p \in Page, FlushPage(p) PROVE TInv'
  <1>1. /\ up /\ p \in DOMAIN view /\ store' = [store EXCEPT ![p] = view[p]]
        /\ up' = up /\ view' = view
        /\ obj' = obj /\ pc' = pc /\ job' = job /\ out' = out /\ past' = past
    BY DEF FlushPage, Pages!Persist, Pages!Persisted
  <1>2. /\ view \in Seq(Content) /\ store \in Seq(Content) /\ Lags(store, view)
        /\ p \in DOMAIN store /\ Len(store) <= MaxPage /\ Len(store) >= 2
    BY <1>1, HeldFacts
  <1>3. store' \in Seq(Content) /\ Len(store') = Len(store) /\ Lags(store', view)
    BY <1>1, <1>2, LagsPersisted
  <1>4. Typed /\ Held /\ Called /\ pc # "down"
    BY <1>1 DEF TInv
  <1>5. Stored'
    BY <1>2, <1>3 DEF Stored
  <1>6. store' # <<>>
    BY <1>2, <1>3
  <1>7. Held'
    BY <1>1, <1>3, <1>4, <1>6 DEF Held
  <1>8. Typed'
    BY <1>1, <1>4 DEF Typed
  <1>9. Called'
    <2>1. /\ Exists(job.name)' <=> Exists(job.name)
          /\ AtEnd(obj["dir"], "dir")' <=> AtEnd(obj["dir"], "dir")
          /\ Target' = Target
      BY <1>1 DEF Exists, Entries, AtEnd, Target
    <2> QED  BY <1>1, <1>4, <2>1 DEF Called
  <1> QED  BY <1>1, <1>4, <1>5, <1>7, <1>8, <1>9, Stays

\* What the file of an ended process is.
LEMMA StopStep == ASSUME TInv, Stop PROVE TInv'
  <1>1. /\ up /\ ~up' /\ view' = <<>> /\ pc' = "down" /\ job' = NoJob /\ out' = NoId /\ past' = past
        /\ obj' = [c \in {"catalog", "dir"} |-> NoObj]
        /\ \/ store' = store
           \/ \E p \in DOMAIN store : store' = [store EXCEPT ![p] = view[p]]
           \/ /\ store[Len(store)] = Empty("blank")
              /\ store' = [store EXCEPT ![Len(store)] = Empty("torn")]
        /\ up' \in BOOLEAN
    BY DEF Stop, Pages!Stop, Pages!Persisted, Pages!First
  <1>2. /\ view \in Seq(Content) /\ store \in Seq(Content) /\ Lags(store, view)
        /\ Len(store) <= MaxPage /\ Len(store) >= 2 /\ Good(view)
    BY <1>1, HeldFacts
  <1>3. store' \in Seq(Content) /\ Len(store') = Len(store) /\ Lags(store', view)
    BY <1>1, <1>2, LagsPersisted, LagsTorn
  <1>4. Good(store')
    BY <1>2, <1>3, LagsGood
  <1>5. Stored'
    BY <1>2, <1>3 DEF Stored
  <1>6. \A c \in {"catalog", "dir"} : NoObj \in Objects(c)
    <2>1. \A c \in {"catalog", "dir"} : 0 \in 0..Cap[c] /\ <<>> \in Seq(Items(c))
      BY TablesAssumption DEF Kinds
    <2> QED  BY <2>1 DEF NoObj, Objects
  <1>7. Typed'
    <2>1. past \subseteq Name \X Id \X (Rec \cup {Deleted})
      BY DEF TInv, Typed
    <2> QED  BY <1>1, <1>6, <2>1, TypedJobs DEF Typed
  <1> QED  BY <1>1, <1>4, <1>5, <1>7 DEF TInv

LEMMA StartStep == ASSUME TInv, Start PROVE TInv'
  <1>1. /\ ~up /\ store # <<>> /\ up' = TRUE /\ view' = store /\ store' = store
        /\ obj' = [obj EXCEPT !["catalog"] = Loaded(store, Root, "catalog")]
        /\ pc' = "idle" /\ job' = job /\ out' = out /\ past' = past
    BY DEF Start, Pages!Start
  <1>2. Typed /\ Stored /\ job = NoJob /\ Good(store) /\ store \in Seq(Content) /\ Len(store) <= MaxPage
    BY <1>1 DEF TInv, Stored
  <1>3. /\ obj'["catalog"] = Loaded(store, Root, "catalog") /\ obj'["dir"] = obj["dir"]
        /\ DOMAIN obj' = {"catalog", "dir"}
    BY <1>1, <1>2 DEF Typed
  <1>4. Held'
    BY <1>1, <1>2, <1>3, LagsReflexive DEF Held
  <1>5. Loaded(store, Root, "catalog") \in Objects("catalog")
    <2>1. Shaped(store)
      BY <1>2 DEF Good
    <2>2. Root \in DOMAIN store /\ store[Root].kind = "catalog"
      BY <1>2, <2>1, FileFacts DEF Shaped, Root
    <2> QED  BY <1>2, <2>1, <2>2, LoadedFacts
  <1>6. Typed'
    BY <1>1, <1>2, <1>3, <1>5 DEF Typed
  <1>7. Stored'
    BY <1>1, <1>2 DEF Stored
  <1> QED  BY <1>1, <1>2, <1>4, <1>6, <1>7, CalledIdle, Stays

LEMMA CreateDatabaseStep == ASSUME TInv, CreateDatabase PROVE TInv'
  <1> DEFINE s == <<Empty("header"), Empty("catalog")>>
  <1>1. /\ store = <<>> /\ store' = s /\ up' = up /\ view' = view
        /\ obj' = obj /\ pc' = pc /\ job' = job /\ out' = out /\ past' = past
    BY DEF CreateDatabase, Pages!Create
  <1>2. ~up /\ Typed /\ (up <=> pc # "down") /\ view = <<>> /\ job = NoJob
        /\ obj = [c \in {"catalog", "dir"} |-> NoObj]
    BY <1>1 DEF TInv, Held
  <1>3. /\ s \in Seq(Content) /\ Len(s) = 2 /\ DOMAIN s = 1..2
        /\ s[1] = Empty("header") /\ s[2] = Empty("catalog")
    <2>1. Empty("header") \in Content /\ Empty("catalog") \in Content
      BY EmptyContent DEF Kinds
    <2> QED  BY <2>1
  <1> HIDE DEF s
  <1>4. \A p \in DOMAIN s : s[p].list = <<>> /\ s[p].next = None /\ s[p].kind \in {"header", "catalog"}
    BY <1>3, EmptyContent
  <1>5. Shaped(s)
    <2>1. s[Root].kind = "catalog" /\ \A p \in DOMAIN s : s[p].kind = "header" <=> p = 1
      BY <1>3, EmptyContent DEF Root
    <2> QED  BY <1>3, <1>4, <2>1, TablesAssumption DEF Shaped
  <1>6. Single(s)
    BY <1>4 DEF Single
  <1>7. NamesOnce(s)
    <2> DEFINE c == Chain(s, Root, "catalog")
    <2>1. IsChain(s, Root, "catalog", c)
      BY <1>3, <1>5, GoodCatalog
    <2>2. NamesOnce(s) <=> \A q, r \in ToSet(c) : \A i \in DOMAIN s[q].list, j \in DOMAIN s[r].list :
                              s[q].list[i].name = s[r].list[j].name => q = r /\ i = j
      BY DEF NamesOnce
    <2> HIDE DEF c
    <2>3. \A q \in ToSet(c) : q \in DOMAIN s
      BY <2>1, LenProperties DEF IsChain, ToSet
    <2> QED  BY <1>4, <2>2, <2>3
  <1>8. Stored' /\ Good(s)
    BY <1>1, <1>3, <1>5, <1>6, <1>7, TablesAssumption DEF Stored, Good
  <1>9. Typed'
    BY <1>1, <1>2 DEF Typed
  <1> QED  BY <1>1, <1>2, <1>8, <1>9 DEF TInv

\* The pages in use stay as they are, and no page is named that was not.
Carries ==
    /\ \A q \in DOMAIN view : view[q].kind \in Kinds => q \in DOMAIN view' /\ view'[q] = view[q]
    /\ \A d : d # None /\ Unnamed(view, d) => Unnamed(view', d)

LEMMA FreshPage ==
    ASSUME TInv, up, obj'["catalog"] = obj["catalog"], NEW n, n # 1,
           n \in DOMAIN view => view[n].kind \notin Kinds,
           view' \in Seq(Content), store' \in Seq(Content),
           Len(store') = Len(view'), Len(store') <= MaxPage,
           DOMAIN view' = DOMAIN view \cup {n},
           \A q \in DOMAIN view : q # n => view'[q] = view[q] /\ store'[q] = store[q],
           view'[n] = store'[n], view'[n].list = <<>>, view'[n].next = None, view'[n].kind # "header"
    PROVE  Held' /\ Stored' /\ Carries /\ Unnamed(view', n)
  <1>1. /\ view \in Seq(Content) /\ store \in Seq(Content) /\ Good(view) /\ Lags(store, view)
        /\ DOMAIN view = DOMAIN store /\ Len(view) >= 2 /\ Len(view) \in Nat
        /\ obj["catalog"] = Loaded(view, Root, "catalog")
    BY HeldFacts
  <1>2. /\ Good(view')
        /\ Loaded(view', Root, "catalog") = Loaded(view, Root, "catalog")
        /\ Unnamed(view', n)
        /\ \A d : d # None /\ Unnamed(view, d) => Unnamed(view', d)
    <2>1. n \in DOMAIN view'
      OBVIOUS
    <2>2. \A q \in DOMAIN view : q # n => view'[q] = view[q]
      OBVIOUS
    <2> QED  BY <1>1, <2>1, <2>2, FreshGood
  <1>3. Lags(store', view')
    <2>1. DOMAIN store' = DOMAIN view'
      BY FileFacts
    <2>2. Together(store, view, store', view')
      BY <1>1, <2>1 DEF Together
    <2> QED  BY <1>1, <2>2, LagsTogether
  <1>4. store' # <<>>
    <2>1. n \in DOMAIN store'
      BY FileFacts
    <2> QED  BY <2>1
  <1>5. Held' /\ Stored'
    BY <1>1, <1>2, <1>3, <1>4 DEF Held, Stored
  <1>6. Carries
    BY <1>2 DEF Carries
  <1> QED  BY <1>2, <1>5, <1>6

LEMMA Extended ==
    ASSUME TInv, up, Len(view) < MaxPage, Pages!Extend, obj' = obj
    PROVE  Held' /\ Stored' /\ Carries /\ up'
  <1>1. /\ store' = Append(store, Empty("blank")) /\ view' = Append(view, Empty("blank")) /\ up'
    BY DEF Pages!Extend
  <1>2. /\ view \in Seq(Content) /\ store \in Seq(Content) /\ Len(view) = Len(store)
        /\ DOMAIN view = 1..Len(view) /\ Len(view) \in Nat /\ Len(view) >= 2
    BY HeldFacts
  <1> DEFINE n == Len(view) + 1
             b == Empty("blank")
  <1>3. b \in Content /\ b.list = <<>> /\ b.next = None /\ b.kind # "header"
    BY EmptyContent
  <1>4. /\ view' \in Seq(Content) /\ Len(view') = n /\ view'[n] = b
        /\ store' \in Seq(Content) /\ Len(store') = n /\ store'[n] = b
        /\ \A q \in 1..Len(view) : view'[q] = view[q] /\ store'[q] = store[q]
    BY <1>1, <1>2, <1>3, AppendProperties
  <1>5. DOMAIN view' = DOMAIN view \cup {n} /\ n # 1 /\ n \notin DOMAIN view
    BY <1>2, <1>4, FileFacts
  <1>6. n <= MaxPage
    BY <1>2, TablesAssumption
  <1> HIDE DEF n, b
  <1> QED  BY <1>1, <1>2, <1>3, <1>4, <1>5, <1>6, FreshPage

LEMMA Initialised ==
    ASSUME TInv, up, NEW kind \in Kinds \cup {"torn"}, Pages!Initialise(Empty(kind)), obj' = obj
    PROVE  /\ Held' /\ Stored' /\ Carries /\ up'
           /\ Len(view) \in DOMAIN view' /\ Len(view) \in Page /\ Len(view') = Len(view)
           /\ view'[Len(view)] = Empty(kind) /\ Unnamed(view', Len(view))
  <1> DEFINE n == Len(view)
             x == Empty(kind)
  <1>1. /\ view \in Seq(Content) /\ store \in Seq(Content) /\ Len(view) = Len(store)
        /\ DOMAIN view = 1..Len(view) /\ DOMAIN store = DOMAIN view
        /\ n \in Nat /\ n >= 2 /\ n <= MaxPage
        /\ Lags(store, view) /\ DOMAIN view \subseteq Page
    BY HeldFacts
  <1>2. /\ store[n] = Empty("blank") /\ store' = [store EXCEPT ![n] = x]
        /\ view' = [view EXCEPT ![n] = x] /\ up'
    BY <1>1 DEF Pages!Initialise, Pages!First
  <1>3. n \in DOMAIN view /\ n \in DOMAIN store /\ n # 1 /\ n \in Page
    BY <1>1
  <1>4. view[n].kind \notin Kinds
    <2>1. store[n].kind \notin Kinds
      BY <1>2, EmptyContent DEF Kinds
    <2> QED  BY <1>1, <1>3, <2>1, LagsFacts
  <1>5. x \in Content /\ x.list = <<>> /\ x.next = None /\ x.kind # "header"
    BY EmptyContent DEF Kinds
  <1> HIDE DEF n, x
  <1>6. /\ view' \in Seq(Content) /\ Len(view') = Len(view) /\ DOMAIN view' = DOMAIN view
        /\ view'[n] = x /\ \A q \in DOMAIN view : q # n => view'[q] = view[q]
    BY <1>1, <1>2, <1>3, <1>5, Replaced
  <1>7. /\ store' \in Seq(Content) /\ Len(store') = Len(store) /\ DOMAIN store' = DOMAIN store
        /\ store'[n] = x /\ \A q \in DOMAIN store : q # n => store'[q] = store[q]
    BY <1>1, <1>2, <1>3, <1>5, Replaced
  <1>8. Held' /\ Stored' /\ Carries /\ Unnamed(view', n)
    <2>1. DOMAIN view' = DOMAIN view \cup {n} /\ Len(store') = Len(view') /\ Len(store') <= MaxPage
      BY <1>1, <1>3, <1>6, <1>7 DEF n
    <2>2. \A q \in DOMAIN view : q # n => view'[q] = view[q] /\ store'[q] = store[q]
      BY <1>1, <1>6, <1>7
    <2> QED  BY <1>3, <1>4, <1>5, <1>6, <1>7, <2>1, <2>2, FreshPage
  <1> QED  BY <1>2, <1>3, <1>6, <1>8 DEF n, x

LEMMA CarriedEnd ==
    ASSUME Carries, obj' = obj, AtEnd(obj["dir"], "dir")
    PROVE  AtEnd(obj["dir"], "dir")'
  BY DEF Carries, AtEnd, Kinds

LEMMA CarriedPage ==
    ASSUME Carries, NEW d \in DOMAIN view, d # None, view[d].kind \in Kinds, Unnamed(view, d)
    PROVE  d \in DOMAIN view' /\ view'[d] = view[d] /\ Unnamed(view', d)
  BY DEF Carries

\* What the calls that append have in common.
LEMMA EnteringFacts ==
    ASSUME TInv, pc \in Entering
    PROVE  /\ Target \in {"catalog", "dir"}
           /\ Target = IF job.rec = None THEN "catalog" ELSE "dir"
           /\ job.rec = None => job.name \in Name /\ ~Exists(job.name)
           /\ job.rec # None => job.rec \in Rec /\ job.name \in Name /\ out \in Id
           /\ job.rec # None => AtEnd(obj["dir"], "dir")
           /\ AtEnd(obj[Target], Target)
           /\ job.page \in DOMAIN view /\ job.page # None
           /\ view[job.page].kind = (IF job.rec = None THEN "dir" ELSE "data")
           /\ view[job.page].kind \in Kinds
           /\ Unnamed(view, job.page)
  <1>1. up /\ Called
    BY DEF TInv, Entering, Linking
  <1>2. /\ Target \in {"catalog", "dir"}
        /\ Target = IF job.rec = None THEN "catalog" ELSE "dir"
    BY DEF Target
  <1>3. /\ job.rec = None => job.name \in Name /\ ~Exists(job.name)
        /\ job.rec # None => job.rec \in Rec /\ job.name \in Name /\ out \in Id
        /\ job.rec # None => AtEnd(obj["dir"], "dir")
        /\ job.page \in DOMAIN view
        /\ view[job.page].kind = (IF job.rec = None THEN "dir" ELSE "data")
        /\ Unnamed(view, job.page)
    BY <1>1 DEF Called
  <1>4. AtEnd(obj["catalog"], "catalog") /\ None \notin DOMAIN view
    BY <1>1, HeldFacts, FileFacts
  <1>5. AtEnd(obj[Target], Target)
    BY <1>2, <1>3, <1>4
  <1> QED  BY <1>2, <1>3, <1>4, <1>5 DEF Kinds

LEMMA AllocateRootStep == ASSUME TInv, AllocateRoot PROVE TInv'
  <1>1. /\ pc = "alloc root" /\ pc' = "init root" /\ Len(view) < MaxPage /\ Pages!Extend
        /\ obj' = obj /\ job' = job /\ out' = out /\ past' = past
    BY DEF AllocateRoot, Allocate
  <1>2. up /\ Typed /\ Called
    BY <1>1, UpWhen DEF TInv
  <1>3. Held' /\ Stored' /\ up'
    BY <1>1, <1>2, Extended
  <1>4. Typed'
    BY <1>1, <1>2, <1>3 DEF Typed, Rooting
  <1>5. job.rec = None /\ job.name \in Name /\ ~Exists(job.name)
    BY <1>1, <1>2 DEF Called, Rooting
  <1>6. ~Exists(job.name)'
    BY <1>1, <1>5 DEF Exists, Entries
  <1>7. Called'
    BY <1>1, <1>5, <1>6 DEF Called, Rooting, Storing, Entering, Linking
  <1> QED  BY <1>1, <1>3, <1>4, <1>7, Stays

LEMMA AllocateDataStep == ASSUME TInv, AllocateData PROVE TInv'
  <1>1. /\ pc = "alloc data" /\ pc' = "init data" /\ Len(view) < MaxPage /\ Pages!Extend
        /\ obj' = obj /\ job' = job /\ out' = out /\ past' = past
    BY DEF AllocateData, Allocate
  <1>2. up /\ Typed /\ Called
    BY <1>1, UpWhen DEF TInv
  <1>3. Held' /\ Stored' /\ up' /\ Carries
    BY <1>1, <1>2, Extended
  <1>4. Typed'
    BY <1>1, <1>2, <1>3 DEF Typed, Storing
  <1>5. job.rec \in Rec /\ job.name \in Name /\ job.rec # None
    BY <1>1, <1>2, TablesAssumption DEF Called, Storing
  <1>6. AtEnd(obj["dir"], "dir")
    BY <1>1, <1>2, <1>5 DEF Called, Storing
  <1>7. AtEnd(obj["dir"], "dir")'
    BY <1>1, <1>3, <1>6, CarriedEnd
  <1>8. Called'
    BY <1>1, <1>5, <1>7 DEF Called, Rooting, Storing, Entering, Linking
  <1> QED  BY <1>1, <1>3, <1>4, <1>8, Stays

LEMMA AllocateLinkStep == ASSUME TInv, AllocateLink PROVE TInv'
  <1>1. /\ pc = "alloc link" /\ pc' = "init link" /\ Len(view) < MaxPage /\ Pages!Extend
        /\ obj' = obj /\ job' = job /\ out' = out /\ past' = past
    BY DEF AllocateLink, Allocate
  <1>2. up /\ Typed /\ Called /\ pc \in Entering
    BY <1>1, UpWhen DEF TInv, Entering, Linking
  <1>3. Held' /\ Stored' /\ up' /\ Carries
    BY <1>1, <1>2, Extended
  <1>4. Typed'
    BY <1>1, <1>2, <1>3 DEF Typed, Entering, Linking
  <1>5. /\ job.rec = None => job.name \in Name /\ ~Exists(job.name)
        /\ job.rec # None => job.rec \in Rec /\ job.name \in Name /\ out \in Id
        /\ job.rec # None => AtEnd(obj["dir"], "dir")
        /\ job.page \in DOMAIN view /\ job.page # None
        /\ view[job.page].kind = (IF job.rec = None THEN "dir" ELSE "data")
        /\ view[job.page].kind \in Kinds
        /\ Unnamed(view, job.page)
    BY <1>2, EnteringFacts
  <1>6. /\ Exists(job.name)' <=> Exists(job.name)
        /\ Target' = Target
    BY <1>1 DEF Exists, Entries, Target
  <1>7. job.rec # None => AtEnd(obj["dir"], "dir")'
    BY <1>1, <1>3, <1>5, CarriedEnd
  <1>8. job.page \in DOMAIN view' /\ view'[job.page] = view[job.page] /\ Unnamed(view', job.page)
    BY <1>3, <1>5, CarriedPage
  <1>9. obj[Target].count >= Cap[Target]
    BY <1>1, <1>2 DEF Called, Linking
  <1>10. Called'
    BY <1>1, <1>5, <1>6, <1>7, <1>8, <1>9 DEF Called, Rooting, Storing, Entering, Linking
  <1> QED  BY <1>1, <1>3, <1>4, <1>10, Stays

LEMMA InitRootStep == ASSUME TInv, InitRoot PROVE TInv'
  <1>1. /\ pc = "init root" /\ pc' = "load root" /\ Pages!Initialise(Empty("dir"))
        /\ obj' = obj /\ job' = [job EXCEPT !.page = Len(view)] /\ out' = out /\ past' = past
    BY DEF InitRoot, Initialise
  <1>2. up /\ Typed /\ Called
    BY <1>1, UpWhen DEF TInv
  <1>3. /\ Held' /\ Stored' /\ up' /\ Len(view) \in DOMAIN view' /\ Len(view) \in Page
        /\ view'[Len(view)] = Empty("dir") /\ Unnamed(view', Len(view))
    BY <1>1, <1>2, Initialised DEF Kinds
  <1>4. job.rec = None /\ job.name \in Name /\ ~Exists(job.name) /\ job \in Jobs
    BY <1>1, <1>2 DEF Called, Rooting, Typed
  <1>5. job' \in Jobs /\ job'.page = Len(view) /\ job'.rec = None /\ job'.name = job.name
    BY <1>1, <1>3, <1>4, TypedJobs
  <1>6. Typed'
    BY <1>1, <1>2, <1>3, <1>5 DEF Typed, Rooting
  <1>7. ~Exists(job.name)'
    BY <1>1, <1>4, <1>5 DEF Exists, Entries
  <1>8. view'[job'.page].kind = "dir"
    BY <1>3, <1>5, EmptyContent
  <1>9. Called'
    BY <1>1, <1>3, <1>4, <1>5, <1>7, <1>8 DEF Called, Rooting, Storing, Entering, Linking
  <1> QED  BY <1>1, <1>3, <1>6, <1>9, Stays

LEMMA InitDataStep == ASSUME TInv, InitData PROVE TInv'
  <1>1. /\ pc = "init data" /\ pc' = "fill" /\ Pages!Initialise(Empty("data"))
        /\ obj' = obj /\ job' = [job EXCEPT !.page = Len(view)] /\ out' = out /\ past' = past
    BY DEF InitData, Initialise
  <1>2. up /\ Typed /\ Called
    BY <1>1, UpWhen DEF TInv
  <1>3. /\ Held' /\ Stored' /\ up' /\ Len(view) \in DOMAIN view' /\ Len(view) \in Page /\ Carries
        /\ view'[Len(view)] = Empty("data") /\ Unnamed(view', Len(view))
    BY <1>1, <1>2, Initialised DEF Kinds
  <1>4. job.rec \in Rec /\ job.rec # None /\ job.name \in Name /\ job \in Jobs
    BY <1>1, <1>2, TablesAssumption DEF Called, Storing, Typed
  <1>5. job' \in Jobs /\ job'.page = Len(view) /\ job'.rec = job.rec /\ job'.name = job.name
    BY <1>1, <1>3, <1>4, TypedJobs
  <1>6. Typed'
    BY <1>1, <1>2, <1>3, <1>5 DEF Typed, Storing
  <1>7. AtEnd(obj["dir"], "dir")
    BY <1>1, <1>2, <1>4 DEF Called, Storing
  <1>8. AtEnd(obj["dir"], "dir")'
    BY <1>1, <1>3, <1>7, CarriedEnd
  <1>9. view'[job'.page].kind = "data" /\ view'[job'.page].list = <<>>
    BY <1>3, <1>5, EmptyContent
  <1>10. Called'
    BY <1>1, <1>3, <1>4, <1>5, <1>8, <1>9 DEF Called, Rooting, Storing, Entering, Linking
  <1> QED  BY <1>1, <1>3, <1>6, <1>10, Stays

LEMMA InitLinkStep == ASSUME TInv, InitLink PROVE TInv'
  <1>1. /\ pc = "init link" /\ pc' = "link" /\ Pages!Initialise(Empty(Target))
        /\ obj' = obj /\ job' = job /\ out' = out /\ past' = past
    BY DEF InitLink, Initialise
  <1>2. up /\ Typed /\ Called /\ pc \in Entering
    BY <1>1, UpWhen DEF TInv, Entering, Linking
  <1>3. Target \in {"catalog", "dir"} /\ Target \in Kinds
    BY DEF Target, Kinds
  <1>4. /\ Held' /\ Stored' /\ up' /\ Carries /\ Len(view') = Len(view)
        /\ view'[Len(view)] = Empty(Target) /\ Unnamed(view', Len(view))
    BY <1>1, <1>2, <1>3, Initialised
  <1>5. Typed'
    BY <1>1, <1>2, <1>4 DEF Typed, Entering, Linking
  <1>6. /\ job.rec = None => job.name \in Name /\ ~Exists(job.name)
        /\ job.rec # None => job.rec \in Rec /\ job.name \in Name /\ out \in Id
        /\ job.rec # None => AtEnd(obj["dir"], "dir")
        /\ job.page \in DOMAIN view /\ job.page # None
        /\ view[job.page].kind = (IF job.rec = None THEN "dir" ELSE "data")
        /\ view[job.page].kind \in Kinds
        /\ Unnamed(view, job.page)
    BY <1>2, EnteringFacts
  <1>7. /\ Exists(job.name)' <=> Exists(job.name)
        /\ Target' = Target
    BY <1>1 DEF Exists, Entries, Target
  <1>8. job.rec # None => AtEnd(obj["dir"], "dir")'
    BY <1>1, <1>4, <1>6, CarriedEnd
  <1>9. job.page \in DOMAIN view' /\ view'[job.page] = view[job.page] /\ Unnamed(view', job.page)
    BY <1>4, <1>6, CarriedPage
  <1>10. obj[Target].count >= Cap[Target]
    BY <1>1, <1>2 DEF Called, Linking
  <1>11. view'[Len(view')] = Empty(Target') /\ Unnamed(view', Len(view'))
    BY <1>4, <1>7
  <1>12. Called'
    BY <1>1, <1>6, <1>7, <1>8, <1>9, <1>10, <1>11 DEF Called, Rooting, Storing, Entering, Linking
  <1> QED  BY <1>1, <1>4, <1>5, <1>12, Stays

LEMMA InitialiseFailsStep == ASSUME TInv, InitialiseFails PROVE TInv'
  <1>1. pc # "down" /\ GiveUp /\ (Pages!Initialise(Empty("torn")) \/ UNCHANGED pageVars)
    BY DEF InitialiseFails
  <1>2. up /\ Typed /\ pc' = "idle" /\ job' = NoJob /\ obj' = obj /\ out' = out /\ past' = past
    BY <1>1, UpWhen DEF TInv, GiveUp
  <1>3. CASE UNCHANGED pageVars
    BY <1>1, <1>3, GivesUp
  <1>4. CASE Pages!Initialise(Empty("torn"))
    <2>1. Held' /\ Stored' /\ up'
      BY <1>2, <1>4, Initialised
    <2>2. Typed'
      BY <1>2, <2>1, TypedJobs DEF Typed
    <2> QED  BY <1>2, <2>1, <2>2, CalledIdle, Stays
  <1> QED  BY <1>1, <1>3, <1>4

-----------------------------------------------------------------------------
(* Steps that write records *)

\* A data page gets another list of records, not shorter than the old one.
LEMMA DataWritten ==
    ASSUME TInv, up, NEW p \in DOMAIN view, view[p].kind = "data", NEW l \in Seq(Rec \cup {Deleted}),
           Len(l) >= Len(view[p].list), Len(l) <= Cap["data"],
           Pages!Modify(p, [view[p] EXCEPT !.list = l]), obj'["catalog"] = obj["catalog"]
    PROVE  /\ Held' /\ Stored' /\ up'
           /\ DOMAIN view' = DOMAIN view
           /\ view'[p].kind = "data"
           /\ \A q \in DOMAIN view : q # p => view'[q] = view[q]
           /\ \A d : Unnamed(view, d) => Unnamed(view', d)
  <1>1. /\ view \in Seq(Content) /\ store \in Seq(Content) /\ Good(view) /\ Lags(store, view)
        /\ obj["catalog"] = Loaded(view, Root, "catalog")
    BY HeldFacts
  <1> DEFINE x == [kind |-> "data", list |-> l, next |-> None]
  <1>2. [view[p] EXCEPT !.list = l] = x
    <2>1. view[p] \in Content /\ view[p].kind \in Kinds /\ view[p].next = None
      BY <1>1, FileFacts, ContentFacts DEF Kinds
    <2> QED  BY <2>1, NewList
  <1>3. view' = [view EXCEPT ![p] = x] /\ store' = store /\ up'
    BY <1>2 DEF Pages!Modify
  <1>4. x \in Content /\ x.kind = "data" /\ x.list = l /\ x.next = None
    BY MakeContent DEF Content
  <1> HIDE DEF x
  <1>5. /\ view' \in Seq(Content) /\ Len(view') = Len(view) /\ DOMAIN view' = DOMAIN view
        /\ view'[p] = x /\ \A q \in DOMAIN view : q # p => view'[q] = view[q]
    BY <1>1, <1>3, <1>4, Replaced
  <1>6. view[p].next = None
    BY <1>1, FileFacts, ContentFacts
  <1>7. Good(view') /\ Loaded(view', Root, "catalog") = Loaded(view, Root, "catalog")
    BY <1>1, <1>4, <1>5, DataGood
  <1>8. Lags(view, view')
    BY <1>1, <1>4, <1>5, <1>6, LagsBehind
  <1>9. Lags(store', view')
    BY <1>1, <1>3, <1>5, <1>8, LagsTransitive
  <1>10. Held' /\ Stored'
    BY <1>1, <1>3, <1>5, <1>7, <1>9 DEF Held, Stored, TInv
  <1>11. \A d : Unnamed(view, d) => Unnamed(view', d)
    BY <1>4, <1>5, <1>6 DEF Unnamed
  <1> QED  BY <1>3, <1>4, <1>5, <1>10, <1>11

\* A record goes to the end of a page with room.
LEMMA Filled ==
    ASSUME TInv, up, NEW p \in DOMAIN view, view[p].kind = "data", HasRoom(p),
           NEW r \in Rec, Fill(p, r), obj'["catalog"] = obj["catalog"]
    PROVE  /\ Held' /\ Stored' /\ up'
           /\ DOMAIN view' = DOMAIN view
           /\ view'[p].kind = "data"
           /\ \A q \in DOMAIN view : q # p => view'[q] = view[q]
           /\ \A d : Unnamed(view, d) => Unnamed(view', d)
           /\ NextId(p) \in Id /\ out' = NextId(p)
  <1> DEFINE l == Append(view[p].list, r)
  <1>1. view[p].list \in Seq(Rec \cup {Deleted}) /\ p \in Page
    BY HeldFacts, FileFacts, ContentFacts
  <1>2. Len(view[p].list) \in Nat /\ Cap["data"] \in Nat /\ Len(view[p].list) < Cap["data"]
    BY <1>1, TablesAssumption DEF HasRoom, Kinds
  <1>3. l \in Seq(Rec \cup {Deleted}) /\ Len(l) = Len(view[p].list) + 1
    BY <1>1, AppendProperties
  <1>4. Pages!Modify(p, [view[p] EXCEPT !.list = l]) /\ out' = NextId(p)
    BY DEF Fill
  <1>5. NextId(p) \in Id
    BY <1>1, <1>2 DEF NextId, Id
  <1> HIDE DEF l
  <1>6. Len(l) >= Len(view[p].list) /\ Len(l) <= Cap["data"]
    BY <1>2, <1>3
  <1> QED  BY <1>3, <1>4, <1>5, <1>6, DataWritten

LEMMA FillFreshStep == ASSUME TInv, FillFresh PROVE TInv'
  <1>1. /\ pc = "fill" /\ pc' = "append" /\ Fill(job.page, job.rec)
        /\ obj' = obj /\ job' = job /\ past' = past
    BY DEF FillFresh
  <1>2. up /\ Typed /\ Called
    BY <1>1, UpWhen DEF TInv
  <1>3. /\ job.rec \in Rec /\ job.rec # None /\ job.name \in Name
        /\ job.page \in DOMAIN view /\ view[job.page].kind = "data"
        /\ Unnamed(view, job.page) /\ view[job.page].list = <<>>
    BY <1>1, <1>2, TablesAssumption DEF Called, Storing
  <1>4. AtEnd(obj["dir"], "dir")
    BY <1>1, <1>2, <1>3 DEF Called, Storing
  <1>5. HasRoom(job.page)
    BY <1>3, TablesAssumption DEF HasRoom, Kinds
  <1>6. /\ Held' /\ Stored' /\ up'
        /\ DOMAIN view' = DOMAIN view
        /\ view'[job.page].kind = "data"
        /\ \A q \in DOMAIN view : q # job.page => view'[q] = view[q]
        /\ Unnamed(view', job.page)
        /\ out' \in Id
    BY <1>1, <1>2, <1>3, <1>5, Filled
  <1>7. Typed'
    BY <1>1, <1>2, <1>6 DEF Typed, Entering
  <1>8. AtEnd(obj["dir"], "dir")'
    <2>1. obj["dir"].last # job.page
      BY <1>3, <1>4 DEF AtEnd
    <2> QED  BY <1>1, <1>4, <1>6, <2>1 DEF AtEnd
  <1>9. Called'
    BY <1>1, <1>3, <1>6, <1>8 DEF Called, Rooting, Storing, Entering, Linking
  <1> QED  BY <1>1, <1>6, <1>7, <1>9, Stays

\* A table that the catalog knows.
LEMMA TableOf ==
    ASSUME TInv, up, NEW n, Exists(n)
    PROVE  /\ RootOf(n) \in DOMAIN view /\ view[RootOf(n)].kind = "dir"
           /\ Loaded(view, RootOf(n), "dir") \in Objects("dir")
           /\ Loaded(view, RootOf(n), "dir").list = Listed(view, RootOf(n), "dir")
           /\ AtEnd(Loaded(view, RootOf(n), "dir"), "dir")
           /\ \A p \in ToSet(Listed(view, RootOf(n), "dir")) : p \in DOMAIN view /\ view[p].kind = "data"
  <1>1. /\ view \in Seq(Content) /\ Shaped(view) /\ Len(view) <= MaxPage
        /\ obj["catalog"].list = Listed(view, Root, "catalog")
    BY HeldFacts
  <1>2. \A e \in Entries : e.root \in DOMAIN view /\ view[e.root].kind = "dir"
    BY <1>1, GoodCatalog DEF Entries
  <1>3. RootOf(n) \in DOMAIN view /\ view[RootOf(n)].kind = "dir"
    BY <1>2 DEF Exists, RootOf
  <1> DEFINE r == RootOf(n)
  <1> HIDE DEF r
  <1>4. /\ Loaded(view, r, "dir") \in Objects("dir")
        /\ Loaded(view, r, "dir").list = Listed(view, r, "dir")
        /\ Loaded(view, r, "dir").last \in DOMAIN view
        /\ view[Loaded(view, r, "dir").last].kind = "dir"
        /\ view[Loaded(view, r, "dir").last].next = None
        /\ Loaded(view, r, "dir").count = Len(view[Loaded(view, r, "dir").last].list)
    BY <1>1, <1>3, LoadedFacts DEF r
  <1>5. \A p \in ToSet(Listed(view, r, "dir")) : p \in DOMAIN view /\ view[p].kind = "data"
    BY <1>1, <1>3, GoodTable DEF r
  <1> QED  BY <1>3, <1>4, <1>5 DEF AtEnd, r

LEMMA TryOrderFacts ==
    ASSUME NEW X, NEW l \in Seq(X), NEW i \in 1..Len(TryOrder(l))
    PROVE  TryOrder(l)[i] \in ToSet(l)
  <1>1. CASE l = <<>>
    BY <1>1 DEF TryOrder
  <1>2. CASE l # <<>>
    <2> DEFINE n == Len(l)
               f == Front(l)
               a == <<Last(l)>>
               T == ToSet(l)
    <2>1. n \in Nat /\ n >= 1 /\ DOMAIN l = 1..n
      BY <1>2, EmptySeq, LenProperties
    <2>2. \A k \in 1..n : l[k] \in T
      BY <2>1 DEF ToSet
    <2>3. Last(l) \in T
      BY <2>1, <2>2 DEF Last
    <2>4. f = [k \in 1..(n - 1) |-> l[k]]
      BY <2>1 DEF Front
    <2>5. \A k \in 1..(n - 1) : k \in 1..n
      BY <2>1
    <2>6. f \in [1..(n - 1) -> T] /\ n - 1 \in Nat
      BY <2>1, <2>2, <2>4, <2>5
    <2>7. TryOrder(l) = a \o f
      BY <1>2 DEF TryOrder
    <2> HIDE DEF n, f, T
    <2>8. a \in Seq(T) /\ f \in Seq(T)
      BY <2>3, <2>6
    <2> HIDE DEF a
    <2>9. TryOrder(l) \in Seq(T)
      BY <2>7, <2>8, ConcatProperties
    <2> QED  BY <2>9, ElementOfSeq DEF T
  <1> QED  BY <1>1, <1>2

LEMMA InsertStep == ASSUME TInv, NEW n \in Name, NEW r \in Rec, Insert(n, r) PROVE TInv'
  <1> DEFINE table == Loaded(view, RootOf(n), "dir")
             order == TryOrder(table.list)
             open(busy) == {i \in 1..Len(order) : order[i] \notin busy /\ HasRoom(order[i])}
  <1>1. pc = "idle" /\ Exists(n)
    BY DEF Insert
  <1>2. PICK busy \in SUBSET ToSet(order) :
           /\ obj' = [obj EXCEPT !["dir"] = table]
           /\ IF open(busy) = {}
              THEN /\ pc' = "alloc data"
                   /\ job' = [name |-> n, rec |-> r, page |-> None, full |-> busy # {}]
                   /\ out' = NoId
                   /\ UNCHANGED <<pageVars, past>>
              ELSE /\ \E i \in open(busy) :
                         /\ Fill(order[i], r)
                         /\ past' = past \cup {<<n, NextId(order[i]), r>>}
                   /\ UNCHANGED <<pc, job>>
    BY DEF Insert
  <1>3. up /\ Typed /\ Called
    BY <1>1, UpWhen DEF TInv
  <1>4. /\ table \in Objects("dir") /\ AtEnd(table, "dir") /\ table.list \in Seq(Page)
        /\ \A p \in ToSet(table.list) : p \in DOMAIN view /\ view[p].kind = "data"
    BY <1>1, <1>3, TableOf DEF Objects, Items
  <1> HIDE DEF table
  <1>5. /\ obj'["catalog"] = obj["catalog"] /\ obj'["dir"] = table /\ DOMAIN obj' = {"catalog", "dir"}
        /\ \A c \in {"catalog", "dir"} : obj'[c] \in Objects(c)
    BY <1>2, <1>3, <1>4 DEF Typed
  <1>6. CASE open(busy) = {}
    <2>1. /\ pc' = "alloc data" /\ job' = [name |-> n, rec |-> r, page |-> None, full |-> busy # {}]
          /\ out' = NoId /\ UNCHANGED pageVars /\ past' = past
      BY <1>2, <1>6
    <2>2. Held' /\ Stored' /\ up'
      BY <1>3, <1>5, <2>1, SamePages
    <2>3. job' \in Jobs /\ job'.rec = r /\ job'.name = n /\ r # None
      BY <2>1, TypedJobs, TablesAssumption
    <2>4. Typed'
      BY <1>3, <1>5, <2>1, <2>2, <2>3 DEF Typed, Storing
    <2>5. AtEnd(obj["dir"], "dir")'
      BY <1>4, <1>5, <2>1 DEF AtEnd, pageVars
    <2>6. Called'
      BY <2>1, <2>3, <2>5 DEF Called, Rooting, Storing, Entering, Linking
    <2> QED  BY <2>1, <2>2, <2>4, <2>6, Stays
  <1>7. CASE open(busy) # {}
    <2>1. PICK i \in open(busy) : Fill(order[i], r) /\ past' = past \cup {<<n, NextId(order[i]), r>>}
      BY <1>2, <1>7
    <2>2. pc' = pc /\ job' = job
      BY <1>2, <1>7
    <2>3. HasRoom(order[i]) /\ i \in 1..Len(order)
      BY <2>1
    <2>4. order[i] \in DOMAIN view /\ view[order[i]].kind = "data"
      BY <1>4, <2>3, TryOrderFacts
    <2> HIDE DEF order
    <2>5. Held' /\ Stored' /\ up' /\ out' \in Id /\ NextId(order[i]) \in Id
      BY <1>3, <1>5, <2>1, <2>3, <2>4, Filled
    <2>6. past' \subseteq Name \X Id \X (Rec \cup {Deleted})
      BY <1>3, <2>1, <2>5 DEF Typed
    <2>7. Typed'
      BY <1>3, <1>5, <2>2, <2>5, <2>6 DEF Typed
    <2>8. job = NoJob
      BY <1>1, <1>3 DEF Called
    <2> QED  BY <1>1, <2>2, <2>5, <2>7, <2>8, CalledIdle, Stays
  <1> QED  BY <1>6, <1>7

LEMMA RewriteStep ==
    ASSUME TInv, NEW n \in Name, NEW id \in Id, NEW r \in Rec \cup {Deleted}, Rewrite(n, id, r)
    PROVE  TInv'
  <1> DEFINE p == id.page
             l == [view[p].list EXCEPT ![id.slot] = r]
  <1>1. /\ pc = "idle" /\ Exists(n) /\ p \in ToSet(Listed(view, RootOf(n), "dir"))
        /\ id.slot \in DOMAIN view[p].list
        /\ Pages!Modify(p, [view[p] EXCEPT !.list[id.slot] = r])
        /\ past' = past \cup {<<n, id, r>>}
        /\ obj' = obj /\ pc' = pc /\ job' = job /\ out' = out
    BY DEF Rewrite
  <1>2. up /\ Typed /\ Called
    BY <1>1, UpWhen DEF TInv
  <1>3. p \in DOMAIN view /\ view[p].kind = "data"
    BY <1>1, <1>2, TableOf
  <1>4. view[p].list \in Seq(Rec \cup {Deleted}) /\ Len(view[p].list) <= Cap["data"]
    <2>1. view[p] \in Content /\ Shaped(view)
      BY <1>2, <1>3, HeldFacts, FileFacts
    <2> QED  BY <1>3, <2>1, ContentFacts DEF Shaped, Kinds
  <1>5. l \in Seq(Rec \cup {Deleted}) /\ Len(l) = Len(view[p].list) /\ Len(l) \in Nat
    BY <1>1, <1>4, ExceptSeq
  <1>6. [view[p] EXCEPT !.list[id.slot] = r] = [view[p] EXCEPT !.list = l]
    OBVIOUS
  <1> HIDE DEF l
  <1>7. Held' /\ Stored' /\ up'
    BY <1>1, <1>2, <1>3, <1>4, <1>5, <1>6, DataWritten
  <1>8. Typed'
    BY <1>1, <1>2, <1>7 DEF Typed
  <1>9. job = NoJob
    BY <1>1, <1>2 DEF Called
  <1> QED  BY <1>1, <1>7, <1>8, <1>9, CalledIdle, Stays

-----------------------------------------------------------------------------
(* Steps that append to a chain *)

\* The end of the chain that a call appends to.
LEMMA TargetEnd ==
    ASSUME TInv, pc \in Entering
    PROVE  /\ up /\ Target \in {"catalog", "dir"} /\ Target \in Kinds
           /\ obj[Target].last \in DOMAIN view /\ view[obj[Target].last] \in Content
           /\ view[obj[Target].last].kind = Target
           /\ view[obj[Target].last].next = None
           /\ view[obj[Target].last].list \in Seq(Items(Target))
           /\ obj[Target].count = Len(view[obj[Target].last].list)
           /\ obj[Target] \in Objects(Target)
  <1>1. up /\ Typed
    BY DEF TInv, Entering, Linking
  <1>2. Target \in {"catalog", "dir"} /\ AtEnd(obj[Target], Target)
    BY EnteringFacts
  <1>3. view[obj[Target].last] \in Content
    BY <1>1, <1>2, HeldFacts, FileFacts DEF AtEnd
  <1>4. view[obj[Target].last].list \in Seq(Items(Target))
    BY <1>2, <1>3, ContentFacts DEF AtEnd, Items
  <1>5. obj[Target] \in Objects(Target)
    BY <1>1, <1>2 DEF Typed
  <1> QED  BY <1>1, <1>2, <1>3, <1>4, <1>5 DEF AtEnd, Kinds

\* The item that is appended.
LEMMA ItemIs ==
    ASSUME TInv, pc \in Entering
    PROVE  /\ Item \in Items(Target)
           /\ Ref(Target, Item) = job.page
           /\ Target = "catalog" => Item.name = job.name
  <1>1. /\ Target = (IF job.rec = None THEN "catalog" ELSE "dir")
        /\ job.rec = None => job.name \in Name
        /\ job.page \in DOMAIN view
    BY EnteringFacts
  <1>2. job.page \in Page
    BY <1>1, TargetEnd, HeldFacts
  <1>3. CASE job.rec = None
    BY <1>1, <1>2, <1>3 DEF Item, Items, Ref
  <1>4. CASE job.rec # None
    BY <1>1, <1>2, <1>4 DEF Item, Items, Ref
  <1> QED  BY <1>3, <1>4

\* The last page of the chain gets the item.
LEMMA PutIs ==
    ASSUME TInv, pc \in Entering, Put(obj[Target].last, obj[Target].count)
    PROVE  /\ view' \in Seq(Content) /\ store' = store /\ up' = up
           /\ Appended(view, view', obj[Target].last, Item)
           /\ Len(view') = Len(view)
           /\ Lags(view, view')
  <1> DEFINE o == obj[Target]
             p == o.last
             l == view[p].list
             m == Append(l, Item)
             x == [kind |-> Target, list |-> m, next |-> None]
  <1>1. /\ up /\ Target \in {"catalog", "dir"} /\ Target \in Kinds
        /\ p \in DOMAIN view /\ view[p] \in Content /\ view[p].kind = Target /\ view[p].next = None
        /\ l \in Seq(Items(Target)) /\ o.count = Len(l)
    BY TargetEnd
  <1>2. view \in Seq(Content)
    BY <1>1, HeldFacts
  <1>3. Item \in Items(Target)
    BY ItemIs
  <1>4. SubSeq(l, 1, o.count) = l
    <2>1. \A s \in Seq(Items(Target)) : SubSeq(s, 1, Len(s)) = s
      BY SubSeqFull
    <2> QED  BY <1>1, <2>1
  <1>5. [view[p] EXCEPT !.list = Append(SubSeq(@, 1, o.count), Item)] = x
    <2>1. [view[p] EXCEPT !.list = m] = x
      BY <1>1, NewList
    <2> QED  BY <1>4, <2>1
  <1>6. view' = [view EXCEPT ![p] = x] /\ store' = store /\ up' = up
    BY <1>5 DEF Put, Pages!Modify
  <1>7. /\ m \in Seq(Items(Target)) /\ Len(m) = Len(l) + 1 /\ m[Len(l) + 1] = Item
        /\ \A i \in 1..Len(l) : m[i] = l[i]
    BY <1>1, <1>3, AppendProperties
  <1>8. x \in Content
    <2>1. None \in Page \cup {None}
      OBVIOUS
    <2> HIDE DEF m
    <2> QED  BY <1>1, <1>7, <2>1, MakeContent DEF Content, Items
  <1>9. x.kind = Target /\ x.list = m /\ x.next = None /\ Len(l) \in Nat /\ DOMAIN l = 1..Len(l)
    BY <1>1, LenProperties
  <1> HIDE DEF x, m, l, p
  <1>10. /\ view' \in Seq(Content) /\ Len(view') = Len(view) /\ DOMAIN view' = DOMAIN view
         /\ view'[p] = x /\ \A q \in DOMAIN view : q # p => view'[q] = view[q]
    BY <1>1, <1>2, <1>6, <1>8, Replaced
  <1>11. l = view[p].list
    BY DEF l
  <1>12. Appended(view, view', p, Item)
    BY <1>1, <1>7, <1>9, <1>10, <1>11 DEF Appended
  <1>13. Lags(view, view')
    <2>1. /\ Len(view'[p].list) >= Len(view[p].list)
          /\ \A i \in DOMAIN view[p].list : view'[p].list[i] = view[p].list[i]
      BY <1>12, <1>9, <1>11 DEF Appended
    <2>2. view'[p].kind = view[p].kind /\ view[p].next \in {None, view'[p].next}
      BY <1>1, <1>9, <1>10
    <2> QED  BY <1>1, <1>2, <1>10, <2>1, <2>2, LagsBehind
  <1> QED  BY <1>6, <1>10, <1>12, <1>13 DEF p

LEMMA PutStep ==
    ASSUME TInv, pc \in Entering, obj[Target].count < Cap[Target],
           Put(obj[Target].last, obj[Target].count),
           obj' = [obj EXCEPT ![Target] = [list  |-> Append(obj[Target].list, Item),
                                           last  |-> obj[Target].last,
                                           count |-> obj[Target].count + 1]],
           Finish
    PROVE  TInv'
  <1> DEFINE o == obj[Target]
             p == o.last
             new == [list |-> Append(o.list, Item), last |-> p, count |-> o.count + 1]
  <1>1. /\ up /\ Target \in {"catalog", "dir"}
        /\ p \in DOMAIN view /\ view[p].kind = Target
        /\ o.count = Len(view[p].list) /\ o \in Objects(Target)
    BY TargetEnd
  <1>2. /\ view \in Seq(Content) /\ store \in Seq(Content) /\ Lags(store, view)
        /\ Shaped(view) /\ Single(view) /\ NamesOnce(view)
        /\ obj["catalog"] = Loaded(view, Root, "catalog")
        /\ obj["catalog"].list = Listed(view, Root, "catalog")
        /\ obj["catalog"].last = Last(Chain(view, Root, "catalog"))
    BY <1>1, HeldFacts
  <1>3. /\ view' \in Seq(Content) /\ store' = store /\ up' = up
        /\ Appended(view, view', p, Item) /\ Len(view') = Len(view) /\ Lags(view, view')
    BY PutIs
  <1>4. Item \in Items(Target) /\ Ref(Target, Item) = job.page
        /\ (Target = "catalog" => Item.name = job.name)
    BY ItemIs
  <1>5. /\ Target = (IF job.rec = None THEN "catalog" ELSE "dir")
        /\ job.rec = None => ~Exists(job.name)
        /\ job.rec # None => job.rec \in Rec /\ job.name \in Name /\ out \in Id
        /\ job.page \in DOMAIN view
        /\ view[job.page].kind = (IF job.rec = None THEN "dir" ELSE "data")
        /\ Unnamed(view, job.page)
    BY EnteringFacts
  <1>6. view[job.page].kind = IF view[p].kind = "dir" THEN "data" ELSE "dir"
    BY <1>1, <1>5
  <1>7. Typed
    BY DEF TInv
  <1>8. obj'[Target] = new /\ DOMAIN obj' = {"catalog", "dir"} /\ \A c \in {"catalog", "dir"} :
           c # Target => obj'[c] = obj[c]
    BY <1>1, <1>7 DEF Typed
  <1> HIDE DEF o, p, new
  <1>9. Shaped(view') /\ Single(view')
    <2>1. Len(view[p].list) < Cap[view[p].kind]
      BY <1>1 DEF o
    <2> QED  BY <1>1, <1>2, <1>3, <1>4, <1>5, <1>6, <2>1, PutGood
  <1>10. NamesOnce(view') /\ obj'["catalog"] = Loaded(view', Root, "catalog")
    <2>1. CASE Target = "dir"
      <3>1. \A q \in DOMAIN view : view[q].kind = "catalog" => view'[q] = view[q]
        BY <1>1, <1>3, <2>1 DEF Appended
      <3>2. Len(view') >= Len(view)
        BY <1>2, <1>3, FileFacts
      <3>3. Loaded(view', Root, "catalog") = Loaded(view, Root, "catalog") /\ NamesOnce(view')
        BY <1>2, <1>3, <3>1, <3>2, CatalogSame
      <3> QED  BY <1>2, <1>8, <2>1, <3>3
    <2>2. CASE Target = "catalog"
      <3>1. o = obj["catalog"] /\ p = obj["catalog"].last
        BY <2>2 DEF o, p
      <3>2. \A e \in ToSet(Listed(view, Root, "catalog")) : e.name # Item.name
        BY <1>2, <1>4, <1>5, <2>2 DEF Exists, Entries
      <3>3. /\ NamesOnce(view')
            /\ Loaded(view', Root, "catalog") = [list  |-> Append(Listed(view, Root, "catalog"), Item),
                                                 last  |-> p,
                                                 count |-> Len(view[p].list) + 1]
        BY <1>2, <1>3, <3>1, <3>2, CatalogPut
      <3> QED  BY <1>1, <1>2, <1>8, <2>2, <3>1, <3>3 DEF new
    <2> QED  BY <1>1, <2>1, <2>2
  <1>11. Lags(store', view')
    BY <1>2, <1>3, LagsTransitive
  <1>12. Held' /\ Stored' /\ up'
    <2>1. store # <<>> /\ Stored
      BY <1>1 DEF TInv, Held
    <2> QED  BY <1>1, <1>3, <1>9, <1>10, <1>11, <2>1 DEF Held, Stored, Good
  <1>13. new \in Objects(Target)
    <2>1. o.list \in Seq(Items(Target)) /\ o.last \in Page \cup {None} /\ o.count \in 0..Cap[Target]
      BY <1>1 DEF Objects
    <2>2. Append(o.list, Item) \in Seq(Items(Target))
      BY <1>4, <2>1, AppendProperties
    <2>3. o.count + 1 \in 0..Cap[Target]
      <3>1. Cap[Target] \in Nat /\ o.count < Cap[Target]
        BY <1>1, TablesAssumption DEF Kinds, o
      <3> QED  BY <2>1, <3>1
    <2> QED  BY <2>1, <2>2, <2>3 DEF Objects, new, p
  <1>14. pc' = "idle" /\ job' = NoJob /\ out' = out
    BY DEF Finish
  <1>15. past' \subseteq Name \X Id \X (Rec \cup {Deleted})
    BY <1>5, <1>7 DEF Finish, Typed
  <1>16. Typed'
    <2>1. \A c \in {"catalog", "dir"} : obj'[c] \in Objects(c)
      BY <1>1, <1>7, <1>8, <1>13 DEF Typed
    <2> QED  BY <1>7, <1>8, <1>12, <1>14, <1>15, <2>1, TypedJobs DEF Typed
  <1> QED  BY <1>12, <1>14, <1>16, CalledIdle, Stays

LEMMA AppendItemStep == ASSUME TInv, AppendItem PROVE TInv'
  <1>1. /\ pc = "append" /\ obj[Target].count < Cap[Target]
        /\ Put(obj[Target].last, obj[Target].count) /\ Finish
        /\ obj' = [obj EXCEPT ![Target] = [list  |-> Append(obj[Target].list, Item),
                                           last  |-> obj[Target].last,
                                           count |-> obj[Target].count + 1]]
    BY DEF AppendItem
  <1>2. pc \in Entering
    BY <1>1 DEF Entering
  <1> QED  BY <1>1, <1>2, PutStep

LEMMA NewEnd ==
    ASSUME NEW kind, NEW o \in Objects(kind), NEW l, NEW n, NEW k
    PROVE  /\ [o EXCEPT !.list = l, !.count = k] = [list |-> l, last |-> o.last, count |-> k]
           /\ [o EXCEPT !.last = n, !.count = k] = [list |-> o.list, last |-> n, count |-> k]
  <1> DEFINE a == [o EXCEPT !.list = l]
             b == [o EXCEPT !.last = n]
  <1>1. o = [list |-> o.list, last |-> o.last, count |-> o.count]
    BY DEF Objects
  <1>2. /\ a = [list |-> l, last |-> o.last, count |-> o.count]
        /\ b = [list |-> o.list, last |-> n, count |-> o.count]
    BY <1>1
  <1>3. /\ [o EXCEPT !.list = l, !.count = k] = [a EXCEPT !.count = k]
        /\ [o EXCEPT !.last = n, !.count = k] = [b EXCEPT !.count = k]
    OBVIOUS
  <1> HIDE DEF a, b
  <1>4. /\ [a EXCEPT !.count = k] = [list |-> l, last |-> o.last, count |-> k]
        /\ [b EXCEPT !.count = k] = [list |-> o.list, last |-> n, count |-> k]
    BY <1>2
  <1> QED  BY <1>3, <1>4

LEMMA EnterStep == ASSUME TInv, Enter PROVE TInv'
  <1> DEFINE o == obj[Target]
  <1>1. /\ pc = "enter" /\ Put(o.last, 0) /\ Finish
        /\ obj' = [obj EXCEPT ![Target].list = Append(@, Item), ![Target].count = 1]
    BY DEF Enter
  <1>2. pc \in Entering
    BY <1>1 DEF Entering
  <1>3. /\ Target \in {"catalog", "dir"} /\ Target \in Kinds
        /\ o \in Objects(Target)
    BY <1>2, TargetEnd
  <1>4. o.count = 0 /\ o.count + 1 = 1
    BY <1>1 DEF TInv, Called
  <1>5. obj' = [obj EXCEPT ![Target] = [list |-> Append(o.list, Item), last |-> o.last,
                                        count |-> o.count + 1]]
    <2>1. obj' = [obj EXCEPT ![Target] = [o EXCEPT !.list = Append(o.list, Item), !.count = 1]]
      BY <1>1, <1>3 DEF TInv, Typed
    <2>2. [o EXCEPT !.list = Append(o.list, Item), !.count = 1]
             = [list |-> Append(o.list, Item), last |-> o.last, count |-> 1]
      BY <1>3, NewEnd
    <2> QED  BY <1>4, <2>1, <2>2, Zenon
  <1>6. o.count < Cap[Target]
    BY <1>3, <1>4, TablesAssumption
  <1> QED  BY <1>1, <1>2, <1>4, <1>5, <1>6, PutStep

LEMMA LinkStep == ASSUME TInv, Link PROVE TInv'
  <1> DEFINE o == obj[Target]
             p == o.last
             n == Len(view)
             x == [kind |-> Target, list |-> view[p].list, next |-> n]
             new == [list |-> o.list, last |-> n, count |-> 0]
  <1>1. /\ pc = "link" /\ pc' = "enter" /\ job' = job /\ out' = out /\ past' = past
        /\ Pages!Modify(p, [view[p] EXCEPT !.next = n])
        /\ obj' = [obj EXCEPT ![Target].last = n, ![Target].count = 0]
    BY DEF Link
  <1>2. pc \in Entering /\ Typed /\ Called
    BY <1>1 DEF TInv, Entering, Linking
  <1>3. /\ up /\ Target \in {"catalog", "dir"} /\ Target \in Kinds
        /\ p \in DOMAIN view /\ view[p] \in Content /\ view[p].kind = Target /\ view[p].next = None
        /\ view[p].list \in Seq(Items(Target))
        /\ o.count = Len(view[p].list) /\ o \in Objects(Target)
    BY <1>2, TargetEnd
  <1>4. /\ view \in Seq(Content) /\ store \in Seq(Content) /\ Lags(store, view)
        /\ Shaped(view) /\ Single(view) /\ NamesOnce(view)
        /\ n \in Nat /\ n >= 2 /\ DOMAIN view = 1..n /\ DOMAIN view \subseteq Page
        /\ obj["catalog"] = Loaded(view, Root, "catalog")
        /\ obj["catalog"].list = Listed(view, Root, "catalog")
        /\ obj["catalog"].last = Last(Chain(view, Root, "catalog"))
    BY <1>3, HeldFacts
  <1>5. n \in DOMAIN view /\ n \in Page
    BY <1>4
  <1>6. view[n] = Empty(Target) /\ Unnamed(view, n) /\ o.count >= Cap[Target]
    BY <1>1, <1>2 DEF Called, Linking
  <1>7. view[n].kind = Target /\ view[n].list = <<>> /\ view[n].next = None
    BY <1>6, EmptyContent
  <1>8. n # p /\ n > p
    <2>1. Len(view[p].list) # 0
      BY <1>3, <1>6, TablesAssumption
    <2>2. n # p
      BY <1>7, <2>1
    <2> QED  BY <1>3, <1>4, <2>2
  <1>9. view' = [view EXCEPT ![p] = x] /\ store' = store /\ up'
    <2>1. [view[p] EXCEPT !.next = n] = x
      BY <1>3, NewNext
    <2> QED  BY <1>1, <2>1 DEF Pages!Modify
  <1>10. x \in Content
    BY <1>3, <1>5, MakeContent DEF Content, Items
  <1>11. x.kind = Target /\ x.list = view[p].list /\ x.next = n
    OBVIOUS
  <1>12. obj' = [obj EXCEPT ![Target] = new]
    <2>1. obj' = [obj EXCEPT ![Target] = [o EXCEPT !.last = n, !.count = 0]]
      BY <1>1, <1>3, <1>2 DEF Typed
    <2>2. [o EXCEPT !.last = n, !.count = 0] = new
      BY <1>3, NewEnd
    <2> QED  BY <2>1, <2>2
  <1>13. /\ obj'[Target] = new /\ DOMAIN obj' = {"catalog", "dir"}
         /\ \A c \in {"catalog", "dir"} : c # Target => obj'[c] = obj[c]
    BY <1>2, <1>3, <1>12 DEF Typed
  <1>14. new \in Objects(Target)
    <2>1. o.list \in Seq(Items(Target)) /\ 0 \in 0..Cap[Target]
      BY <1>3, TablesAssumption DEF Objects
    <2> QED  BY <1>5, <2>1 DEF Objects
  <1>15. new.list = o.list /\ new.last = n /\ new.count = 0
    OBVIOUS
  <1>16. p = o.last /\ o = obj[Target] /\ n = Len(view)
    OBVIOUS
  <1> HIDE DEF x, new, n, o, p
  <1>17. /\ view' \in Seq(Content) /\ Len(view') = Len(view) /\ DOMAIN view' = DOMAIN view
         /\ view'[p] = x /\ \A q \in DOMAIN view : q # p => view'[q] = view[q]
    BY <1>3, <1>4, <1>9, <1>10, Replaced
  <1>18. Linked(view, view', p, n)
    BY <1>3, <1>11, <1>17 DEF Linked
  <1>19. /\ Shaped(view') /\ Single(view')
         /\ \A d : d # n /\ Unnamed(view, d) => Unnamed(view', d)
    BY <1>3, <1>4, <1>5, <1>6, <1>7, <1>8, <1>17, <1>18, LinkGood
  <1>20. NamesOnce(view') /\ obj'["catalog"] = Loaded(view', Root, "catalog")
    <2>1. CASE Target = "dir"
      <3>1. \A q \in DOMAIN view : view[q].kind = "catalog" => view'[q] = view[q]
        BY <1>3, <1>17, <2>1
      <3>2. Len(view') >= Len(view)
        BY <1>4, <1>17, FileFacts
      <3>3. Loaded(view', Root, "catalog") = Loaded(view, Root, "catalog") /\ NamesOnce(view')
        BY <1>4, <1>17, <3>1, <3>2, CatalogSame
      <3> QED  BY <1>4, <1>13, <2>1, <3>3
    <2>2. CASE Target = "catalog"
      <3>1. o = obj["catalog"] /\ p = obj["catalog"].last
        BY <1>16, <2>2
      <3>2. /\ NamesOnce(view')
            /\ Loaded(view', Root, "catalog") = [list  |-> Listed(view, Root, "catalog"),
                                                 last  |-> n,
                                                 count |-> 0]
        BY <1>4, <1>5, <1>7, <1>8, <1>17, <1>18, <1>19, <3>1, CatalogLink
      <3> QED  BY <1>4, <1>13, <2>2, <3>1, <3>2 DEF new
    <2> QED  BY <1>3, <2>1, <2>2
  <1>21. Lags(view, view')
    <2>1. /\ Len(view'[p].list) >= Len(view[p].list) /\ view'[p].kind = view[p].kind
          /\ view[p].next \in {None, view'[p].next}
          /\ \A i \in DOMAIN view[p].list : view'[p].list[i] = view[p].list[i]
      BY <1>3, <1>11, <1>17, ContentFacts
    <2> QED  BY <1>3, <1>4, <1>17, <2>1, LagsBehind
  <1>22. Lags(store', view')
    BY <1>4, <1>9, <1>17, <1>21, LagsTransitive
  <1>23. Held' /\ Stored' /\ up'
    <2>1. store # <<>> /\ Stored
      BY <1>3 DEF TInv, Held
    <2> QED  BY <1>9, <1>17, <1>19, <1>20, <1>22, <2>1 DEF Held, Stored, Good
  <1>24. Typed'
    <2>1. \A c \in {"catalog", "dir"} : obj'[c] \in Objects(c)
      BY <1>2, <1>3, <1>13, <1>14 DEF Typed
    <2> QED  BY <1>1, <1>2, <1>13, <1>23, <2>1 DEF Typed, Entering
  <1>25. /\ Target = (IF job.rec = None THEN "catalog" ELSE "dir")
         /\ job.rec = None => job.name \in Name /\ ~Exists(job.name)
         /\ job.rec # None => job.rec \in Rec /\ job.name \in Name /\ out \in Id
         /\ job.page \in DOMAIN view
         /\ view[job.page].kind = (IF job.rec = None THEN "dir" ELSE "data")
         /\ Unnamed(view, job.page)
    BY <1>2, EnteringFacts
  <1>26. Target' = Target /\ obj'[Target'].count = 0
    BY <1>1, <1>13, <1>15 DEF Target
  <1>27. job.rec # None => AtEnd(obj["dir"], "dir")'
    <2> SUFFICES ASSUME job.rec # None PROVE AtEnd(obj["dir"], "dir")'
      OBVIOUS
    <2>1. Target = "dir" /\ obj'["dir"] = new
      BY <1>13, <1>25
    <2>2. view'[n] = view[n] /\ n \in DOMAIN view'
      BY <1>5, <1>8, <1>17
    <2> QED  BY <1>7, <1>15, <2>1, <2>2 DEF AtEnd
  <1>28. /\ job.page \in DOMAIN view' /\ view'[job.page].kind = view[job.page].kind
         /\ Unnamed(view', job.page)
    <2>1. job.page # n
      BY <1>7, <1>25
    <2>2. view'[job.page].kind = view[job.page].kind
      BY <1>3, <1>11, <1>17, <1>25
    <2> QED  BY <1>17, <1>19, <1>25, <2>1, <2>2
  <1>29. job.rec = None => ~Exists(job.name)'
    <2> SUFFICES ASSUME job.rec = None PROVE ~Exists(job.name)'
      OBVIOUS
    <2>1. obj'["catalog"].list = obj["catalog"].list
      BY <1>13, <1>15, <1>16, <1>25
    <2> QED  BY <1>1, <1>25, <2>1 DEF Exists, Entries
  <1>30. Called'
    BY <1>1, <1>25, <1>26, <1>27, <1>28, <1>29 DEF Called, Rooting, Storing, Entering, Linking
  <1> QED  BY <1>1, <1>23, <1>24, <1>30, Stays

-----------------------------------------------------------------------------
(* Theorems *)

LEMMA TInvInit ==
    ASSUME Init PROVE TInv
  <1>1. /\ store = <<>> /\ up = FALSE /\ view = <<>> /\ pc = "down" /\ job = NoJob /\ out = NoId
        /\ past = {} /\ obj = [c \in {"catalog", "dir"} |-> NoObj]
    BY DEF Init, Pages!Init
  <1>2. Stored
    BY <1>1, TablesAssumption DEF Stored
  <1>3. \A c \in {"catalog", "dir"} : NoObj \in Objects(c)
    <2>1. \A c \in {"catalog", "dir"} : 0 \in 0..Cap[c] /\ <<>> \in Seq(Items(c))
      BY TablesAssumption DEF Kinds
    <2> QED  BY <2>1 DEF NoObj, Objects
  <1>4. Typed
    BY <1>1, <1>3, TypedJobs DEF Typed
  <1> QED  BY <1>1, <1>2, <1>4 DEF TInv

LEMMA TInvStutter ==
    ASSUME TInv, UNCHANGED vars PROVE TInv'
  <1>1. /\ store' = store /\ up' = up /\ view' = view /\ obj' = obj /\ pc' = pc /\ job' = job
        /\ out' = out /\ past' = past
    BY DEF vars
  <1>2. /\ Exists(job.name)' <=> Exists(job.name)
        /\ AtEnd(obj["dir"], "dir")' <=> AtEnd(obj["dir"], "dir")
        /\ Target' = Target
    BY <1>1 DEF Exists, Entries, AtEnd, Target
  <1>3. Called' <=> Called
    BY <1>1, <1>2 DEF Called
  <1>4. /\ Typed' <=> Typed
        /\ Stored' <=> Stored
        /\ Held' <=> Held
    BY <1>1 DEF Typed, Stored, Held
  <1> QED  BY <1>1, <1>3, <1>4 DEF TInv

LEMMA TInvNext ==
    ASSUME TInv, Next PROVE TInv'
  <1>1. CASE CreateDatabase  BY <1>1, CreateDatabaseStep
  <1>2. CASE Start  BY <1>2, StartStep
  <1>3. CASE Stop  BY <1>3, StopStep
  <1>4. CASE \E p \in Page : FlushPage(p)  BY <1>4, FlushPageStep
  <1>5. CASE \E n \in Name : CreateTable(n)  BY <1>5, CreateTableStep
  <1>6. CASE AllocateRoot  BY <1>6, AllocateRootStep
  <1>7. CASE InitRoot  BY <1>7, InitRootStep
  <1>8. CASE LoadRoot  BY <1>8, LoadRootStep
  <1>9. CASE \E n \in Name, r \in Rec : Insert(n, r)  BY <1>9, InsertStep
  <1>10. CASE AllocateData  BY <1>10, AllocateDataStep
  <1>11. CASE InitData  BY <1>11, InitDataStep
  <1>12. CASE FillFresh  BY <1>12, FillFreshStep
  <1>13. CASE AppendItem  BY <1>13, AppendItemStep
  <1>14. CASE ExtendChain  BY <1>14, ExtendChainStep
  <1>15. CASE AllocateLink  BY <1>15, AllocateLinkStep
  <1>16. CASE InitLink  BY <1>16, InitLinkStep
  <1>17. CASE Link  BY <1>17, LinkStep
  <1>18. CASE Enter  BY <1>18, EnterStep
  <1>19. CASE \E n \in Name, id \in Id, r \in Rec : Update(n, id, r)
    BY <1>19, RewriteStep DEF Update
  <1>20. CASE \E n \in Name, id \in Id : Delete(n, id)
    BY <1>20, RewriteStep DEF Delete
  <1>21. CASE AllocateFails  BY <1>21, AllocateFailsStep
  <1>22. CASE InitialiseFails  BY <1>22, InitialiseFailsStep
  <1>23. CASE FetchFails  BY <1>23, FetchFailsStep
  <1> QED
    BY <1>1, <1>2, <1>3, <1>4, <1>5, <1>6, <1>7, <1>8, <1>9, <1>10, <1>11, <1>12, <1>13, <1>14,
       <1>15, <1>16, <1>17, <1>18, <1>19, <1>20, <1>21, <1>22, <1>23 DEF Next

\* Every state the tables can be in satisfies the inductive invariant.
THEOREM TablesInvariance == Spec => []TInv
  <1>1. Init => TInv
    BY TInvInit
  <1>2. TInv /\ [Next]_vars => TInv'
    BY TInvNext, TInvStutter
  <1> QED  BY <1>1, <1>2, PTL DEF Spec

\* What TInv says about the file, whether a process runs or not, and its view.
LEMMA FilesGood ==
    ASSUME TInv
    PROVE  /\ store \in Seq(Content) /\ (store # <<>> => Good(store))
           /\ view \in Seq(Content) /\ (view # <<>> => Good(view))
           /\ Len(store) <= MaxPage /\ Len(view) <= MaxPage
  <1>1. store \in Seq(Content) /\ Len(store) <= MaxPage /\ up \in BOOLEAN
    BY DEF TInv, Stored, Typed
  <1>2. CASE up
    <2>1. view \in Seq(Content) /\ Lags(store, view) /\ Good(view) /\ Len(view) <= MaxPage
      BY <1>2, HeldFacts
    <2>2. Good(store)
      BY <1>1, <2>1, LagsGood
    <2> QED  BY <1>1, <2>1, <2>2
  <1>3. CASE ~up
    <2>1. view = <<>> /\ (store # <<>> => Good(store))
      BY <1>3 DEF TInv
    <2> QED  BY <1>1, <2>1, TablesAssumption
  <1> QED  BY <1>1, <1>2, <1>3

\* The pages, objects, calls and histories have their types.
THEOREM TablesTypeCorrect == Spec => []TablesTypeOK
  <1>1. ASSUME TInv PROVE TablesTypeOK
    <2>1. ASSUME NEW s \in Seq(Content), s # <<>> => Good(s), NEW p \in 2..Len(s)
          PROVE  s[p] \in Image \cup {Empty("blank"), Empty("torn")}
      <3>1. Len(s) \in Nat /\ p \in DOMAIN s /\ p # 1 /\ s[p] \in Content
        BY FileFacts
      <3>2. s[p] # Empty("header")
        <4>1. s[p].kind # "header"
          BY <2>1, <3>1 DEF Good, Shaped
        <4> QED  BY <4>1, EmptyContent
      <3> QED  BY <3>1, <3>2 DEF Content
    <2>2. \A s \in {store, view} : /\ Len(s) <= MaxPage
                                   /\ \A p \in 2..Len(s) : s[p] \in Image \cup {Empty("blank"), Empty("torn")}
      BY <1>1, <2>1, FilesGood
    <2>3. Typed
      BY <1>1 DEF TInv
    <2> QED  BY <2>2, <2>3 DEF TablesTypeOK, Typed, Objects, Jobs
  <1> QED  BY <1>1, TablesInvariance, PTL

\* Whatever pages were flushed before a crash, the catalog in the file loads,
\* and so do the tables it names; the same holds of the pages of a process.
THEOREM AlwaysLoads == Spec => []Consistent
  <1>1. ASSUME TInv PROVE Consistent
    <2>1. store # <<>> => Sound(store)
      BY <1>1, FilesGood, GoodSound
    <2>2. view # <<>> => Sound(view)
      BY <1>1, FilesGood, GoodSound
    <2> QED  BY <2>1, <2>2 DEF Consistent, Sound
  <1> QED  BY <1>1, TablesInvariance, PTL

\* No page is used for two purposes, neither in memory nor after a restart that
\* finds only some of the pages flushed.
THEOREM PagesUnshared == Spec => []NoSharedPages
  <1>1. ASSUME TInv PROVE NoSharedPages
    BY <1>1, FilesGood, GoodReferences DEF NoSharedPages
  <1> QED  BY <1>1, TablesInvariance, PTL

\* The Catalog object agrees with the pages of the catalog, also after every
\* failed call.
THEOREM CatalogKept == Spec => []CatalogInSync
  <1>1. ASSUME TInv PROVE CatalogInSync
    BY <1>1 DEF TInv, Held, CatalogInSync
  <1> QED  BY <1>1, TablesInvariance, PTL
=============================================================================
