--------------------------- MODULE LogFlushProofs ---------------------------
(***************************************************************************)
(* The sinks keep what RealFlush has acknowledged, agree with each other,  *)
(* keep rolled files small and overwrite nothing, for chunks, sizes and    *)
(* modes of any kind and any number of crashes and restarts.               *)
(***************************************************************************)
EXTENDS LogFlush, FiniteSetTheorems, TLAPS

-----------------------------------------------------------------------------
(* Induction over finite sets, stated with the set Q of the cases that     *)
(* hold in place of a predicate, and what follows from it for the maxima   *)
(* and sums of the community modules.                                      *)

(* A set of subsets of S that contains a set whenever it contains its      *)
(* smaller subsets contains them all: there would be a smallest exception. *)
LEMMA SubsetInduction ==
    ASSUME NEW S, IsFiniteSet(S), NEW Q,
           \A T \in SUBSET S : (\A U \in SUBSET T : U # T => U \in Q) => T \in Q
    PROVE  (SUBSET S) \subseteq Q
<1> DEFINE R == StrictSubsetOrdering(S)
           Bad == (SUBSET S) \ Q
<1> SUFFICES ASSUME Bad # {} PROVE FALSE
  OBVIOUS
<1>1. IsWellFoundedOn(R, SUBSET S)
  <2>1. FiniteSubsetsOf(S) = SUBSET S
    BY FS_FiniteSubsetsOfFinite
  <2>2. IsWellFoundedOn(StrictSubsetOrdering(S), FiniteSubsetsOf(S))
    BY FS_StrictSubsetOrderingWellFounded
  <2> QED  BY <2>1, <2>2
<1>2. Bad \subseteq SUBSET S
  OBVIOUS
<1> HIDE DEF R, Bad
<1>3. PICK T \in Bad : \A U \in Bad : ~(<<U, T>> \in R)
  BY <1>1, <1>2, WFMin
<1>4. \A U \in SUBSET T : U # T => U \in Q
  BY <1>2, <1>3 DEF StrictSubsetOrdering, R, Bad
<1> QED  BY <1>3, <1>4 DEF Bad

(* A finite set of numbers has a largest element, which Max returns. *)
LEMMA MaxProperties ==
    ASSUME NEW S, S \subseteq Int, IsFiniteSet(S), S # {}
    PROVE  Max(S) \in S /\ \A x \in S : x <= Max(S)
<1> DEFINE Q == {T \in SUBSET S : T = {} \/ \E m \in T : \A x \in T : m >= x}
<1>1. ASSUME NEW T \in SUBSET S, \A U \in SUBSET T : U # T => U \in Q
      PROVE  T \in Q
  <2> SUFFICES ASSUME NEW y \in T PROVE \E m \in T : \A x \in T : m >= x
    OBVIOUS
  <2>1. T \ {y} \in Q
    BY <1>1
  <2>2. CASE T \ {y} = {}
    BY <2>2
  <2>3. CASE T \ {y} # {}
    <3>1. PICK m \in T \ {y} : \A x \in T \ {y} : m >= x
      BY <2>1, <2>3
    <3>2. CASE m >= y
      BY <3>1, <3>2
    <3>3. CASE y >= m
      BY <3>1, <3>3
    <3> QED  BY <3>2, <3>3
  <2> QED  BY <2>2, <2>3
<1> HIDE DEF Q
<1>2. (SUBSET S) \subseteq Q
  BY <1>1, SubsetInduction
<1>3. \E m \in S : \A x \in S : m >= x
  BY <1>2 DEF Q
<1> QED  BY <1>3 DEF Max

-----------------------------------------------------------------------------
(* The element that a fold over s takes first. *)
Pick(s) == CHOOSE x \in s : TRUE

(* It is one of them. *)
LEMMA PickIn == \A s : s # {} => Pick(s) \in s
  BY DEF Pick

(* One unfolding of the sum of h over s, given the sums over smaller sets. *)
SumOf(h, g, s) == IF s = {} THEN 0 ELSE h[Pick(s)] + g[s \ {Pick(s)}]

(* g has the sums of h over the subsets of S. *)
IsSum(h, S, g) == \A s \in SUBSET S : g[s] = SumOf(h, g, s)

(* It has those over the subsets of a smaller set too. *)
LEMMA IsSumSubset ==
    ASSUME NEW h, NEW S, NEW g, IsSum(h, S, g), NEW T \in SUBSET S
    PROVE  IsSum(h, T, g)
  BY DEF IsSum

(* There is one such function at most, ... *)
LEMMA SumUnique ==
    ASSUME NEW S, IsFiniteSet(S), NEW h1, NEW h2, NEW g1, NEW g2,
           IsSum(h1, S, g1), IsSum(h2, S, g2), \A x \in S : h1[x] = h2[x]
    PROVE  \A s \in SUBSET S : g1[s] = g2[s]
<1> DEFINE Q == {s \in SUBSET S : g1[s] = g2[s]}
<1>1. ASSUME NEW T \in SUBSET S, \A U \in SUBSET T : U # T => U \in Q
      PROVE  T \in Q
  <2>1. CASE T = {}
    BY <2>1 DEF IsSum, SumOf
  <2>2. CASE T # {}
    <3>1. Pick(T) \in T
      BY <2>2, PickIn
    <3>2. T \ {Pick(T)} \in Q
      BY <3>1, <1>1
    <3>3. g1[T] = SumOf(h1, g1, T) /\ g2[T] = SumOf(h2, g2, T)
      BY DEF IsSum
    <3> QED  BY <2>2, <3>1, <3>2, <3>3 DEF SumOf
  <2> QED  BY <2>1, <2>2
<1> HIDE DEF Q
<1>2. (SUBSET S) \subseteq Q
  BY <1>1, SubsetInduction
<1> QED  BY <1>2 DEF Q

(* ... and there is one. *)
LEMMA SumExists ==
    ASSUME NEW S, IsFiniteSet(S), NEW h
    PROVE  \E g : IsSum(h, S, g)
<1> DEFINE Q == {T \in SUBSET S : \E g : IsSum(h, T, g)}
           G(U) == CHOOSE g : IsSum(h, U, g)
<1>0. \A U \in Q : IsSum(h, U, G(U))
  OBVIOUS
<1>1. ASSUME NEW T \in SUBSET S, \A U \in SUBSET T : U # T => U \in Q
      PROVE  T \in Q
  <2> DEFINE g == [s \in SUBSET T |-> IF s = {} THEN 0
                      ELSE h[Pick(s)] + G(s \ {Pick(s)})[s \ {Pick(s)}]]
  <2>1. ASSUME NEW u \in SUBSET T, u # T PROVE g[u] = G(u)[u]
    <3>1. IsSum(h, u, G(u))
      BY <1>0, <1>1, <2>1
    <3>2. G(u)[u] = SumOf(h, G(u), u)
      BY <3>1 DEF IsSum
    <3>3. CASE u = {}
      BY <3>2, <3>3 DEF SumOf
    <3>4. CASE u # {}
      <4> DEFINE v == u \ {Pick(u)}
      <4>1. Pick(u) \in u
        BY <3>4, PickIn
      <4>2. v \in SUBSET T /\ v # T /\ v \in SUBSET u
        BY <4>1, <2>1
      <4>3. IsSum(h, v, G(v))
        BY <1>0, <1>1, <4>2
      <4>4. IsSum(h, v, G(u))
        BY <3>1, <4>2, IsSumSubset
      <4>5. IsFiniteSet(v)
        BY <4>2, FS_Subset
      <4> HIDE DEF G, Q
      <4>6. G(u)[v] = G(v)[v]
        BY <4>3, <4>4, <4>5, SumUnique
      <4>7. g[u] = h[Pick(u)] + G(v)[v]
        BY <3>4
      <4>8. G(u)[u] = h[Pick(u)] + G(u)[v]
        BY <3>2, <3>4 DEF SumOf
      <4> QED  BY <4>6, <4>7, <4>8
    <3> QED  BY <3>3, <3>4
  <2>2. IsSum(h, T, g)
    <3> SUFFICES ASSUME NEW s \in SUBSET T PROVE g[s] = SumOf(h, g, s)
      BY DEF IsSum
    <3>1. CASE s = {}
      BY <3>1 DEF SumOf
    <3>2. CASE s # {}
      <4>1. Pick(s) \in s /\ s \ {Pick(s)} \in SUBSET T /\ s \ {Pick(s)} # T
        BY <3>2, PickIn
      <4>2. g[s \ {Pick(s)}] = G(s \ {Pick(s)})[s \ {Pick(s)}]
        BY <2>1, <4>1
      <4> QED  BY <3>2, <4>2 DEF SumOf
    <3> QED  BY <3>1, <3>2
  <2> QED  BY <2>2
<1> HIDE DEF Q
<1>2. (SUBSET S) \subseteq Q
  BY <1>1, SubsetInduction
<1> QED  BY <1>2 DEF Q

(* The function that SumFunction evaluates at DOMAIN h. *)
Sums(h) == CHOOSE g : g = [s \in SUBSET (DOMAIN h) |-> SumOf(h, g, s)]

(* The recursive function in the definition of SumFunction. *)
LEMMA SumDef == ASSUME NEW h PROVE SumFunction(h) = Sums(h)[DOMAIN h]
  BY DEF SumFunction, SumFunctionOnSet, FoldFunctionOnSet, MapThenFoldSet,
         Sums, SumOf, Pick

(* It satisfies its equation. *)
LEMMA SumsDef ==
    ASSUME NEW h, IsFiniteSet(DOMAIN h)
    PROVE  IsSum(h, DOMAIN h, Sums(h))
<1> DEFINE S == DOMAIN h
<1>1. PICK g : IsSum(h, S, g)
  BY SumExists
<1> DEFINE f == [s \in SUBSET S |-> g[s]]
<1>2. f = [s \in SUBSET S |-> SumOf(h, f, s)]
  <2> SUFFICES ASSUME NEW s \in SUBSET S PROVE g[s] = SumOf(h, f, s)
    OBVIOUS
  <2>1. s # {} => s \ {Pick(s)} \in SUBSET S
    OBVIOUS
  <2> QED  BY <1>1, <2>1 DEF IsSum, SumOf
<1> HIDE DEF f
<1>3. Sums(h) = [s \in SUBSET S |-> SumOf(h, Sums(h), s)]
  BY <1>2 DEF Sums
<1> QED  BY <1>3 DEF IsSum

(* The sum of a set with an element x is x's value and the rest. *)
LEMMA SumSplit ==
    ASSUME NEW S, IsFiniteSet(S), NEW h, NEW g, IsSum(h, S, g),
           \A x \in S : h[x] \in Int
    PROVE  /\ \A s \in SUBSET S : g[s] \in Int
           /\ \A s \in SUBSET S : \A x \in s : g[s] = h[x] + g[s \ {x}]
<1> DEFINE Q == {s \in SUBSET S : /\ g[s] \in Int
                                  /\ \A x \in s : g[s] = h[x] + g[s \ {x}]}
<1>1. ASSUME NEW T \in SUBSET S, \A U \in SUBSET T : U # T => U \in Q
      PROVE  T \in Q
  <2>1. CASE T = {}
    <3>1. g[T] = 0
      BY <2>1 DEF IsSum, SumOf
    <3> QED  BY <2>1, <3>1
  <2>2. CASE T # {}
    <3> DEFINE p == Pick(T)
               u == T \ {p}
    <3>1. p \in T /\ u \in SUBSET T /\ u # T /\ h[p] \in Int
      BY <2>2, PickIn
    <3>2. u \in Q
      BY <3>1, <1>1
    <3>3. g[T] = h[p] + g[u]
      BY <2>2 DEF IsSum, SumOf
    <3>4. g[u] \in Int /\ g[T] \in Int
      BY <3>1, <3>2, <3>3
    <3>5. ASSUME NEW x \in T PROVE g[T] = h[x] + g[T \ {x}]
      <4>1. CASE x = p
        BY <3>3, <4>1
      <4>2. CASE x # p
        <5> DEFINE v == T \ {x}
                   w == u \ {x}
        <5>1. x \in u /\ v \in SUBSET T /\ v # T /\ p \in v /\ v \ {p} = w
              /\ h[x] \in Int
          BY <3>1, <4>2
        <5>2. v \in Q /\ w \in SUBSET T /\ w # T
          BY <5>1, <1>1
        <5>3. w \in Q
          BY <5>2, <1>1
        <5>4. g[u] = h[x] + g[w]
          BY <3>2, <5>1
        <5>5. g[v] = h[p] + g[w]
          BY <5>1, <5>2
        <5>6. g[w] \in Int
          BY <5>3
        <5> HIDE DEF p, u, v, w
        <5>7. g[T] = h[x] + g[v]
          BY <3>1, <3>3, <5>1, <5>4, <5>5, <5>6
        <5> QED  BY <5>7 DEF v
      <4> QED  BY <4>1, <4>2
    <3> QED  BY <3>4, <3>5
  <2> QED  BY <2>1, <2>2
<1> HIDE DEF Q
<1>2. (SUBSET S) \subseteq Q
  BY <1>1, SubsetInduction
<1> QED  BY <1>2 DEF Q

(* Larger values, larger sum. *)
LEMMA SumMonotone ==
    ASSUME NEW h1, NEW h2, DOMAIN h1 = DOMAIN h2, IsFiniteSet(DOMAIN h1),
           \A x \in DOMAIN h1 : h1[x] \in Int /\ h2[x] \in Int /\ h1[x] <= h2[x]
    PROVE  SumFunction(h1) <= SumFunction(h2)
<1> DEFINE S == DOMAIN h1
           g1 == Sums(h1)
           g2 == Sums(h2)
           Q == {s \in SUBSET S : g1[s] <= g2[s]}
<1>1. IsSum(h1, S, g1) /\ IsSum(h2, S, g2)
  BY SumsDef
<1>2. \A s \in SUBSET S : g1[s] \in Int /\ g2[s] \in Int
  BY <1>1, SumSplit
<1> HIDE DEF g1, g2
<1>3. ASSUME NEW T \in SUBSET S, \A U \in SUBSET T : U # T => U \in Q
      PROVE  T \in Q
  <2>1. CASE T = {}
    <3>1. g1[T] = 0 /\ g2[T] = 0
      BY <2>1, <1>1 DEF IsSum, SumOf
    <3> QED  BY <3>1
  <2>2. CASE T # {}
    <3> DEFINE p == Pick(T)
               u == T \ {p}
    <3>1. p \in T /\ u \in SUBSET T /\ u # T
      BY <2>2, PickIn
    <3>2. g1[u] <= g2[u]
      BY <3>1, <1>3
    <3>3. g1[T] = h1[p] + g1[u] /\ g2[T] = h2[p] + g2[u]
      BY <2>2, <1>1 DEF IsSum, SumOf
    <3>4. h1[p] \in Int /\ h2[p] \in Int /\ h1[p] <= h2[p]
          /\ g1[u] \in Int /\ g2[u] \in Int
      BY <3>1, <1>2
    <3> HIDE DEF p, u
    <3> QED  BY <3>2, <3>3, <3>4
  <2> QED  BY <2>1, <2>2
<1>4. IsFiniteSet(S)
  OBVIOUS
<1> HIDE DEF Q, S
<1>5. (SUBSET S) \subseteq Q
  BY <1>3, <1>4, SubsetInduction
<1>6. S \in Q
  BY <1>5
<1> QED  BY <1>6, SumDef DEF Q, S, g1, g2

(* A sum of integers is an integer. *)
LEMMA SumInt ==
    ASSUME NEW h, IsFiniteSet(DOMAIN h), \A x \in DOMAIN h : h[x] \in Int
    PROVE  SumFunction(h) \in Int
<1>1. IsSum(h, DOMAIN h, Sums(h))
  BY SumsDef
<1>2. Sums(h)[DOMAIN h] \in Int
  BY <1>1, SumSplit
<1> QED  BY <1>2, SumDef

(* The sum of nothing. *)
LEMMA SumEmpty == ASSUME NEW h, DOMAIN h = {} PROVE SumFunction(h) = 0
<1>1. IsFiniteSet(DOMAIN h)
  BY FS_EmptySet
<1>2. Sums(h)[{}] = SumOf(h, Sums(h), {})
  BY <1>1, SumsDef DEF IsSum
<1> QED  BY <1>2, SumDef DEF SumOf

(* The value of one argument changes, or an argument is added. *)
LEMMA SumUpdate ==
    ASSUME NEW h1, NEW h2, NEW x,
           IsFiniteSet(DOMAIN h1), DOMAIN h2 = DOMAIN h1 \cup {x},
           \A y \in DOMAIN h1 : h1[y] \in Int, h2[x] \in Int,
           \A y \in DOMAIN h1 : y # x => h2[y] = h1[y]
    PROVE  SumFunction(h2) = SumFunction(h1) + h2[x]
                                - (IF x \in DOMAIN h1 THEN h1[x] ELSE 0)
<1> DEFINE S == DOMAIN h1
           S2 == DOMAIN h2
           R == S \ {x}
           g1 == Sums(h1)
           g2 == Sums(h2)
<1>1. IsFiniteSet(S2) /\ IsFiniteSet(R) /\ R \in SUBSET S /\ R \in SUBSET S2
      /\ S2 \ {x} = R /\ x \in S2
  BY FS_AddElement, FS_Subset
<1>2. \A y \in S2 : h2[y] \in Int
  OBVIOUS
<1>3. IsSum(h1, S, g1) /\ IsSum(h2, S2, g2)
  BY <1>1, SumsDef
<1>4. g1[R] = g2[R]
  <2>1. IsSum(h1, R, g1) /\ IsSum(h2, R, g2)
    BY <1>1, <1>3, IsSumSubset
  <2>2. \A y \in R : h1[y] = h2[y]
    OBVIOUS
  <2> HIDE DEF g1, g2, R
  <2> QED  BY <1>1, <2>1, <2>2, SumUnique
<1>5. g1[S] \in Int /\ g1[R] \in Int /\ (x \in S => g1[S] = h1[x] + g1[R])
  <2>1. IsFiniteSet(S) /\ \A y \in S : h1[y] \in Int
    OBVIOUS
  <2> HIDE DEF g1, S, R
  <2>2. /\ \A s \in SUBSET S : g1[s] \in Int
        /\ \A s \in SUBSET S : \A y \in s : g1[s] = h1[y] + g1[s \ {y}]
    BY <1>3, <2>1, SumSplit
  <2>3. S \in SUBSET S
    OBVIOUS
  <2> QED  BY <1>1, <2>2, <2>3 DEF R
<1>6. g2[S2] = h2[x] + g2[R]
  <2> HIDE DEF g2
  <2> QED  BY <1>1, <1>2, <1>3, SumSplit
<1>7. x \notin S => R = S
  OBVIOUS
<1>8. SumFunction(h1) = g1[S] /\ SumFunction(h2) = g2[S2]
  BY SumDef
<1>9. x \in S => h1[x] \in Int
  OBVIOUS
<1> HIDE DEF g1, g2, R, S, S2
<1>10. x \in S => SumFunction(h2) = SumFunction(h1) + h2[x] - h1[x]
  BY <1>4, <1>5, <1>6, <1>8, <1>9
<1>11. x \notin S => SumFunction(h2) = SumFunction(h1) + h2[x] - 0
  BY <1>4, <1>5, <1>6, <1>7, <1>8
<1> QED  BY <1>10, <1>11 DEF S

-----------------------------------------------------------------------------
(* The sinks. *)

Calls == {"idle", "file_write", "file_sync", "roll", "roll_write", "roll_sync"}
Dead == {"killed", "exited", "power_lost"}

(* The bytes of a file: those on the disk are among those in the kernel,   *)
(* and those among the ones that were written.                             *)
Sane(f) == f \in File /\ f.disk <= f.kernel /\ f.kernel <= f.size

(* The inductive invariants.  Only the open file may have bytes in the     *)
(* process, and none may once the process is gone.                         *)
FileInv ==
    /\ flush_log \in 0 .. 2 /\ pc \in Calls \cup Dead
    /\ chunk \in Nat /\ chunk <= Max(Chunk) /\ cur_size_ \in Nat /\ acked \in Nat
    /\ base \in [log : Int, rolls : Int, logDisk : Int, rollsDisk : Int]
    /\ Sane(log) /\ (~Running => log.kernel = log.size)
    /\ IsFiniteSet(DOMAIN rolls)
    /\ \A n \in DOMAIN rolls :
          /\ Sane(rolls[n])
          /\ ~Running \/ n # fs_ => rolls[n].kernel = rolls[n].size
    /\ fs_ = NoFile \/ fs_ \in DOMAIN rolls
    /\ NoFile \notin DOMAIN rolls
    /\ pc \in {"roll_write", "roll_sync"} => fs_ \in DOMAIN rolls

(* What of the current chunk a part of the sinks has got. *)
Got(calls) == IF pc \in calls THEN chunk ELSE 0

(* Where the bytes of this run are while it lasts: all of them in the      *)
(* files; all but those of a write not yet flushed in the kernel, from     *)
(* flush_log 1 on; and the acknowledged ones on the disk, with 2.          *)
SizeInv ==
    pc \notin {"killed", "power_lost"} =>
       /\ log.size = base.log + acked
                       + Got({"file_sync", "roll", "roll_write", "roll_sync"})
       /\ TotalSize(rolls) = base.rolls + acked + Got({"roll_sync"})

KernelInv ==
    Running /\ flush_log >= 1 =>
       /\ log.kernel >= log.size - Got({"file_sync"})
       /\ \A n \in DOMAIN rolls :
             rolls[n].kernel >= rolls[n].size
                                  - (IF n = fs_ THEN Got({"roll_sync"}) ELSE 0)

DiskInv ==
    /\ base.logDisk <= base.log
    /\ pc = "roll_sync" => rolls[fs_].disk <= rolls[fs_].size - chunk
    /\ Running /\ flush_log = 2 =>
          /\ log.disk >= base.logDisk + acked + Got({"roll", "roll_write", "roll_sync"})
          /\ TotalDisk(rolls) >= base.rollsDisk + acked

Books == SizeInv /\ KernelInv /\ DiskInv /\ AckedSurvives

(* The most that a file not yet full holds, what one opening may add to a  *)
(* rolled file, and what k of them may.                                    *)
NotFull == Max({max_size_, 1}) - 1
Limit == NotFull + Max(Chunk)
Room(k) == k * Limit

(* The bound of a rolled file, and of the open one, whose last opening has *)
(* added cur_size_ so far.                                                 *)
RollInv ==
    /\ cur_size_ <= Limit
    /\ pc = "roll_write" => cur_size_ <= NotFull
    /\ \A n \in DOMAIN rolls : rolls[n].size <= Room(rolls[n].opens)
    /\ fs_ \in DOMAIN rolls =>
          /\ rolls[fs_].opens >= 1
          /\ rolls[fs_].size <= Room(rolls[fs_].opens - 1) + cur_size_

-----------------------------------------------------------------------------
(* The constants of the bound. *)
LEMMA Limits ==
    /\ Max(Chunk) \in Nat /\ \A n \in Chunk : n <= Max(Chunk)
    /\ NotFull \in Nat /\ max_size_ <= NotFull + 1
    /\ Limit \in Nat /\ Limit = NotFull + Max(Chunk)
<1>1. Max(Chunk) \in Nat /\ \A n \in Chunk : n <= Max(Chunk)
  <2>1. Chunk \subseteq Int /\ Chunk # {} /\ IsFiniteSet(Chunk) /\ Chunk \subseteq Nat
    BY FlushAssumption
  <2> QED  BY <2>1, MaxProperties
<1>2. max_size_ \in Nat
  BY FlushAssumption
<1>3. IsFiniteSet({max_size_, 1})
  <2>1. IsFiniteSet({1}) /\ {max_size_, 1} = {1} \cup {max_size_}
    BY FS_Singleton
  <2> QED  BY <2>1, FS_AddElement
<1>4. /\ Max({max_size_, 1}) \in {max_size_, 1}
      /\ \A x \in {max_size_, 1} : x <= Max({max_size_, 1})
  BY <1>2, <1>3, MaxProperties
<1> HIDE DEF Max
<1> QED  BY <1>1, <1>2, <1>4 DEF Limit, NotFull

(* What the calls of stdio and the end of the process make of a file. *)
LEMMA FwriteFile ==
    ASSUME NEW f, Sane(f), NEW n \in Nat, NEW g \in Fwrite(f, n)
    PROVE  /\ Sane(g) /\ g.size = f.size + n /\ g.kernel >= f.kernel
           /\ g.disk = f.disk /\ g.opens = f.opens
<1>1. PICK k \in f.kernel .. f.size + n :
         g = [f EXCEPT !.size = f.size + n, !.kernel = k]
  BY DEF Fwrite
<1>2. /\ f.size \in Nat /\ f.kernel \in Nat /\ f.disk \in Nat /\ f.opens \in Nat
      /\ f.disk <= f.kernel /\ f.kernel <= f.size /\ f \in File
  BY DEF Sane, File
<1>3. k \in Nat /\ f.kernel <= k /\ k <= f.size + n /\ f.size + n \in Nat
  BY <1>1, <1>2
<1>4. /\ g \in File /\ g.size = f.size + n /\ g.kernel = k
      /\ g.disk = f.disk /\ g.opens = f.opens
  BY <1>1, <1>2, <1>3 DEF File
<1> QED  BY <1>2, <1>3, <1>4 DEF Sane

\* fflush hands what the stream holds to the kernel.
LEMMA FflushFile ==
    ASSUME NEW f, Sane(f)
    PROVE  /\ Sane(Fflush(f)) /\ Fflush(f).size = f.size
           /\ Fflush(f).kernel = f.size /\ Fflush(f).disk = f.disk
           /\ Fflush(f).opens = f.opens
  BY DEF Sane, File, Fflush

\* fsync puts what the kernel holds on the disk.
LEMMA FsyncFile ==
    ASSUME NEW f, Sane(f)
    PROVE  /\ Sane(Fsync(f)) /\ Fsync(f).size = f.size
           /\ Fsync(f).kernel = f.kernel /\ Fsync(f).disk = f.kernel
           /\ Fsync(f).opens = f.opens
  BY DEF Sane, File, Fsync

\* Flush's flush_log_ switch: 1 calls fflush, 2 fsync as well.
LEMMA SyncedFile ==
    ASSUME NEW f, Sane(f), flush_log \in 0 .. 2
    PROVE  /\ Sane(Synced(f)) /\ Synced(f).size = f.size
           /\ Synced(f).opens = f.opens /\ Synced(f).disk >= f.disk
           /\ Synced(f).kernel >= f.kernel
           /\ flush_log >= 1 => Synced(f).kernel = f.size
           /\ flush_log = 2 => Synced(f).disk = f.size
<1>1. CASE flush_log = 0
  BY <1>1 DEF Synced, Sane, File
<1>2. CASE flush_log = 1
  BY <1>2, FflushFile DEF Synced, Sane, File
<1>3. CASE flush_log = 2
  <2>1. Synced(f) = Fsync(Fflush(f))
    BY <1>3 DEF Synced
  <2>2. Sane(Fflush(f))
    BY FflushFile
  <2> QED  BY <1>3, <2>1, <2>2, FflushFile, FsyncFile DEF Sane, File
<1> QED  BY <1>1, <1>2, <1>3

\* A killed process loses what its streams hold.
LEMMA KilledFile ==
    ASSUME NEW f, Sane(f)
    PROVE  /\ Sane(Killed(f)) /\ Killed(f).size = f.kernel
           /\ Killed(f).kernel = f.kernel /\ Killed(f).opens = f.opens
  BY DEF Sane, File, Killed

\* A power loss also takes what the kernel holds.
LEMMA PowerLostFile ==
    ASSUME NEW f, Sane(f), NEW g \in PowerLost(f)
    PROVE  /\ Sane(g) /\ g.kernel = g.size /\ f.disk <= g.size /\ g.size <= f.size
           /\ g.opens = f.opens
<1>1. PICK k \in f.disk .. f.kernel :
         g = [f EXCEPT !.size = k, !.kernel = k, !.disk = k]
  BY DEF PowerLost
<1>2. /\ f.size \in Nat /\ f.kernel \in Nat /\ f.disk \in Nat /\ f.opens \in Nat
      /\ f.disk <= f.kernel /\ f.kernel <= f.size /\ f \in File
  BY DEF Sane, File
<1>3. k \in Nat /\ f.disk <= k /\ k <= f.kernel
  BY <1>1, <1>2
<1>4. /\ g \in File /\ g.size = k /\ g.kernel = k /\ g.disk = k
      /\ g.opens = f.opens
  BY <1>1, <1>2, <1>3 DEF File
<1> QED  BY <1>2, <1>3, <1>4 DEF Sane

(* The numbers in a file. *)
LEMMA SaneNumbers ==
    ASSUME NEW f, Sane(f)
    PROVE  /\ f.size \in Nat /\ f.kernel \in Nat /\ f.disk \in Nat /\ f.opens \in Nat
           /\ f.disk <= f.kernel /\ f.kernel <= f.size
  BY DEF Sane, File

(* fclose of the open file, and fopen of the next one. *)
LEMMA ClosedFiles ==
    ASSUME FileInv
    PROVE  /\ DOMAIN Closed(rolls) = DOMAIN rolls
           /\ \A n \in DOMAIN rolls :
                 LET f == Closed(rolls)[n] IN
                 /\ Sane(f) /\ f.size = rolls[n].size /\ f.kernel = f.size
                 /\ f.disk = rolls[n].disk /\ f.opens = rolls[n].opens
<1>1. ASSUME NEW n \in DOMAIN rolls
      PROVE  LET f == Closed(rolls)[n] IN
             /\ Sane(f) /\ f.size = rolls[n].size /\ f.kernel = f.size
             /\ f.disk = rolls[n].disk /\ f.opens = rolls[n].opens
  <2>1. Sane(rolls[n]) /\ (n # fs_ => rolls[n].kernel = rolls[n].size)
    BY DEF FileInv
  <2>2. CASE n = fs_
    BY <2>1, <2>2, FflushFile DEF Closed
  <2>3. CASE n # fs_
    BY <2>1, <2>3 DEF Closed
  <2> QED  BY <2>2, <2>3
<1> QED  BY <1>1 DEF Closed

\* InitLogFile closes the file in use and opens one, new or in append mode.
LEMMA RolledFiles ==
    ASSUME FileInv, NEW name, rolls' = Reopened(Closed(rolls), name)
    PROVE  /\ DOMAIN rolls' = DOMAIN rolls \cup {name}
           /\ \A n \in DOMAIN rolls :
                 /\ Sane(rolls'[n]) /\ rolls'[n].size = rolls[n].size
                 /\ rolls'[n].kernel = rolls'[n].size
                 /\ rolls'[n].disk = rolls[n].disk
                 /\ rolls'[n].opens = IF n = name THEN rolls[n].opens + 1
                                      ELSE rolls[n].opens
           /\ name \notin DOMAIN rolls =>
                 rolls'[name] = [size |-> 0, kernel |-> 0, disk |-> 0, opens |-> 1]
<1> DEFINE c == Closed(rolls)
<1>1. /\ DOMAIN c = DOMAIN rolls
      /\ \A n \in DOMAIN rolls :
            /\ Sane(c[n]) /\ c[n].size = rolls[n].size /\ c[n].kernel = c[n].size
            /\ c[n].disk = rolls[n].disk /\ c[n].opens = rolls[n].opens
  BY ClosedFiles
<1> HIDE DEF c
<1> DEFINE f == IF name \in DOMAIN c THEN c[name] ELSE NewFile
<1>2. rolls' = [n \in DOMAIN c \cup {name} |->
                   IF n = name THEN [f EXCEPT !.opens = f.opens + 1] ELSE c[n]]
  BY DEF Reopened, c
<1>3. DOMAIN rolls' = DOMAIN rolls \cup {name}
  BY <1>1, <1>2
<1>4. ASSUME NEW n \in DOMAIN rolls, n # name
      PROVE  rolls'[n] = c[n]
  BY <1>1, <1>2, <1>4
<1>5. rolls'[name] = [f EXCEPT !.opens = f.opens + 1]
  BY <1>2
<1>6. CASE name \in DOMAIN rolls
  <2>1. f = c[name] /\ Sane(f)
    BY <1>1, <1>6
  <2> HIDE DEF f
  <2>2. /\ Sane(rolls'[name]) /\ rolls'[name].size = f.size
        /\ rolls'[name].kernel = f.kernel /\ rolls'[name].disk = f.disk
        /\ rolls'[name].opens = f.opens + 1
    BY <1>5, <2>1 DEF Sane, File
  <2> QED  BY <1>1, <1>3, <1>4, <1>6, <2>1, <2>2
<1>7. CASE name \notin DOMAIN rolls
  <2>1. f = NewFile
    BY <1>1, <1>7
  <2>2. rolls'[name] = [size |-> 0, kernel |-> 0, disk |-> 0, opens |-> 1]
    BY <1>5, <2>1 DEF NewFile
  <2> QED  BY <1>1, <1>3, <1>4, <1>7, <2>2
<1> QED  BY <1>6, <1>7

(* The new file, if there is none of that name. *)
LEMMA FreshFile ==
    LET f == [size |-> 0, kernel |-> 0, disk |-> 0, opens |-> 1]
    IN  Sane(f) /\ f.size = 0 /\ f.kernel = 0 /\ f.disk = 0 /\ f.opens = 1
  BY DEF Sane, File

-----------------------------------------------------------------------------
(* Nothing is open but the log, and nothing is in it. *)
LEMMA FileInit == Init => FileInv
<1> SUFFICES ASSUME Init PROVE FileInv
  OBVIOUS
<1>1. Sane(log)
  BY DEF Init, NewFile, Sane, File
<1>2. DOMAIN rolls = {} /\ IsFiniteSet({})
  BY FS_EmptySet DEF Init
<1>3. flush_log \in 0 .. 2 /\ 0 <= Max(Chunk)
  BY FlushAssumption, Limits DEF Init
<1>4. base \in [log : Int, rolls : Int, logDisk : Int, rollsDisk : Int]
  BY DEF Init
<1> QED  BY <1>1, <1>2, <1>3, <1>4 DEF Init, FileInv, Calls, Running

(* The sums over the files are numbers. *)
LEMMA TotalInt == FileInv => TotalSize(rolls) \in Int /\ TotalDisk(rolls) \in Int
<1> SUFFICES ASSUME FileInv PROVE TotalSize(rolls) \in Int /\ TotalDisk(rolls) \in Int
  OBVIOUS
<1>1. \A n \in DOMAIN rolls : rolls[n].size \in Int /\ rolls[n].disk \in Int
  <2>1. \A n \in DOMAIN rolls : Sane(rolls[n])
    BY DEF FileInv
  <2> QED  BY <2>1, SaneNumbers
<1>2. IsFiniteSet(DOMAIN rolls)
  BY DEF FileInv
<1> DEFINE h1 == [n \in DOMAIN rolls |-> rolls[n].size]
           h2 == [n \in DOMAIN rolls |-> rolls[n].disk]
<1>3. /\ DOMAIN h1 = DOMAIN rolls /\ \A n \in DOMAIN h1 : h1[n] \in Int
      /\ DOMAIN h2 = DOMAIN rolls /\ \A n \in DOMAIN h2 : h2[n] \in Int
  BY <1>1
<1> HIDE DEF h1, h2
<1>4. SumFunction(h1) \in Int /\ SumFunction(h2) \in Int
  BY <1>2, <1>3, SumInt
<1> QED  BY <1>4 DEF TotalSize, TotalDisk, h1, h2

(* What the steps make of the rolled files. *)
LEMMA RollWriteFiles ==
    ASSUME FileInv, RollWrite
    PROVE  /\ fs_ \in DOMAIN rolls /\ DOMAIN rolls' = DOMAIN rolls
           /\ \A n \in DOMAIN rolls : n # fs_ => rolls'[n] = rolls[n]
           /\ Sane(rolls[fs_]) /\ Sane(rolls'[fs_])
           /\ rolls'[fs_].size = rolls[fs_].size + chunk
           /\ rolls'[fs_].kernel >= rolls[fs_].kernel
           /\ rolls'[fs_].disk = rolls[fs_].disk
           /\ rolls'[fs_].opens = rolls[fs_].opens
<1>1. fs_ \in DOMAIN rolls /\ Sane(rolls[fs_]) /\ chunk \in Nat
  BY DEF RollWrite, FileInv
<1>2. PICK f \in Fwrite(rolls[fs_], chunk) : rolls' = [rolls EXCEPT ![fs_] = f]
  BY DEF RollWrite
<1>3. /\ DOMAIN rolls' = DOMAIN rolls
      /\ \A n \in DOMAIN rolls : rolls'[n] = IF n = fs_ THEN f ELSE rolls[n]
  BY <1>2
<1> QED  BY <1>1, <1>2, <1>3, FwriteFile

\* The end of RollFileFlush::Flush leaves the files well formed.
LEMMA RollSyncFiles ==
    ASSUME FileInv, RollSync
    PROVE  /\ fs_ \in DOMAIN rolls /\ DOMAIN rolls' = DOMAIN rolls
           /\ \A n \in DOMAIN rolls : n # fs_ => rolls'[n] = rolls[n]
           /\ Sane(rolls[fs_]) /\ Sane(rolls'[fs_])
           /\ rolls'[fs_].size = rolls[fs_].size
           /\ rolls'[fs_].opens = rolls[fs_].opens
           /\ flush_log >= 1 => rolls'[fs_].kernel = rolls'[fs_].size
           /\ flush_log = 2 => rolls'[fs_].disk = rolls'[fs_].size
<1>1. fs_ \in DOMAIN rolls /\ Sane(rolls[fs_]) /\ flush_log \in 0 .. 2
  BY DEF RollSync, FileInv
<1>2. /\ DOMAIN rolls' = DOMAIN rolls
      /\ \A n \in DOMAIN rolls : rolls'[n] = IF n = fs_ THEN Synced(rolls[fs_])
                                             ELSE rolls[n]
  BY DEF RollSync
<1> QED  BY <1>1, <1>2, SyncedFile

\* So does the end of the process, whichever way it ends.
LEMMA EndFiles ==
    ASSUME FileInv, Kill \/ PowerLoss \/ Exit
    PROVE  /\ DOMAIN rolls' = DOMAIN rolls
           /\ \A n \in DOMAIN rolls :
                 /\ Sane(rolls'[n]) /\ rolls'[n].kernel = rolls'[n].size
                 /\ rolls'[n].size <= rolls[n].size
                 /\ rolls'[n].opens = rolls[n].opens
<1>0. \A n \in DOMAIN rolls : Sane(rolls[n])
  BY DEF FileInv
<1>1. CASE Kill
  <2>1. /\ DOMAIN rolls' = DOMAIN rolls
        /\ \A n \in DOMAIN rolls : rolls'[n] = Killed(rolls[n])
    BY <1>1 DEF Kill
  <2> QED  BY <1>0, <2>1, KilledFile, SaneNumbers
<1>2. CASE PowerLoss
  <2>1. /\ DOMAIN rolls' = DOMAIN rolls
        /\ \A n \in DOMAIN rolls : rolls'[n] \in PowerLost(rolls[n])
    BY <1>2 DEF PowerLoss
  <2> QED  BY <1>0, <2>1, PowerLostFile
<1>3. CASE Exit
  <2>1. rolls' = Closed(rolls)
    BY <1>3 DEF Exit
  <2>2. \A n \in DOMAIN rolls : rolls[n].size \in Nat
    BY <1>0, SaneNumbers
  <2> QED  BY <2>1, <2>2, ClosedFiles
<1> QED  BY <1>1, <1>2, <1>3

(* Every step keeps the files in order. *)
LEMMA FileStep == FileInv /\ [Next]_vars => FileInv'
<1> SUFFICES ASSUME FileInv, [Next]_vars PROVE FileInv'
  OBVIOUS
<1>1. ASSUME NEW n \in Chunk, RealFlush(n) PROVE FileInv'
  <2>1. n \in Nat /\ n <= Max(Chunk)
    BY FlushAssumption, Limits
  <2> QED  BY <1>1, <2>1 DEF RealFlush, FileInv, Running, Calls, Dead
<1>2. CASE FileWrite
  <2>1. Sane(log')
    BY <1>2, FwriteFile DEF FileWrite, FileInv
  <2> QED  BY <1>2, <2>1 DEF FileWrite, FileInv, Running, Calls, Dead
<1>3. CASE FileSync
  <2>1. Sane(log')
    BY <1>3, SyncedFile DEF FileSync, FileInv
  <2> QED  BY <1>3, <2>1 DEF FileSync, FileInv, Running, Calls, Dead
<1>4. CASE InitLogFile
  <2>1. CASE NeedsRoll
    <3> DEFINE name == CreateFilename
    <3>1. rolls' = Reopened(Closed(rolls), name) /\ fs_' = name /\ cur_size_' = 0
      BY <1>4, <2>1 DEF InitLogFile
    <3>0. name # NoFile
      BY DEF CreateFilename, NoFile
    <3> HIDE DEF name
    <3>2. /\ DOMAIN rolls' = DOMAIN rolls \cup {name}
          /\ \A n \in DOMAIN rolls' :
                Sane(rolls'[n]) /\ rolls'[n].kernel = rolls'[n].size
      <4>1. /\ DOMAIN rolls' = DOMAIN rolls \cup {name}
            /\ \A n \in DOMAIN rolls :
                  Sane(rolls'[n]) /\ rolls'[n].kernel = rolls'[n].size
            /\ name \notin DOMAIN rolls =>
                  rolls'[name] = [size |-> 0, kernel |-> 0, disk |-> 0, opens |-> 1]
        BY <3>1, RolledFiles
      <4>2. name \notin DOMAIN rolls =>
               Sane(rolls'[name]) /\ rolls'[name].kernel = rolls'[name].size
        BY <4>1, FreshFile
      <4> QED  BY <4>1, <4>2
    <3>3. IsFiniteSet(DOMAIN rolls')
      BY <3>2, FS_AddElement DEF FileInv
    <3> QED  BY <1>4, <3>0, <3>1, <3>2, <3>3
             DEF InitLogFile, FileInv, Running, Calls, Dead
  <2>2. CASE ~NeedsRoll
    BY <1>4, <2>2 DEF InitLogFile, NeedsRoll, FileInv, Running, Calls, Dead
  <2> QED  BY <2>1, <2>2
<1>5. CASE RollWrite
  <2>1. cur_size_' \in Nat
    <3>1. cur_size_ \in Nat /\ chunk \in Nat
      BY DEF FileInv
    <3>2. cur_size_' = cur_size_ + chunk
      BY <1>5 DEF RollWrite
    <3> QED  BY <3>1, <3>2
  <2>2. pc' = "roll_sync" /\ Running /\ Running'
        /\ UNCHANGED <<flush_log, chunk, log, fs_, acked, base>>
    BY <1>5 DEF RollWrite, Running
  <2> QED  BY <1>5, <2>1, <2>2, RollWriteFiles DEF FileInv, Calls
<1>6. CASE RollSync
  <2>1. acked' \in Nat
    <3>1. acked \in Nat /\ chunk \in Nat
      BY DEF FileInv
    <3>2. acked' = acked + chunk
      BY <1>6 DEF RollSync
    <3> QED  BY <3>1, <3>2
  <2>2. pc' = "idle" /\ Running /\ Running'
        /\ UNCHANGED <<flush_log, chunk, log, fs_, cur_size_, base>>
    BY <1>6 DEF RollSync, Running
  <2> QED  BY <1>6, <2>1, <2>2, RollSyncFiles DEF FileInv, Calls
<1>7. CASE Kill \/ PowerLoss \/ Exit
  <2>1. Sane(log)
    BY DEF FileInv
  <2>2. Sane(log') /\ log'.kernel = log'.size
    <3>1. CASE Kill
      BY <2>1, <3>1, KilledFile DEF Kill
    <3>2. CASE PowerLoss
      BY <2>1, <3>2, PowerLostFile DEF PowerLoss
    <3>3. CASE Exit
      BY <2>1, <3>3, FflushFile DEF Exit
    <3> QED  BY <1>7, <3>1, <3>2, <3>3
  <2>3. pc' \in Dead /\ ~Running'
        /\ UNCHANGED <<flush_log, chunk, fs_, cur_size_, acked, base>>
    BY <1>7 DEF Kill, PowerLoss, Exit, Running, Dead
  <2> QED  BY <1>7, <2>2, <2>3, EndFiles DEF FileInv, Running, Calls, Dead
<1>8. CASE Restart
  <2>1. Sane(log') /\ log'.kernel = log'.size
    <3>1. Sane(log) /\ log.kernel = log.size /\ log' = [log EXCEPT !.opens = log.opens + 1]
      BY <1>8 DEF Restart, FileInv
    <3> QED  BY <3>1 DEF Sane, File
  <2>2. base' \in [log : Int, rolls : Int, logDisk : Int, rollsDisk : Int]
    <3>1. Sane(log)
      BY DEF FileInv
    <3>2. log.size \in Int /\ log.disk \in Int
      BY <3>1, SaneNumbers
    <3> QED  BY <1>8, <3>2, TotalInt DEF Restart
  <2>3. flush_log' \in 0 .. 2
    BY <1>8, FlushAssumption DEF Restart
  <2> QED  BY <1>8, <2>1, <2>2, <2>3 DEF Restart, FileInv, Running, Calls
<1>9. CASE Tick \/ Ended \/ UNCHANGED vars
  BY <1>9 DEF Tick, Ended, vars, FileInv, Running
<1> QED  BY <1>1, <1>2, <1>3, <1>4, <1>5, <1>6, <1>7, <1>8, <1>9 DEF Next

-----------------------------------------------------------------------------
\* Each opening of a file makes room for one more limit.
LEMMA Rooms ==
    Room(0) = 0 /\ \A k \in Nat : Room(k) \in Nat /\ Room(k + 1) = Room(k) + Limit
  BY Limits DEF Room

(* What a step that opens and fills no file makes of the bound. *)
LEMMA RollRests ==
    ASSUME FileInv, RollInv, DOMAIN rolls' = DOMAIN rolls,
           \A n \in DOMAIN rolls : /\ rolls'[n].size \in Nat
                                   /\ rolls'[n].size <= rolls[n].size
                                   /\ rolls'[n].opens = rolls[n].opens,
           cur_size_' = cur_size_, fs_' = fs_, pc' # "roll_write"
    PROVE  RollInv'
<1>0. \A n \in DOMAIN rolls : Sane(rolls[n])
  BY DEF FileInv
<1>1. \A n \in DOMAIN rolls : /\ rolls[n].size \in Nat /\ rolls'[n].size \in Nat
                              /\ rolls[n].opens \in Nat
  BY <1>0, SaneNumbers
<1>2. ASSUME NEW n \in DOMAIN rolls'
      PROVE  rolls'[n].size <= Room(rolls'[n].opens)
  <2>1. Room(rolls[n].opens) \in Nat
    BY <1>1, Rooms
  <2>2. rolls[n].size <= Room(rolls[n].opens)
    BY DEF RollInv
  <2>3. rolls[n].size \in Nat /\ rolls'[n].size \in Nat
    BY <1>1
  <2>4. rolls'[n].size <= rolls[n].size /\ rolls'[n].opens = rolls[n].opens
    OBVIOUS
  <2> QED  BY <2>1, <2>2, <2>3, <2>4
<1>3. ASSUME fs_ \in DOMAIN rolls
      PROVE  /\ rolls'[fs_].opens >= 1
             /\ rolls'[fs_].size <= Room(rolls'[fs_].opens - 1) + cur_size_
  <2>1. /\ rolls[fs_].opens >= 1
        /\ rolls[fs_].size <= Room(rolls[fs_].opens - 1) + cur_size_
    BY <1>3 DEF RollInv
  <2>2. cur_size_ \in Nat
    BY DEF RollInv, FileInv
  <2>3. /\ rolls[fs_].size \in Nat /\ rolls'[fs_].size \in Nat
        /\ rolls[fs_].opens \in Nat
        /\ rolls'[fs_].size <= rolls[fs_].size
        /\ rolls'[fs_].opens = rolls[fs_].opens
    BY <1>1, <1>3
  <2>4. Room(rolls[fs_].opens - 1) \in Nat
    <3>1. rolls[fs_].opens - 1 \in Nat
      BY <2>1, <2>3
    <3> QED  BY <3>1, Rooms
  <2> QED  BY <2>1, <2>2, <2>3, <2>4
<1>4. cur_size_ <= Limit
  BY DEF RollInv
<1> QED  BY <1>2, <1>3, <1>4 DEF RollInv

(* A file is opened, a new one or one that is there: Room for one more. *)
LEMMA RollOpens == ASSUME FileInv, RollInv, InitLogFile, NeedsRoll PROVE RollInv'
<1>1. \A n \in DOMAIN rolls : rolls[n].size \in Nat /\ rolls[n].opens \in Nat
  <2>1. \A n \in DOMAIN rolls : Sane(rolls[n])
    BY DEF FileInv
  <2> QED  BY <2>1, SaneNumbers
<1> DEFINE name == CreateFilename
<1>2. /\ rolls' = Reopened(Closed(rolls), name) /\ fs_' = name /\ cur_size_' = 0
      /\ pc' = "roll_write"
  BY DEF InitLogFile
<1> HIDE DEF name
<1>3. /\ DOMAIN rolls' = DOMAIN rolls \cup {name}
      /\ \A n \in DOMAIN rolls :
            /\ rolls'[n].size = rolls[n].size
            /\ rolls'[n].opens = IF n = name THEN rolls[n].opens + 1
                                 ELSE rolls[n].opens
      /\ name \notin DOMAIN rolls =>
            rolls'[name] = [size |-> 0, kernel |-> 0, disk |-> 0, opens |-> 1]
  BY <1>2, RolledFiles
<1>4. \A n \in DOMAIN rolls : rolls[n].size <= Room(rolls[n].opens)
  BY DEF RollInv
<1>5. ASSUME NEW n \in DOMAIN rolls, n # name
      PROVE  rolls'[n].size <= Room(rolls'[n].opens)
  BY <1>3, <1>4, <1>5
<1>6. /\ rolls'[name].opens >= 1
      /\ rolls'[name].size <= Room(rolls'[name].opens - 1) + 0
      /\ rolls'[name].size <= Room(rolls'[name].opens)
  <2>1. CASE name \in DOMAIN rolls
    <3>1. /\ Room(rolls[name].opens) \in Nat
          /\ Room(rolls[name].opens + 1) = Room(rolls[name].opens) + Limit
      BY <1>1, <2>1, Rooms
    <3>2. /\ rolls'[name].opens = rolls[name].opens + 1
          /\ rolls'[name].opens - 1 = rolls[name].opens
          /\ rolls'[name].opens >= 1
      BY <1>1, <1>3, <2>1
    <3> QED  BY <1>1, <1>3, <1>4, <2>1, <3>1, <3>2, Limits
  <2>2. CASE name \notin DOMAIN rolls
    <3>1. rolls'[name].size = 0 /\ rolls'[name].opens = 1 /\ 1 - 1 = 0 /\ 0 + 1 = 1
      <4>1. rolls'[name] = [size |-> 0, kernel |-> 0, disk |-> 0, opens |-> 1]
        BY <1>3, <2>2
      <4> QED  BY <4>1
    <3>2. Room(0) = 0 /\ Room(0 + 1) = Room(0) + Limit
      BY Rooms
    <3> QED  BY <3>1, <3>2, Limits
  <2> QED  BY <2>1, <2>2
<1>7. cur_size_' <= Limit /\ cur_size_' <= NotFull
  BY <1>2, Limits
<1> QED  BY <1>2, <1>3, <1>5, <1>6, <1>7 DEF RollInv

(* The open file grows by the chunk, and so does cur_size_. *)
LEMMA RollFills == ASSUME FileInv, RollInv, RollWrite PROVE RollInv'
<1>1. cur_size_ \in Nat /\ chunk \in Nat /\ chunk <= Max(Chunk)
  BY DEF FileInv
<1>2. cur_size_ <= NotFull
  BY DEF RollInv, RollWrite
<1>3. cur_size_' = cur_size_ + chunk /\ pc' = "roll_sync" /\ fs_' = fs_
  BY DEF RollWrite
<1>4. cur_size_' \in Nat /\ cur_size_' <= Limit
  BY <1>1, <1>2, <1>3, Limits
<1>5. /\ fs_ \in DOMAIN rolls /\ DOMAIN rolls' = DOMAIN rolls
      /\ \A n \in DOMAIN rolls : n # fs_ => rolls'[n] = rolls[n]
      /\ rolls'[fs_].size = rolls[fs_].size + chunk
      /\ rolls'[fs_].opens = rolls[fs_].opens
      /\ Sane(rolls[fs_])
  BY RollWriteFiles
<1> DEFINE k == rolls[fs_].opens - 1
<1>6. rolls[fs_].opens >= 1 /\ rolls[fs_].size <= Room(k) + cur_size_
  BY <1>5 DEF RollInv
<1>7. rolls[fs_].size \in Nat /\ rolls[fs_].opens \in Nat
  BY <1>5, SaneNumbers
<1>8. k \in Nat /\ rolls[fs_].opens = k + 1 /\ rolls'[fs_].opens - 1 = k
  BY <1>5, <1>6, <1>7
<1> HIDE DEF k
<1>9. Room(k) \in Nat /\ Room(k + 1) = Room(k) + Limit
  BY <1>8, Rooms
<1>10. /\ rolls'[fs_].size <= Room(k) + cur_size_'
       /\ rolls'[fs_].size <= Room(rolls'[fs_].opens)
  BY <1>1, <1>3, <1>4, <1>5, <1>6, <1>7, <1>8, <1>9, Limits
<1>11. \A n \in DOMAIN rolls' : rolls'[n].size <= Room(rolls'[n].opens)
  BY <1>5, <1>10 DEF RollInv
<1> QED  BY <1>3, <1>4, <1>5, <1>6, <1>8, <1>10, <1>11 DEF RollInv

(* Every step keeps the bound. *)
LEMMA RollStep == FileInv /\ RollInv /\ [Next]_vars => RollInv'
<1> SUFFICES ASSUME FileInv, RollInv, [Next]_vars PROVE RollInv'
  OBVIOUS
<1>1. \A n \in DOMAIN rolls : rolls[n].size \in Nat /\ rolls[n].opens \in Nat
  <2>1. \A n \in DOMAIN rolls : Sane(rolls[n])
    BY DEF FileInv
  <2> QED  BY <2>1, SaneNumbers
<1>2. ASSUME rolls' = rolls, fs_' = fs_, cur_size_' = cur_size_, pc' # "roll_write"
      PROVE  RollInv'
  BY <1>1, <1>2, RollRests
<1>3. CASE (\E n \in Chunk : RealFlush(n)) \/ FileWrite \/ FileSync
  BY <1>2, <1>3 DEF RealFlush, FileWrite, FileSync
<1>4. CASE InitLogFile
  <2>1. CASE NeedsRoll
    BY <1>4, <2>1, RollOpens
  <2>2. CASE ~NeedsRoll
    <3>1. cur_size_ \in Nat /\ max_size_ \in Nat /\ ~(cur_size_ >= max_size_)
      BY <2>2, FlushAssumption DEF NeedsRoll, FileInv
    <3>2. cur_size_ <= NotFull
      BY <3>1, Limits
    <3>3. UNCHANGED <<rolls, fs_, cur_size_>>
      BY <1>4, <2>2 DEF InitLogFile
    <3> QED  BY <3>2, <3>3 DEF RollInv
  <2> QED  BY <2>1, <2>2
<1>5. CASE RollWrite
  BY <1>5, RollFills
<1>6. CASE RollSync
  <2>1. cur_size_' = cur_size_ /\ fs_' = fs_ /\ pc' # "roll_write"
    BY <1>6 DEF RollSync
  <2>2. DOMAIN rolls' = DOMAIN rolls
    BY <1>6, RollSyncFiles
  <2>3. ASSUME NEW n \in DOMAIN rolls
        PROVE  /\ rolls'[n].size \in Nat /\ rolls'[n].size <= rolls[n].size
               /\ rolls'[n].opens = rolls[n].opens
    <3>1. rolls'[n].size = rolls[n].size /\ rolls'[n].opens = rolls[n].opens
      BY <1>6, RollSyncFiles
    <3> QED  BY <1>1, <3>1
  <2> QED  BY <2>1, <2>2, <2>3, RollRests
<1>7. CASE Kill \/ PowerLoss \/ Exit
  <2>1. cur_size_' = cur_size_ /\ fs_' = fs_ /\ pc' # "roll_write"
    BY <1>7 DEF Kill, PowerLoss, Exit
  <2>2. /\ DOMAIN rolls' = DOMAIN rolls
        /\ \A n \in DOMAIN rolls : Sane(rolls'[n])
        /\ \A n \in DOMAIN rolls : /\ rolls'[n].size <= rolls[n].size
                                   /\ rolls'[n].opens = rolls[n].opens
    BY <1>7, EndFiles
  <2>3. \A n \in DOMAIN rolls : rolls'[n].size \in Nat
    BY <2>2, SaneNumbers
  <2> QED  BY <2>1, <2>2, <2>3, RollRests
<1>8. CASE Restart
  <2>1. cur_size_' = 0 /\ fs_' = NoFile /\ rolls' = rolls /\ pc' = "idle"
    BY <1>8 DEF Restart
  <2>2. NoFile \notin DOMAIN rolls
    BY DEF FileInv
  <2>3. cur_size_' <= Limit
    BY <2>1, Limits
  <2> QED  BY <2>1, <2>2, <2>3 DEF RollInv
<1>9. CASE Tick \/ Ended \/ UNCHANGED vars
  <2>1. UNCHANGED <<rolls, fs_, cur_size_, pc>>
    BY <1>9 DEF Tick, Ended, vars
  <2> QED  BY <2>1 DEF RollInv
<1> QED  BY <1>3, <1>4, <1>5, <1>6, <1>7, <1>8, <1>9 DEF Next

(* No rolled file grows by more than a chunk beyond max_size_ each time it *)
(* is opened, however InitLogFile, restarts and crashes follow each other, *)
(* files that CreateFilename names alike included.                         *)
THEOREM RolledCorrect == Spec => []RolledBounded
<1>1. Init => FileInv /\ RollInv
  <2> SUFFICES ASSUME Init PROVE FileInv /\ RollInv
    OBVIOUS
  <2>1. DOMAIN rolls = {} /\ cur_size_ = 0 /\ pc = "idle"
    BY DEF Init
  <2>2. cur_size_ <= Limit
    BY <2>1, Limits
  <2> QED  BY <2>1, <2>2, FileInit DEF RollInv
<1>2. RollInv => RolledBounded
  BY DEF RollInv, RolledBounded, Room, Limit, NotFull
<1> QED  BY <1>1, <1>2, FileStep, RollStep, PTL DEF Spec

-----------------------------------------------------------------------------
(* The sums over the rolled files, when they stay as they are and when one *)
(* file changes or is added.                                               *)
LEMMA TotalSame ==
    ASSUME NEW f, NEW g, DOMAIN g = DOMAIN f
    PROVE  /\ (\A n \in DOMAIN f : g[n].size = f[n].size) => TotalSize(g) = TotalSize(f)
           /\ (\A n \in DOMAIN f : g[n].disk = f[n].disk) => TotalDisk(g) = TotalDisk(f)
<1>1. ASSUME \A n \in DOMAIN f : g[n].size = f[n].size
      PROVE  TotalSize(g) = TotalSize(f)
  <2>1. [n \in DOMAIN g |-> g[n].size] = [n \in DOMAIN f |-> f[n].size]
    BY <1>1
  <2> QED  BY <2>1 DEF TotalSize
<1>2. ASSUME \A n \in DOMAIN f : g[n].disk = f[n].disk
      PROVE  TotalDisk(g) = TotalDisk(f)
  <2>1. [n \in DOMAIN g |-> g[n].disk] = [n \in DOMAIN f |-> f[n].disk]
    BY <1>2
  <2> QED  BY <2>1 DEF TotalDisk
<1> QED  BY <1>1, <1>2

\* Replacing one file changes the total by the difference of the sizes.
LEMMA TotalSizeUpdate ==
    ASSUME NEW f, NEW g, NEW x, IsFiniteSet(DOMAIN f), DOMAIN g = DOMAIN f \cup {x},
           \A n \in DOMAIN f : f[n].size \in Int, g[x].size \in Int,
           \A n \in DOMAIN f : n # x => g[n].size = f[n].size
    PROVE  TotalSize(g) = TotalSize(f) + g[x].size
                             - (IF x \in DOMAIN f THEN f[x].size ELSE 0)
<1> DEFINE h1 == [n \in DOMAIN f |-> f[n].size]
           h2 == [n \in DOMAIN g |-> g[n].size]
<1>1. /\ IsFiniteSet(DOMAIN h1) /\ DOMAIN h2 = DOMAIN h1 \cup {x}
      /\ (\A y \in DOMAIN h1 : h1[y] \in Int) /\ h2[x] \in Int
      /\ \A y \in DOMAIN h1 : y # x => h2[y] = h1[y]
  OBVIOUS
<1>2. h2[x] = g[x].size /\ DOMAIN h1 = DOMAIN f /\ (x \in DOMAIN f => h1[x] = f[x].size)
  OBVIOUS
<1>3. TotalSize(f) = SumFunction(h1) /\ TotalSize(g) = SumFunction(h2)
  BY DEF TotalSize
<1> HIDE DEF h1, h2
<1>4. SumFunction(h2) = SumFunction(h1) + h2[x]
                          - (IF x \in DOMAIN h1 THEN h1[x] ELSE 0)
  BY <1>1, SumUpdate
<1> QED  BY <1>2, <1>3, <1>4

\* The same of the bytes on the disk.
LEMMA TotalDiskUpdate ==
    ASSUME NEW f, NEW g, NEW x, IsFiniteSet(DOMAIN f), DOMAIN g = DOMAIN f \cup {x},
           \A n \in DOMAIN f : f[n].disk \in Int, g[x].disk \in Int,
           \A n \in DOMAIN f : n # x => g[n].disk = f[n].disk
    PROVE  TotalDisk(g) = TotalDisk(f) + g[x].disk
                             - (IF x \in DOMAIN f THEN f[x].disk ELSE 0)
<1> DEFINE h1 == [n \in DOMAIN f |-> f[n].disk]
           h2 == [n \in DOMAIN g |-> g[n].disk]
<1>1. /\ IsFiniteSet(DOMAIN h1) /\ DOMAIN h2 = DOMAIN h1 \cup {x}
      /\ (\A y \in DOMAIN h1 : h1[y] \in Int) /\ h2[x] \in Int
      /\ \A y \in DOMAIN h1 : y # x => h2[y] = h1[y]
  OBVIOUS
<1>2. h2[x] = g[x].disk /\ DOMAIN h1 = DOMAIN f /\ (x \in DOMAIN f => h1[x] = f[x].disk)
  OBVIOUS
<1>3. TotalDisk(f) = SumFunction(h1) /\ TotalDisk(g) = SumFunction(h2)
  BY DEF TotalDisk
<1> HIDE DEF h1, h2
<1>4. SumFunction(h2) = SumFunction(h1) + h2[x]
                          - (IF x \in DOMAIN h1 THEN h1[x] ELSE 0)
  BY <1>1, SumUpdate
<1> QED  BY <1>2, <1>3, <1>4

\* The counts of a file are natural numbers.
LEMMA FileNumbers ==
    ASSUME FileInv
    PROVE  /\ IsFiniteSet(DOMAIN rolls)
           /\ \A n \in DOMAIN rolls :
                 /\ rolls[n].size \in Nat /\ rolls[n].kernel \in Nat /\ rolls[n].disk \in Nat
                 /\ rolls[n].size \in Int /\ rolls[n].disk \in Int
                 /\ rolls[n].disk <= rolls[n].kernel /\ rolls[n].kernel <= rolls[n].size
           /\ log.size \in Nat /\ log.kernel \in Nat /\ log.disk \in Nat
           /\ log.disk <= log.kernel /\ log.kernel <= log.size
           /\ chunk \in Nat /\ acked \in Nat
           /\ base.log \in Int /\ base.rolls \in Int
           /\ base.logDisk \in Int /\ base.rollsDisk \in Int
<1>1. IsFiniteSet(DOMAIN rolls) /\ Sane(log) /\ \A n \in DOMAIN rolls : Sane(rolls[n])
  BY DEF FileInv
<1>2. /\ log.size \in Nat /\ log.kernel \in Nat /\ log.disk \in Nat
      /\ log.disk <= log.kernel /\ log.kernel <= log.size
  BY <1>1, SaneNumbers
<1>3. \A n \in DOMAIN rolls :
         /\ rolls[n].size \in Nat /\ rolls[n].kernel \in Nat /\ rolls[n].disk \in Nat
         /\ rolls[n].size \in Int /\ rolls[n].disk \in Int
         /\ rolls[n].disk <= rolls[n].kernel /\ rolls[n].kernel <= rolls[n].size
  BY <1>1, SaneNumbers
<1>4. /\ chunk \in Nat /\ acked \in Nat
      /\ base \in [log : Int, rolls : Int, logDisk : Int, rollsDisk : Int]
  BY DEF FileInv
<1>5. /\ base.log \in Int /\ base.rolls \in Int
      /\ base.logDisk \in Int /\ base.rollsDisk \in Int
  BY <1>4
<1> QED  BY <1>1, <1>2, <1>3, <1>4, <1>5

(* What each step makes of the totals. *)
LEMMA RollWriteTotals ==
    ASSUME FileInv, RollWrite
    PROVE  /\ TotalSize(rolls') = TotalSize(rolls) + chunk
           /\ TotalDisk(rolls') = TotalDisk(rolls)
<1>1. /\ fs_ \in DOMAIN rolls /\ DOMAIN rolls' = DOMAIN rolls
      /\ \A n \in DOMAIN rolls : n # fs_ => rolls'[n] = rolls[n]
      /\ rolls'[fs_].size = rolls[fs_].size + chunk
      /\ rolls'[fs_].disk = rolls[fs_].disk
  BY RollWriteFiles
<1>2. rolls[fs_].size \in Nat /\ chunk \in Nat /\ TotalSize(rolls) \in Int
  BY <1>1, FileNumbers, TotalInt
<1>3. rolls'[fs_].size \in Int
  BY <1>1, <1>2
<1>4. /\ DOMAIN rolls' = DOMAIN rolls \cup {fs_}
      /\ \A n \in DOMAIN rolls : n # fs_ => rolls'[n].size = rolls[n].size
      /\ \A n \in DOMAIN rolls : rolls'[n].disk = rolls[n].disk
  BY <1>1
<1>5. TotalSize(rolls') = TotalSize(rolls) + rolls'[fs_].size - rolls[fs_].size
  <2>1. TotalSize(rolls') = TotalSize(rolls) + rolls'[fs_].size
                              - (IF fs_ \in DOMAIN rolls THEN rolls[fs_].size ELSE 0)
    BY <1>3, <1>4, FileNumbers, TotalSizeUpdate
  <2> QED  BY <1>1, <2>1
<1>6. TotalDisk(rolls') = TotalDisk(rolls)
  BY <1>1, <1>4, TotalSame
<1> QED  BY <1>1, <1>2, <1>5, <1>6

\* RollFileFlush::Flush moves bytes down and loses none.
LEMMA RollSyncTotals ==
    ASSUME FileInv, RollSync
    PROVE  /\ TotalSize(rolls') = TotalSize(rolls)
           /\ flush_log = 2 => TotalDisk(rolls') = TotalDisk(rolls)
                                                     + rolls[fs_].size - rolls[fs_].disk
<1>1. /\ fs_ \in DOMAIN rolls /\ DOMAIN rolls' = DOMAIN rolls
      /\ \A n \in DOMAIN rolls : n # fs_ => rolls'[n] = rolls[n]
      /\ rolls'[fs_].size = rolls[fs_].size
      /\ flush_log = 2 => rolls'[fs_].disk = rolls'[fs_].size
  BY RollSyncFiles
<1>2. TotalSize(rolls') = TotalSize(rolls)
  <2>1. \A n \in DOMAIN rolls : rolls'[n].size = rolls[n].size
    BY <1>1
  <2> QED  BY <1>1, <2>1, TotalSame
<1>3. ASSUME flush_log = 2
      PROVE  TotalDisk(rolls') = TotalDisk(rolls) + rolls[fs_].size - rolls[fs_].disk
  <2>1. rolls[fs_].size \in Int /\ rolls'[fs_].disk = rolls[fs_].size
    BY <1>1, <1>3, FileNumbers
  <2>2. /\ DOMAIN rolls' = DOMAIN rolls \cup {fs_}
        /\ \A n \in DOMAIN rolls : n # fs_ => rolls'[n].disk = rolls[n].disk
    BY <1>1
  <2>3. TotalDisk(rolls') = TotalDisk(rolls) + rolls'[fs_].disk
                              - (IF fs_ \in DOMAIN rolls THEN rolls[fs_].disk ELSE 0)
    BY <2>1, <2>2, FileNumbers, TotalDiskUpdate
  <2> QED  BY <1>1, <2>1, <2>3
<1> QED  BY <1>2, <1>3

\* InitLogFile closes a file, which loses nothing, and opens an empty one.
LEMMA RollTotals ==
    ASSUME FileInv, InitLogFile
    PROVE  /\ TotalSize(rolls') = TotalSize(rolls)
           /\ TotalDisk(rolls') = TotalDisk(rolls)
<1>1. CASE NeedsRoll
  <2> DEFINE name == CreateFilename
  <2>1. rolls' = Reopened(Closed(rolls), name)
    BY <1>1 DEF InitLogFile
  <2> HIDE DEF name
  <2>2. /\ DOMAIN rolls' = DOMAIN rolls \cup {name}
        /\ \A n \in DOMAIN rolls : rolls'[n].size = rolls[n].size
                                   /\ rolls'[n].disk = rolls[n].disk
        /\ name \notin DOMAIN rolls =>
              rolls'[name] = [size |-> 0, kernel |-> 0, disk |-> 0, opens |-> 1]
    BY <2>1, RolledFiles
  <2>3. CASE name \in DOMAIN rolls
    <3>1. DOMAIN rolls' = DOMAIN rolls
      BY <2>2, <2>3
    <3> QED  BY <2>2, <3>1, TotalSame
  <2>4. CASE name \notin DOMAIN rolls
    <3>1. rolls'[name].size = 0 /\ rolls'[name].disk = 0
      <4>1. rolls'[name] = [size |-> 0, kernel |-> 0, disk |-> 0, opens |-> 1]
        BY <2>2, <2>4
      <4> QED  BY <4>1
    <3>2. 0 \in Int /\ TotalSize(rolls) \in Int /\ TotalDisk(rolls) \in Int
      BY TotalInt
    <3>3. /\ IsFiniteSet(DOMAIN rolls)
          /\ \A n \in DOMAIN rolls : rolls[n].size \in Int
          /\ \A n \in DOMAIN rolls : rolls[n].disk \in Int
          /\ rolls'[name].size \in Int /\ rolls'[name].disk \in Int
      BY <3>1, <3>2, FileNumbers
    <3>4. /\ \A n \in DOMAIN rolls : n # name => rolls'[n].size = rolls[n].size
          /\ \A n \in DOMAIN rolls : n # name => rolls'[n].disk = rolls[n].disk
      BY <2>2
    <3>5. TotalSize(rolls') = TotalSize(rolls) + rolls'[name].size
                                - (IF name \in DOMAIN rolls THEN rolls[name].size ELSE 0)
      BY <2>2, <3>3, <3>4, TotalSizeUpdate
    <3>6. TotalDisk(rolls') = TotalDisk(rolls) + rolls'[name].disk
                                - (IF name \in DOMAIN rolls THEN rolls[name].disk ELSE 0)
      BY <2>2, <3>3, <3>4, TotalDiskUpdate
    <3> QED  BY <2>4, <3>1, <3>2, <3>5, <3>6
  <2> QED  BY <2>3, <2>4
<1>2. CASE ~NeedsRoll
  BY <1>2 DEF InitLogFile
<1> QED  BY <1>1, <1>2

\* Closing the streams at exit loses nothing.
LEMMA ExitTotals == ASSUME FileInv, Exit PROVE TotalSize(rolls') = TotalSize(rolls)
<1>1. rolls' = Closed(rolls)
  BY DEF Exit
<1>2. DOMAIN rolls' = DOMAIN rolls /\ \A n \in DOMAIN rolls : rolls'[n].size = rolls[n].size
  BY <1>1, ClosedFiles
<1> QED  BY <1>2, TotalSame

(* What the kernel has of the files when the process dies. *)
LEMMA KillTotals ==
    ASSUME FileInv, KernelInv, Kill, flush_log >= 1
    PROVE  TotalSize(rolls') >= TotalSize(rolls) - Got({"roll_sync"})
<1> DEFINE d == Got({"roll_sync"})
           h == [n \in DOMAIN rolls |-> rolls[n].size]
           g == [n \in DOMAIN rolls |-> rolls[n].size - (IF n = fs_ THEN d ELSE 0)]
           k == [n \in DOMAIN rolls' |-> rolls'[n].size]
<1>1. /\ DOMAIN rolls' = DOMAIN rolls
      /\ \A n \in DOMAIN rolls : rolls'[n].size = rolls[n].kernel
  <2>1. /\ DOMAIN rolls' = DOMAIN rolls
        /\ \A n \in DOMAIN rolls : rolls'[n] = Killed(rolls[n])
    BY DEF Kill
  <2>2. \A n \in DOMAIN rolls : Sane(rolls[n])
    BY DEF FileInv
  <2> QED  BY <2>1, <2>2, KilledFile
<1>2. d \in Nat
  BY FileNumbers DEF Got
<1>3. \A n \in DOMAIN rolls :
         rolls[n].kernel >= rolls[n].size - (IF n = fs_ THEN d ELSE 0)
  BY DEF KernelInv, Kill
<1>4. fs_ \notin DOMAIN rolls => d = 0
  BY DEF FileInv, Got
<1>5. TotalSize(rolls) = SumFunction(h) /\ TotalSize(rolls') = SumFunction(k)
  BY DEF TotalSize
<1> HIDE DEF d
<1>6. /\ DOMAIN h = DOMAIN rolls /\ DOMAIN g = DOMAIN rolls /\ DOMAIN k = DOMAIN rolls
      /\ IsFiniteSet(DOMAIN h) /\ IsFiniteSet(DOMAIN g)
  BY <1>1, FileNumbers
<1>7. \A n \in DOMAIN rolls : /\ h[n] = rolls[n].size /\ h[n] \in Int /\ g[n] \in Int
                              /\ g[n] = h[n] - (IF n = fs_ THEN d ELSE 0)
                              /\ k[n] = rolls[n].kernel /\ k[n] \in Int
  BY <1>1, <1>2, FileNumbers
<1> HIDE DEF h, g, k
<1>8. \A n \in DOMAIN g : g[n] \in Int /\ k[n] \in Int /\ g[n] <= k[n]
  BY <1>3, <1>6, <1>7
<1>9. SumFunction(g) <= SumFunction(k)
  BY <1>6, <1>8, SumMonotone
<1>10. SumFunction(h) \in Int /\ SumFunction(g) \in Int /\ SumFunction(k) \in Int
  BY <1>6, <1>7, SumInt
<1>11. SumFunction(g) = SumFunction(h) - d
  <2>1. CASE fs_ \in DOMAIN rolls
    <3>1. /\ DOMAIN g = DOMAIN h \cup {fs_} /\ g[fs_] \in Int /\ g[fs_] = h[fs_] - d
          /\ h[fs_] \in Int /\ fs_ \in DOMAIN h
      BY <1>6, <1>7, <2>1
    <3>2. /\ \A n \in DOMAIN h : h[n] \in Int
          /\ \A n \in DOMAIN h : n # fs_ => g[n] = h[n]
      <4>1. ASSUME NEW n \in DOMAIN h, n # fs_ PROVE g[n] = h[n]
        BY <1>6, <1>7, <4>1
      <4> QED  BY <1>6, <1>7, <4>1
    <3>3. SumFunction(g) = SumFunction(h) + g[fs_]
                             - (IF fs_ \in DOMAIN h THEN h[fs_] ELSE 0)
      BY <1>6, <3>1, <3>2, SumUpdate
    <3> QED  BY <1>2, <1>10, <3>1, <3>3
  <2>2. CASE fs_ \notin DOMAIN rolls
    <3>1. \A n \in DOMAIN rolls :
             rolls[n].size - (IF n = fs_ THEN d ELSE 0) = rolls[n].size
      <4>1. ASSUME NEW n \in DOMAIN rolls
            PROVE  rolls[n].size - (IF n = fs_ THEN d ELSE 0) = rolls[n].size
        <5>1. n # fs_ /\ rolls[n].size \in Int
          BY <2>2, FileNumbers
        <5> QED  BY <5>1
      <4> QED  BY <4>1
    <3>2. g = h
      BY <3>1 DEF g, h
    <3> QED  BY <1>4, <1>10, <2>2, <3>2
  <2> QED  BY <2>1, <2>2
<1> QED  BY <1>2, <1>5, <1>9, <1>10, <1>11 DEF d

(* What the disk has of them when the power goes. *)
LEMMA PowerTotals ==
    ASSUME FileInv, PowerLoss
    PROVE  TotalSize(rolls') \in Int /\ TotalSize(rolls') >= TotalDisk(rolls)
<1> DEFINE h == [n \in DOMAIN rolls |-> rolls[n].disk]
           k == [n \in DOMAIN rolls' |-> rolls'[n].size]
<1>1. /\ DOMAIN rolls' = DOMAIN rolls
      /\ \A n \in DOMAIN rolls : rolls'[n].size \in Int /\ rolls[n].disk <= rolls'[n].size
  <2>1. DOMAIN rolls' = DOMAIN rolls
    BY DEF PowerLoss
  <2>2. ASSUME NEW n \in DOMAIN rolls
        PROVE  rolls'[n].size \in Int /\ rolls[n].disk <= rolls'[n].size
    <3>1. rolls'[n] \in PowerLost(rolls[n]) /\ Sane(rolls[n])
      BY DEF PowerLoss, FileInv
    <3>2. Sane(rolls'[n]) /\ rolls[n].disk <= rolls'[n].size
      BY <3>1, PowerLostFile
    <3> QED  BY <3>2, SaneNumbers
  <2> QED  BY <2>1, <2>2
<1>2. /\ DOMAIN h = DOMAIN k /\ IsFiniteSet(DOMAIN h) /\ IsFiniteSet(DOMAIN k)
      /\ \A n \in DOMAIN h : h[n] \in Int /\ k[n] \in Int /\ h[n] <= k[n]
  BY <1>1, FileNumbers
<1>3. TotalDisk(rolls) = SumFunction(h) /\ TotalSize(rolls') = SumFunction(k)
  BY DEF TotalSize, TotalDisk
<1> HIDE DEF h, k
<1>4. SumFunction(h) <= SumFunction(k) /\ SumFunction(h) \in Int /\ SumFunction(k) \in Int
  BY <1>2, SumMonotone, SumInt
<1> QED  BY <1>3, <1>4

-----------------------------------------------------------------------------
(* The books are kept: one lemma for each call. *)
LEMMA BooksBegin == ASSUME FileInv, Books, NEW n \in Chunk, RealFlush(n) PROVE Books'
<1>1. /\ pc = "idle" /\ pc' = "file_write"
      /\ UNCHANGED <<flush_log, log, rolls, fs_, acked, base>>
  BY DEF RealFlush
<1>2. SizeInv'
  BY <1>1 DEF Books, SizeInv, Got
<1>3. KernelInv'
  BY <1>1 DEF Books, KernelInv, Got, Running
<1>4. DiskInv' /\ AckedSurvives'
  BY <1>1 DEF Books, DiskInv, Got, Running, AckedSurvives
<1> QED  BY <1>2, <1>3, <1>4 DEF Books

\* FileFlush::Flush appends a record.
LEMMA BooksWrite == ASSUME FileInv, Books, FileWrite PROVE Books'
<1>1. /\ pc = "file_write" /\ pc' = "file_sync"
      /\ UNCHANGED <<flush_log, chunk, rolls, fs_, acked, base>>
      /\ Running /\ Running'
  BY DEF FileWrite, Running
<1>2. /\ log'.size = log.size + chunk /\ log'.kernel >= log.kernel
      /\ log'.disk = log.disk /\ Sane(log')
  <2>1. log' \in Fwrite(log, chunk) /\ Sane(log) /\ chunk \in Nat
    BY DEF FileWrite, FileInv
  <2> QED  BY <2>1, FwriteFile
<1>3. log'.size \in Nat /\ log'.kernel \in Nat
  BY <1>2, SaneNumbers
<1>4. SizeInv'
  <2>1. log.size = base.log + acked + 0 /\ TotalSize(rolls) = base.rolls + acked + 0
    BY <1>1 DEF Books, SizeInv, Got
  <2>2. log'.size = base.log + acked + chunk
    BY <1>2, <2>1, FileNumbers
  <2> QED  BY <1>1, <2>1, <2>2 DEF SizeInv, Got
<1>5. KernelInv'
  <2>1. ASSUME flush_log >= 1
        PROVE  /\ log.kernel >= log.size - 0
               /\ \A n \in DOMAIN rolls :
                     rolls[n].kernel >= rolls[n].size - (IF n = fs_ THEN 0 ELSE 0)
    BY <1>1, <2>1 DEF Books, KernelInv, Got
  <2>2. flush_log >= 1 => log'.kernel >= log'.size - chunk
    BY <1>2, <1>3, <2>1, FileNumbers
  <2> QED  BY <1>1, <2>1, <2>2 DEF KernelInv, Got
<1>6. DiskInv' /\ AckedSurvives'
  BY <1>1, <1>2 DEF Books, DiskInv, Got, AckedSurvives
<1> QED  BY <1>4, <1>5, <1>6 DEF Books

\* The end of FileFlush::Flush, by its flush_log_.
LEMMA BooksSync == ASSUME FileInv, Books, FileSync PROVE Books'
<1>1. /\ pc = "file_sync" /\ pc' = "roll"
      /\ UNCHANGED <<flush_log, chunk, rolls, fs_, acked, base>>
      /\ Running /\ Running'
  BY DEF FileSync, Running
<1>2. /\ log'.size = log.size
      /\ flush_log >= 1 => log'.kernel = log'.size
      /\ flush_log = 2 => log'.disk = log'.size
  <2>1. log' = Synced(log) /\ Sane(log) /\ flush_log \in 0 .. 2
    BY DEF FileSync, FileInv
  <2> QED  BY <2>1, SyncedFile
<1>3. /\ log.size = base.log + acked + chunk
      /\ TotalSize(rolls) = base.rolls + acked + 0
  BY <1>1 DEF Books, SizeInv, Got
<1>4. SizeInv'
  BY <1>1, <1>2, <1>3 DEF SizeInv, Got
<1>5. KernelInv'
  <2>1. ASSUME flush_log >= 1
        PROVE  \A n \in DOMAIN rolls :
                  rolls[n].kernel >= rolls[n].size - (IF n = fs_ THEN 0 ELSE 0)
    BY <1>1, <2>1 DEF Books, KernelInv, Got
  <2>2. flush_log >= 1 => log'.kernel >= log'.size - 0
    BY <1>2, FileNumbers
  <2> QED  BY <1>1, <2>1, <2>2 DEF KernelInv, Got
<1>6. DiskInv'
  <2>1. base.logDisk <= base.log
    BY DEF Books, DiskInv
  <2>2. flush_log = 2 => TotalDisk(rolls) >= base.rollsDisk + acked
    BY <1>1 DEF Books, DiskInv
  <2>3. flush_log = 2 => log'.disk >= base.logDisk + acked + chunk
    BY <1>2, <1>3, <2>1, FileNumbers
  <2> QED  BY <1>1, <2>1, <2>2, <2>3 DEF DiskInv, Got
<1>7. AckedSurvives'
  BY <1>1 DEF AckedSurvives
<1> QED  BY <1>4, <1>5, <1>6, <1>7 DEF Books

\* RollFileFlush::InitLogFile.
LEMMA BooksRoll == ASSUME FileInv, Books, InitLogFile PROVE Books'
<1>1. /\ pc = "roll" /\ pc' = "roll_write"
      /\ UNCHANGED <<flush_log, chunk, log, acked, base>>
      /\ Running /\ Running'
  BY DEF InitLogFile, Running
<1>2. TotalSize(rolls') = TotalSize(rolls) /\ TotalDisk(rolls') = TotalDisk(rolls)
  BY RollTotals
<1>3. SizeInv'
  BY <1>1, <1>2 DEF Books, SizeInv, Got
<1>4. KernelInv'
  <2>1. ASSUME flush_log >= 1
        PROVE  \A n \in DOMAIN rolls' : rolls'[n].kernel >= rolls'[n].size - 0
    <3>1. CASE NeedsRoll
      <4> DEFINE name == CreateFilename
      <4>1. rolls' = Reopened(Closed(rolls), name)
        BY <3>1 DEF InitLogFile
      <4> HIDE DEF name
      <4>2. /\ DOMAIN rolls' = DOMAIN rolls \cup {name}
            /\ \A n \in DOMAIN rolls : rolls'[n].kernel = rolls'[n].size
                                       /\ rolls'[n].size = rolls[n].size
            /\ name \notin DOMAIN rolls =>
                  rolls'[name] = [size |-> 0, kernel |-> 0, disk |-> 0, opens |-> 1]
        BY <4>1, RolledFiles
      <4>3. ASSUME NEW n \in DOMAIN rolls'
            PROVE  rolls'[n].kernel = rolls'[n].size /\ rolls'[n].size \in Nat
        <5>1. CASE n \in DOMAIN rolls
          BY <4>2, <5>1, FileNumbers
        <5>2. CASE n \notin DOMAIN rolls
          <6>1. rolls'[n] = [size |-> 0, kernel |-> 0, disk |-> 0, opens |-> 1]
            BY <4>2, <5>2
          <6> QED  BY <6>1
        <5> QED  BY <5>1, <5>2
      <4>4. ASSUME NEW n \in DOMAIN rolls'
            PROVE  rolls'[n].kernel >= rolls'[n].size - 0
        <5>1. rolls'[n].kernel = rolls'[n].size /\ rolls'[n].size \in Nat
          BY <4>3
        <5> QED  BY <5>1
      <4> QED  BY <4>4
    <3>2. CASE ~NeedsRoll
      <4>1. rolls' = rolls
        BY <3>2 DEF InitLogFile
      <4>2. \A n \in DOMAIN rolls :
               rolls[n].kernel >= rolls[n].size - (IF n = fs_ THEN 0 ELSE 0)
        BY <1>1, <2>1 DEF Books, KernelInv, Got
      <4> QED  BY <4>1, <4>2
    <3> QED  BY <3>1, <3>2
  <2>2. flush_log >= 1 => log.kernel >= log.size - 0
    BY <1>1 DEF Books, KernelInv, Got
  <2> QED  BY <1>1, <2>1, <2>2 DEF KernelInv, Got
<1>5. DiskInv' /\ AckedSurvives'
  BY <1>1, <1>2 DEF Books, DiskInv, Got, AckedSurvives
<1> QED  BY <1>3, <1>4, <1>5 DEF Books

\* RollFileFlush::Flush appends a record.
LEMMA BooksRollWrite == ASSUME FileInv, Books, RollWrite PROVE Books'
<1>1. /\ pc = "roll_write" /\ pc' = "roll_sync"
      /\ UNCHANGED <<flush_log, chunk, log, fs_, acked, base>>
      /\ Running /\ Running'
  BY DEF RollWrite, Running
<1>2. /\ fs_ \in DOMAIN rolls /\ DOMAIN rolls' = DOMAIN rolls
      /\ \A n \in DOMAIN rolls : n # fs_ => rolls'[n] = rolls[n]
      /\ rolls'[fs_].size = rolls[fs_].size + chunk
      /\ rolls'[fs_].kernel >= rolls[fs_].kernel
      /\ rolls'[fs_].disk = rolls[fs_].disk
      /\ Sane(rolls'[fs_])
  BY RollWriteFiles
<1>3. /\ rolls[fs_].size \in Nat /\ rolls[fs_].kernel \in Nat /\ rolls[fs_].disk \in Nat
      /\ rolls[fs_].disk <= rolls[fs_].size
      /\ rolls'[fs_].kernel \in Nat /\ rolls'[fs_].size \in Nat /\ chunk \in Nat
  <2>1. /\ rolls[fs_].size \in Nat /\ rolls[fs_].kernel \in Nat /\ rolls[fs_].disk \in Nat
        /\ rolls[fs_].disk <= rolls[fs_].kernel /\ rolls[fs_].kernel <= rolls[fs_].size
        /\ chunk \in Nat
    BY <1>2, FileNumbers
  <2>2. rolls'[fs_].kernel \in Nat /\ rolls'[fs_].size \in Nat
    BY <1>2, SaneNumbers
  <2> QED  BY <2>1, <2>2
<1>4. TotalSize(rolls') = TotalSize(rolls) + chunk /\ TotalDisk(rolls') = TotalDisk(rolls)
  BY RollWriteTotals
<1>5. SizeInv'
  <2>1. /\ log.size = base.log + acked + chunk
        /\ TotalSize(rolls) = base.rolls + acked + 0
    BY <1>1 DEF Books, SizeInv, Got
  <2>2. TotalSize(rolls') = base.rolls + acked + chunk
    BY <1>4, <2>1, FileNumbers
  <2> QED  BY <1>1, <2>1, <2>2 DEF SizeInv, Got
<1>6. KernelInv'
  <2>1. ASSUME flush_log >= 1
        PROVE  /\ log.kernel >= log.size - 0
               /\ \A n \in DOMAIN rolls :
                     rolls[n].kernel >= rolls[n].size - (IF n = fs_ THEN 0 ELSE 0)
    BY <1>1, <2>1 DEF Books, KernelInv, Got
  <2>2. ASSUME flush_log >= 1
        PROVE  rolls'[fs_].kernel >= rolls'[fs_].size - chunk
    <3>1. rolls[fs_].kernel >= rolls[fs_].size - 0
      BY <1>2, <2>1, <2>2
    <3> QED  BY <1>2, <1>3, <3>1
  <2>3. ASSUME flush_log >= 1, NEW n \in DOMAIN rolls'
        PROVE  rolls'[n].kernel >= rolls'[n].size - (IF n = fs_ THEN chunk ELSE 0)
    BY <1>2, <2>1, <2>2, <2>3
  <2> QED  BY <1>1, <2>1, <2>3 DEF KernelInv, Got
<1>7. DiskInv'
  <2>1. /\ base.logDisk <= base.log
        /\ flush_log = 2 =>
              /\ log.disk >= base.logDisk + acked + chunk
              /\ TotalDisk(rolls) >= base.rollsDisk + acked
    BY <1>1 DEF Books, DiskInv, Got
  <2>2. rolls'[fs_].disk <= rolls'[fs_].size - chunk
    BY <1>2, <1>3
  <2> QED  BY <1>1, <1>4, <2>1, <2>2 DEF DiskInv, Got
<1>8. AckedSurvives'
  BY <1>1 DEF AckedSurvives
<1> QED  BY <1>5, <1>6, <1>7, <1>8 DEF Books

\* The end of RollFileFlush::Flush, by its flush_log_.
LEMMA BooksRollSync == ASSUME FileInv, Books, RollSync PROVE Books'
<1>1. /\ pc = "roll_sync" /\ pc' = "idle" /\ acked' = acked + chunk
      /\ UNCHANGED <<flush_log, chunk, log, fs_, base>>
      /\ Running /\ Running'
  BY DEF RollSync, Running
<1>2. /\ fs_ \in DOMAIN rolls /\ DOMAIN rolls' = DOMAIN rolls
      /\ \A n \in DOMAIN rolls : n # fs_ => rolls'[n] = rolls[n]
      /\ rolls'[fs_].size = rolls[fs_].size
      /\ flush_log >= 1 => rolls'[fs_].kernel = rolls'[fs_].size
  BY RollSyncFiles
<1>3. /\ rolls[fs_].size \in Nat /\ rolls[fs_].disk \in Nat /\ chunk \in Nat
      /\ acked \in Nat /\ TotalSize(rolls) \in Int /\ TotalDisk(rolls) \in Int
  BY <1>2, FileNumbers, TotalInt
<1>4. SizeInv'
  <2>1. /\ log.size = base.log + acked + chunk
        /\ TotalSize(rolls) = base.rolls + acked + chunk
    BY <1>1 DEF Books, SizeInv, Got
  <2>2. TotalSize(rolls') = TotalSize(rolls)
    BY RollSyncTotals
  <2>3. /\ log.size = base.log + acked' + 0
        /\ TotalSize(rolls') = base.rolls + acked' + 0
    BY <1>1, <1>3, <2>1, <2>2, FileNumbers
  <2> QED  BY <1>1, <2>3 DEF SizeInv, Got
<1>5. KernelInv'
  <2>1. ASSUME flush_log >= 1
        PROVE  /\ log.kernel >= log.size - 0
               /\ \A n \in DOMAIN rolls :
                     rolls[n].kernel >= rolls[n].size - (IF n = fs_ THEN chunk ELSE 0)
    BY <1>1, <2>1 DEF Books, KernelInv, Got
  <2>2. ASSUME flush_log >= 1
        PROVE  rolls'[fs_].kernel >= rolls'[fs_].size - 0
    BY <1>2, <1>3, <2>2
  <2>3. ASSUME flush_log >= 1, NEW n \in DOMAIN rolls'
        PROVE  rolls'[n].kernel >= rolls'[n].size - 0
    BY <1>2, <2>1, <2>2, <2>3
  <2> QED  BY <1>1, <2>1, <2>3 DEF KernelInv, Got
<1>6. DiskInv'
  <2>1. /\ base.logDisk <= base.log
        /\ rolls[fs_].disk <= rolls[fs_].size - chunk
        /\ flush_log = 2 =>
              /\ log.disk >= base.logDisk + acked + chunk
              /\ TotalDisk(rolls) >= base.rollsDisk + acked
    BY <1>1 DEF Books, DiskInv, Got
  <2>2. ASSUME flush_log = 2
        PROVE  /\ log.disk >= base.logDisk + acked' + 0
               /\ TotalDisk(rolls') >= base.rollsDisk + acked'
    <3>1. TotalDisk(rolls') = TotalDisk(rolls) + rolls[fs_].size - rolls[fs_].disk
      BY <2>2, RollSyncTotals
    <3>2. log.disk >= base.logDisk + acked' + 0
      BY <1>1, <1>3, <2>1, <2>2, FileNumbers
    <3>3. TotalDisk(rolls') >= base.rollsDisk + acked'
      BY <1>1, <1>3, <2>1, <2>2, <3>1, FileNumbers
    <3> QED  BY <3>2, <3>3
  <2> QED  BY <1>1, <2>1, <2>2 DEF DiskInv, Got
<1>7. AckedSurvives'
  BY <1>1 DEF AckedSurvives
<1> QED  BY <1>4, <1>5, <1>6, <1>7 DEF Books

(* The end of the process keeps what AckedSurvives promises. *)
LEMMA BooksKill == ASSUME FileInv, Books, Kill PROVE Books'
<1>1. /\ pc' = "killed" /\ Running /\ ~Running'
      /\ UNCHANGED <<flush_log, chunk, fs_, acked, base>>
  BY DEF Kill, Running
<1>2. log'.size = log.kernel
  <2>1. log' = Killed(log) /\ Sane(log)
    BY DEF Kill, FileInv
  <2> QED  BY <2>1, KilledFile
<1>3. SizeInv' /\ KernelInv'
  BY <1>1 DEF SizeInv, KernelInv
<1>4. DiskInv'
  BY <1>1 DEF Books, DiskInv
<1>5. ASSUME flush_log >= 1
      PROVE  log'.size >= base.log + acked /\ TotalSize(rolls') >= base.rolls + acked
  <2> DEFINE d == Got({"file_sync"})
             e == Got({"file_sync", "roll", "roll_write", "roll_sync"})
             r == Got({"roll_sync"})
  <2>1. d \in Nat /\ e \in Nat /\ r \in Nat /\ d <= e
    <3>1. chunk \in Nat
      BY FileNumbers
    <3> QED  BY <3>1 DEF Got
  <2>2. log.kernel >= log.size - d
    BY <1>1, <1>5 DEF Books, KernelInv
  <2>3. log.size = base.log + acked + e /\ TotalSize(rolls) = base.rolls + acked + r
    BY <1>1 DEF Books, SizeInv, Running
  <2>4. TotalSize(rolls') >= TotalSize(rolls) - r
    BY <1>5, KillTotals DEF Books
  <2>5. TotalSize(rolls') \in Int
    <3>1. FileInv'
      BY FileStep DEF Next
    <3>2. FileInv' => (TotalSize(rolls) \in Int)'
      BY TotalInt, PTL
    <3> QED  BY <3>1, <3>2
  <2> HIDE DEF d, e, r
  <2>6. log'.size >= base.log + acked
    BY <1>2, <2>1, <2>2, <2>3, FileNumbers
  <2>7. TotalSize(rolls') >= base.rolls + acked
    BY <2>1, <2>3, <2>4, <2>5, FileNumbers
  <2> QED  BY <2>6, <2>7
<1>6. AckedSurvives'
  BY <1>1, <1>5 DEF AckedSurvives
<1> QED  BY <1>3, <1>4, <1>6 DEF Books

\* The machine loses power.
LEMMA BooksPower == ASSUME FileInv, Books, PowerLoss PROVE Books'
<1>1. /\ pc' = "power_lost" /\ Running /\ ~Running'
      /\ UNCHANGED <<flush_log, chunk, fs_, acked, base>>
  BY DEF PowerLoss, Running
<1>2. log'.size >= log.disk /\ log'.size \in Nat
  <2>1. log' \in PowerLost(log) /\ Sane(log)
    BY DEF PowerLoss, FileInv
  <2>2. Sane(log') /\ log.disk <= log'.size
    BY <2>1, PowerLostFile
  <2>3. log'.size \in Nat /\ log.disk \in Nat
    BY <2>2, SaneNumbers, FileNumbers
  <2> QED  BY <2>2, <2>3
<1>3. SizeInv' /\ KernelInv'
  BY <1>1 DEF SizeInv, KernelInv
<1>4. DiskInv'
  BY <1>1 DEF Books, DiskInv
<1>5. ASSUME flush_log = 2
      PROVE  /\ log'.size >= base.logDisk + acked
             /\ TotalSize(rolls') >= base.rollsDisk + acked
  <2> DEFINE d == Got({"roll", "roll_write", "roll_sync"})
  <2>1. d \in Nat
    BY FileNumbers DEF Got
  <2>2. log.disk >= base.logDisk + acked + d /\ TotalDisk(rolls) >= base.rollsDisk + acked
    BY <1>1, <1>5 DEF Books, DiskInv
  <2> HIDE DEF d
  <2>3. log'.size >= base.logDisk + acked
    BY <1>2, <2>1, <2>2, FileNumbers
  <2>4. /\ TotalSize(rolls') \in Int /\ TotalSize(rolls') >= TotalDisk(rolls)
        /\ TotalDisk(rolls) \in Int
    BY PowerTotals, TotalInt
  <2>5. TotalSize(rolls') >= base.rollsDisk + acked
    BY <2>2, <2>4, FileNumbers
  <2> QED  BY <2>3, <2>5
<1>6. AckedSurvives'
  BY <1>1, <1>5 DEF AckedSurvives
<1> QED  BY <1>3, <1>4, <1>6 DEF Books

\* The process ends and its streams are closed.
LEMMA BooksExit == ASSUME FileInv, Books, Exit PROVE Books'
<1>1. /\ pc = "idle" /\ pc' = "exited" /\ Running /\ ~Running'
      /\ UNCHANGED <<flush_log, chunk, fs_, acked, base>>
  BY DEF Exit, Running
<1>2. log'.size = log.size
  <2>1. log' = Fflush(log) /\ Sane(log)
    BY DEF Exit, FileInv
  <2> QED  BY <2>1, FflushFile
<1>3. TotalSize(rolls') = TotalSize(rolls)
  BY ExitTotals
<1>4. log.size = base.log + acked + 0 /\ TotalSize(rolls) = base.rolls + acked + 0
  BY <1>1 DEF Books, SizeInv, Got
<1>5. SizeInv'
  BY <1>1, <1>2, <1>3, <1>4 DEF SizeInv, Got
<1>6. KernelInv' /\ DiskInv'
  BY <1>1 DEF Books, KernelInv, DiskInv
<1>7. log.size >= base.log + acked /\ TotalSize(rolls) >= base.rolls + acked
  BY <1>4, FileNumbers
<1>8. AckedSurvives'
  BY <1>1, <1>2, <1>3, <1>7 DEF AckedSurvives
<1> QED  BY <1>5, <1>6, <1>8 DEF Books

\* The process is started again and opens its files in append mode.
LEMMA BooksRestart == ASSUME FileInv, Books, Restart PROVE Books'
<1>1. /\ pc' = "idle" /\ ~Running /\ Running' /\ acked' = 0 /\ rolls' = rolls
      /\ fs_' = NoFile /\ log' = [log EXCEPT !.opens = @ + 1]
      /\ base' = [log |-> log.size, rolls |-> TotalSize(rolls),
                  logDisk |-> log.disk, rollsDisk |-> TotalDisk(rolls)]
  BY DEF Restart, Running
<1>2. log'.size = log.size /\ log'.kernel = log.kernel /\ log'.disk = log.disk
  <2>1. log \in File
    BY DEF FileInv, Sane
  <2> QED  BY <1>1, <2>1 DEF File
<1>3. /\ base'.log = log.size /\ base'.rolls = TotalSize(rolls)
      /\ base'.logDisk = log.disk /\ base'.rollsDisk = TotalDisk(rolls)
  BY <1>1
<1>4. /\ log.size \in Nat /\ log.disk \in Nat /\ log.disk <= log.size
      /\ TotalSize(rolls) \in Int /\ TotalDisk(rolls) \in Int
  BY FileNumbers, TotalInt
<1>5. SizeInv'
  <2>1. /\ log'.size = base'.log + acked' + 0
        /\ TotalSize(rolls') = base'.rolls + acked' + 0
    BY <1>1, <1>2, <1>3, <1>4
  <2> QED  BY <1>1, <2>1 DEF SizeInv, Got
<1>6. KernelInv'
  <2>1. log'.kernel >= log'.size - 0
    <3>1. log.kernel = log.size
      BY <1>1 DEF FileInv
    <3> QED  BY <1>2, <1>4, <3>1
  <2>2. ASSUME NEW n \in DOMAIN rolls'
        PROVE  rolls'[n].kernel >= rolls'[n].size - 0
    <3>1. rolls[n].kernel = rolls[n].size /\ rolls[n].size \in Nat
      BY <1>1, FileNumbers DEF FileInv
    <3> QED  BY <1>1, <3>1
  <2> QED  BY <1>1, <2>1, <2>2 DEF KernelInv, Got
<1>7. DiskInv'
  <2>1. /\ base'.logDisk <= base'.log
        /\ log'.disk >= base'.logDisk + acked' + 0
        /\ TotalDisk(rolls') >= base'.rollsDisk + acked'
    BY <1>1, <1>2, <1>3, <1>4
  <2> QED  BY <1>1, <2>1 DEF DiskInv, Got
<1>8. AckedSurvives'
  BY <1>1 DEF AckedSurvives
<1> QED  BY <1>5, <1>6, <1>7, <1>8 DEF Books

\* Every step keeps the books.
LEMMA BooksStep == FileInv /\ Books /\ [Next]_vars => Books'
<1> SUFFICES ASSUME FileInv, Books, [Next]_vars PROVE Books'
  OBVIOUS
<1>1. CASE \E n \in Chunk : RealFlush(n)
  BY <1>1, BooksBegin
<1>2. CASE FileWrite
  BY <1>2, BooksWrite
<1>3. CASE FileSync
  BY <1>3, BooksSync
<1>4. CASE InitLogFile
  BY <1>4, BooksRoll
<1>5. CASE RollWrite
  BY <1>5, BooksRollWrite
<1>6. CASE RollSync
  BY <1>6, BooksRollSync
<1>7. CASE Tick \/ Ended \/ UNCHANGED vars
  <2>1. UNCHANGED <<flush_log, pc, chunk, log, rolls, fs_, acked, base>>
    BY <1>7 DEF Tick, Ended, vars
  <2>2. SizeInv' /\ KernelInv'
    BY <2>1 DEF Books, SizeInv, KernelInv, Got, Running
  <2>3. DiskInv' /\ AckedSurvives'
    BY <2>1 DEF Books, DiskInv, AckedSurvives, Got, Running
  <2> QED  BY <2>2, <2>3 DEF Books
<1>8. CASE Kill
  BY <1>8, BooksKill
<1>9. CASE PowerLoss
  BY <1>9, BooksPower
<1>10. CASE Exit
  BY <1>10, BooksExit
<1>11. CASE Restart
  BY <1>11, BooksRestart
<1> QED  BY <1>1, <1>2, <1>3, <1>4, <1>5, <1>6, <1>7, <1>8, <1>9, <1>10, <1>11 DEF Next

\* The books of a new installation.
LEMMA BooksInit == Init => Books
<1> SUFFICES ASSUME Init PROVE Books
  OBVIOUS
<1>1. /\ pc = "idle" /\ chunk = 0 /\ acked = 0 /\ DOMAIN rolls = {}
      /\ log = [NewFile EXCEPT !.opens = 1]
      /\ base = [log |-> 0, rolls |-> 0, logDisk |-> 0, rollsDisk |-> 0]
  BY DEF Init
<1>2. log.size = 0 /\ log.kernel = 0 /\ log.disk = 0
  BY <1>1 DEF NewFile
<1>3. base.log = 0 /\ base.rolls = 0 /\ base.logDisk = 0 /\ base.rollsDisk = 0
  BY <1>1
<1>4. TotalSize(rolls) = 0 /\ TotalDisk(rolls) = 0
  <2> DEFINE h == [n \in DOMAIN rolls |-> rolls[n].size]
             k == [n \in DOMAIN rolls |-> rolls[n].disk]
  <2>1. DOMAIN h = {} /\ DOMAIN k = {}
    BY <1>1
  <2>2. TotalSize(rolls) = SumFunction(h) /\ TotalDisk(rolls) = SumFunction(k)
    BY DEF TotalSize, TotalDisk
  <2> HIDE DEF h, k
  <2> QED  BY <2>1, <2>2, SumEmpty
<1>5. SizeInv /\ KernelInv
  BY <1>1, <1>2, <1>3, <1>4 DEF SizeInv, KernelInv, Got
<1>6. DiskInv /\ AckedSurvives
  BY <1>1, <1>2, <1>3, <1>4 DEF DiskInv, AckedSurvives, Got
<1> QED  BY <1>5, <1>6 DEF Books

(* What RealFlush has returned for survives an exit, a killed process from *)
(* flush_log 1 on and a power loss with 2: for all chunks and max_size_,   *)
(* any number of rolled files, restarts and changes of config.conf, and    *)
(* any part of its buffer that stdio has passed on by itself.              *)
THEOREM SurviveCorrect == Spec => []AckedSurvives
<1>1. Books => AckedSurvives
  BY DEF Books
<1> QED  BY <1>1, FileInit, FileStep, BooksInit, BooksStep, PTL DEF Spec

(* FileFlush and RollFileFlush have got the same bytes of this run between *)
(* two calls of RealFlush.                                                 *)
THEOREM SinksCorrect == Spec => []SinksAgree
<1>1. FileInv /\ Books => SinksAgree
  <2> SUFFICES ASSUME FileInv, Books, pc = "idle"
               PROVE  log.size - base.log = TotalSize(rolls) - base.rolls
    BY DEF SinksAgree
  <2>1. log.size = base.log + acked + 0 /\ TotalSize(rolls) = base.rolls + acked + 0
    BY DEF Books, SizeInv, Got
  <2> QED  BY <2>1, FileNumbers
<1> QED  BY <1>1, FileInit, FileStep, BooksInit, BooksStep, PTL DEF Spec

(* Rolling, fopen in mode "ab" and restarting take no byte from any file: *)
(* only a killed process or a power loss can.                              *)
THEOREM KeptCorrect == Spec => NothingOverwritten
<1> DEFINE Kept == pc' \notin {"killed", "power_lost"}
                     => TotalSize(rolls') >= TotalSize(rolls) /\ log'.size >= log.size
<1>1. FileInv /\ [Next]_vars => [Kept]_vars
  <2> SUFFICES ASSUME FileInv, Next, pc' \notin {"killed", "power_lost"}
               PROVE  TotalSize(rolls') >= TotalSize(rolls) /\ log'.size >= log.size
    OBVIOUS
  <2>1. TotalSize(rolls) \in Int /\ log.size \in Nat /\ chunk \in Nat /\ Sane(log)
        /\ flush_log \in 0 .. 2
    BY TotalInt, FileNumbers DEF FileInv
  <2>2. CASE RollWrite
    <3>1. TotalSize(rolls') = TotalSize(rolls) + chunk /\ log' = log
      BY <2>2, RollWriteTotals DEF RollWrite
    <3> QED  BY <2>1, <3>1
  <2>3. CASE FileWrite
    <3>1. log' \in Fwrite(log, chunk) /\ rolls' = rolls
      BY <2>3 DEF FileWrite
    <3>2. log'.size = log.size + chunk
      BY <2>1, <3>1, FwriteFile
    <3> QED  BY <2>1, <3>1, <3>2
  <2>4. CASE ~RollWrite /\ ~FileWrite
    <3>1. TotalSize(rolls') = TotalSize(rolls)
      BY <2>4, RollTotals, RollSyncTotals, ExitTotals
         DEF Next, RealFlush, FileSync, Tick, Kill, PowerLoss, Restart, Ended, vars
    <3>2. log'.size = log.size
      <4>1. CASE FileSync
        BY <2>1, <4>1, SyncedFile DEF FileSync
      <4>2. CASE Exit
        BY <2>1, <4>2, FflushFile DEF Exit
      <4>3. CASE Restart
        BY <2>1, <4>3 DEF Restart, Sane, File
      <4> QED  BY <2>4, <4>1, <4>2, <4>3
               DEF Next, RealFlush, InitLogFile, RollSync, Tick, Kill, PowerLoss, Ended, vars
    <3> QED  BY <2>1, <3>1, <3>2
  <2> QED  BY <2>2, <2>3, <2>4
<1>2. [][Kept]_vars => NothingOverwritten
  BY DEF NothingOverwritten
<1> HIDE DEF Kept
<1> QED  BY <1>1, <1>2, FileInit, FileStep, PTL DEF Spec
=============================================================================
