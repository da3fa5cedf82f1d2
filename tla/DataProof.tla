----------------------------- MODULE DataProof -----------------------------
(***************************************************************************)
(* Machine-checked proofs about dev::RangeMask, for any ground range, about*)
(* dev::eth::Executive, for any accounts, transactions and prices, about   *)
(* dev::eth::VM, for any programs, schedules and size of a word, and about *)
(* dev::eth::EthereumHostData, for any chain, requests and limits, and     *)
(* about dev::eth::KeyManager, for any accounts, passwords and deaths.     *)
(*                                                                         *)
(* The first two are about sums over sets, which TLA+ takes with CHOOSE:   *)
(* there is such a sum (SumsExist, SumIs), it depends only on what is added*)
(* up (SumsAgree), and members and parts can be set apart (SumMore,        *)
(* SumSplit).                                                              *)
(*                                                                         *)
(* RangeMask: a union goes through the ranges step by step, and a          *)
(* subtraction is a union between two inversions.  MaskInv says that       *)
(* ranges never touch, which is what makes each number belong to one range *)
(* and each gap to one inverted range, and what a union that is being made *)
(* has still to add (Unites).  Sizes are sums over ranges, because ranges  *)
(* are disjoint (OneMoreRange).                                            *)
(*                                                                         *)
(* Executive: a savepoint is a state like any other.  ExecInv says of each *)
(* savepoint what it says of the state - the ether in it, the nonces used  *)
(* up - and that its effects are those of the frames outside its own.      *)
(* Calls and creations then either end at once (DoneKeeps) or push a frame *)
(* (PushKeeps), and a frame ends with its effects (EndedKeeps) or without  *)
(* them (FailedKeeps).                                                     *)
(*                                                                         *)
(* VM: a word stays a word under every operation (ArithmeticIs to          *)
(* ModularIs; BitwiseIs is a sum of powers of two), more memory costs more *)
(* (MemoryCosts), and the table of jump destinations, made from the end of *)
(* the code on, holds what a walk from its start reaches (WalksExist).     *)
(* Every instruction pays and goes on (InstructionKeeps), ends the run     *)
(* (EndKeeps, ThrowKeeps) or pays for a callee (CalleePaid).               *)
(*                                                                         *)
(* EthereumHostData: the walk down the chain goes through the numbers that *)
(* are asked from the first one up (UpAndDown), as far as the steps fit    *)
(* into the chain (StepsFit, ForwardIs), and an item is new each time.     *)
(*                                                                         *)
(* KeyManager: what an operation writes has the key the manager has        *)
(* (WritesOf, OperateKeeps); create and save write the salt and the keys   *)
(* file that goes with it, in this order (MasterKeeps, StepKeeps).         *)
(***************************************************************************)
EXTENDS RangeMask, Executive, EVM, HostData, Keys, FiniteSetTheorems, SequenceTheorems, WellFoundedInduction, TLAPS

-----------------------------------------------------------------------------
(* Numbers and sums.                                                       *)

\* Induction over numbers, about a set of them.
LEMMA EveryNumber ==
  ASSUME NEW S \in SUBSET Nat, 0 \in S, \A n \in S : n + 1 \in S
  PROVE  Nat \subseteq S
<1> SUFFICES ASSUME Nat \ S # {}
             PROVE  FALSE
  OBVIOUS
<1>1. PICK n \in Nat \ S : \A m \in Nat \ S : ~(<<m, n>> \in OpToRel(<, Nat))
  BY NatLessThanWellFounded, WFMin
<1>2. n - 1 \in Nat
  OBVIOUS
<1>3. <<n - 1, n>> \in OpToRel(<, Nat)
  BY <1>2 DEF OpToRel
<1>4. n - 1 \in S
  BY <1>1, <1>2, <1>3
<1> QED BY <1>2, <1>4

\* A set of numbers has a least one.
LEMMA LeastIs ==
  ASSUME NEW S \in SUBSET Nat, S # {}
  PROVE  Min(S) \in S /\ \A n \in S : Min(S) <= n
<1>1. PICK m \in S : \A n \in S : ~(<<n, m>> \in OpToRel(<, Nat))
  BY NatLessThanWellFounded, WFMin
<1>2. \A n \in S : m <= n
  <2> SUFFICES ASSUME NEW n \in S, n < m
               PROVE  FALSE
    OBVIOUS
  <2>1. <<n, m>> \in OpToRel(<, Nat)
    BY DEF OpToRel
  <2> QED BY <1>1, <2>1
<1> QED BY <1>2 DEF Min

\* ... and one that is bounded a greatest.
LEMMA GreatestIs ==
  ASSUME NEW S \in SUBSET Nat, S # {}, NEW bound \in Nat, \A n \in S : n <= bound
  PROVE  Max(S) \in S /\ \A n \in S : n <= Max(S)
<1> DEFINE T == {d \in Nat : \E n \in S : d = bound - n}
<1>1. T \in SUBSET Nat /\ T # {}
  <2>1. PICK n \in S : TRUE
    OBVIOUS
  <2>2. n \in Nat /\ n <= bound
    OBVIOUS
  <2>3. bound - n \in T
    BY <2>1, <2>2
  <2> QED BY <2>3
<1>2. Min(T) \in T /\ \A d \in T : Min(T) <= d
  BY <1>1, LeastIs
<1>3. PICK m \in S : Min(T) = bound - m
  BY <1>2
<1>4. \A n \in S : n <= m
  <2> SUFFICES ASSUME NEW n \in S
               PROVE  n <= m
    OBVIOUS
  <2>1. bound - n \in T
    OBVIOUS
  <2>2. bound - m <= bound - n
    BY <1>2, <1>3, <2>1
  <2> QED BY <2>2
<1> QED BY <1>4 DEF Max

\* One of the members of a set.
any(s) == CHOOSE x \in s : TRUE

\* The sums of what w gives the members of the parts of a set.
SumsOf(S, w, f) == \A s \in SUBSET S : f[s] = IF s = {} THEN 0 ELSE w[any(s)] + f[s \ {any(s)}]

\* There are such sums.
LEMMA SumsExist ==
  ASSUME NEW S, IsFiniteSet(S), NEW w \in [S -> Int]
  PROVE  \E f \in [SUBSET S -> Int] : SumsOf(S, w, f)
<1> DEFINE Value(f, s) == IF s = {} THEN 0 ELSE w[any(s)] + f[s \ {any(s)}]
           UpTo(f, k) == \A s \in SUBSET S : Cardinality(s) <= k => f[s] = Value(f, s)
           Found(k) == \E f \in [SUBSET S -> Int] : UpTo(f, k)
           Good == {k \in Nat : Found(k)}
<1>1. \A s \in SUBSET S : IsFiniteSet(s) /\ Cardinality(s) \in Nat /\ Cardinality(s) <= Cardinality(S)
                          /\ (Cardinality(s) = 0 => s = {})
  BY FS_Subset, FS_CardinalityType, FS_EmptySet
<1>2. ASSUME NEW s \in SUBSET S, s # {}
      PROVE  any(s) \in s /\ s \ {any(s)} \in SUBSET S /\ Cardinality(s \ {any(s)}) = Cardinality(s) - 1
  <2>1. any(s) \in s
    BY <1>2 DEF any
  <2> HIDE DEF any
  <2>2. Cardinality(s \ {any(s)}) = Cardinality(s) - 1
    BY <1>1, <2>1, FS_RemoveElement
  <2> QED BY <2>1, <2>2
<1>3. 0 \in Good
  <2>1. [s \in SUBSET S |-> 0] \in [SUBSET S -> Int]
    OBVIOUS
  <2>2. UpTo([s \in SUBSET S |-> 0], 0)
    <3> SUFFICES ASSUME NEW s \in SUBSET S, Cardinality(s) <= 0
                 PROVE  s = {}
      OBVIOUS
    <3> QED BY <1>1
  <2> QED BY <2>1, <2>2
<1>4. ASSUME NEW k \in Nat, k \in Good
      PROVE  k + 1 \in Good
  <2>1. PICK f \in [SUBSET S -> Int] : UpTo(f, k)
    <3>1. Found(k)
      <4> HIDE DEF Found
      <4> QED BY <1>4
    <3> HIDE DEF UpTo
    <3> QED BY <3>1
  <2> DEFINE h == [s \in SUBSET S |-> Value(f, s)]
  <2>2. h \in [SUBSET S -> Int]
    <3> SUFFICES ASSUME NEW s \in SUBSET S
                 PROVE  Value(f, s) \in Int
      OBVIOUS
    <3>1. CASE s = {}
      BY <3>1
    <3>2. CASE s # {}
      <4>1. any(s) \in S /\ s \ {any(s)} \in SUBSET S
        BY <1>2, <3>2
      <4> HIDE DEF any
      <4>2. w[any(s)] \in Int /\ f[s \ {any(s)}] \in Int
        BY <4>1
      <4> QED BY <3>2, <4>2
    <3> QED BY <3>1, <3>2
  <2>3. UpTo(h, k + 1)
    <3> SUFFICES ASSUME NEW s \in SUBSET S, Cardinality(s) <= k + 1
                 PROVE  h[s] = Value(h, s)
      BY Zenon
    <3>1. CASE s = {}
      BY <3>1
    <3>2. CASE s # {}
      <4> DEFINE r == s \ {any(s)}
      <4>1. r \in SUBSET S /\ Cardinality(r) <= k
        <5>1. r \in SUBSET S /\ Cardinality(r) = Cardinality(s) - 1 /\ Cardinality(s) \in Nat
          BY <1>1, <1>2, <3>2
        <5> HIDE DEF r
        <5> QED BY <5>1
      <4> HIDE DEF r
      <4>2. f[r] = Value(f, r) /\ h[r] = Value(f, r)
        BY <2>1, <4>1
      <4>3. h[s] = Value(f, s)
        OBVIOUS
      <4> HIDE DEF h, UpTo, any
      <4>4. Value(f, s) = w[any(s)] + f[r] /\ Value(h, s) = w[any(s)] + h[r]
        BY <3>2 DEF r
      <4> HIDE DEF Value
      <4> QED BY <4>2, <4>3, <4>4
    <3> QED BY <3>1, <3>2
  <2> HIDE DEF UpTo, h
  <2> QED BY <2>2, <2>3
<1>5. Cardinality(S) \in Good
  <2>1. Good \in SUBSET Nat
    OBVIOUS
  <2> HIDE DEF Good
  <2>2. Nat \subseteq Good
    BY <1>3, <1>4, <2>1, EveryNumber
  <2> QED BY <2>2, FS_CardinalityType
<1>6. PICK f \in [SUBSET S -> Int] : UpTo(f, Cardinality(S))
  <2> HIDE DEF UpTo
  <2> QED BY <1>5
<1>7. SumsOf(S, w, f)
  BY <1>1, <1>6 DEF SumsOf
<1> QED BY <1>7

\* Induction over the parts of a finite set.
LEMMA EveryPart ==
  ASSUME NEW S, IsFiniteSet(S), NEW P \in SUBSET SUBSET S, {} \in P,
         \A s \in SUBSET S : s # {} /\ (\A x \in s : s \ {x} \in P) => s \in P
  PROVE  SUBSET S \subseteq P
<1> DEFINE Good == {k \in Nat : \A s \in SUBSET S : Cardinality(s) = k => s \in P}
<1>1. \A s \in SUBSET S : /\ IsFiniteSet(s) /\ Cardinality(s) \in Nat
                          /\ Cardinality(s) = 0 => s = {}
  BY FS_Subset, FS_CardinalityType, FS_EmptySet
<1>2. 0 \in Good
  BY <1>1
<1>3. ASSUME NEW k \in Nat, k \in Good
      PROVE  k + 1 \in Good
  <2> SUFFICES ASSUME NEW s \in SUBSET S, Cardinality(s) = k + 1
               PROVE  s \in P
    OBVIOUS
  <2>1. s # {}
    BY FS_EmptySet
  <2>2. ASSUME NEW x \in s
        PROVE  s \ {x} \in P
    <3>1. Cardinality(s \ {x}) = Cardinality(s) - 1
      BY <1>1, FS_RemoveElement
    <3>2. s \ {x} \in SUBSET S /\ Cardinality(s \ {x}) = k
      BY <3>1
    <3> QED BY <1>3, <3>2
  <2> QED BY <2>1, <2>2
<1>4. Nat \subseteq Good
  <2>1. Good \in SUBSET Nat
    OBVIOUS
  <2> HIDE DEF Good
  <2> QED BY <1>2, <1>3, <2>1, EveryNumber
<1> QED BY <1>1, <1>4

\* A sum depends on the part and on what its members are given.
LEMMA SumsAgree ==
  ASSUME NEW S, IsFiniteSet(S), NEW T, NEW w, NEW v, NEW f, NEW g, SumsOf(S, w, f), SumsOf(T, v, g),
         \A x \in S \cap T : w[x] = v[x]
  PROVE  \A s \in SUBSET (S \cap T) : f[s] = g[s]
<1> DEFINE P == {s \in SUBSET (S \cap T) : f[s] = g[s]}
<1>1. {} \in P
  BY DEF SumsOf
<1>2. ASSUME NEW s \in SUBSET (S \cap T), s # {}, \A x \in s : s \ {x} \in P
      PROVE  s \in P
  <2>1. any(s) \in s
    BY <1>2 DEF any
  <2>2. f[s] = w[any(s)] + f[s \ {any(s)}] /\ g[s] = v[any(s)] + g[s \ {any(s)}]
    BY <1>2 DEF SumsOf
  <2>3. f[s \ {any(s)}] = g[s \ {any(s)}] /\ w[any(s)] = v[any(s)]
    BY <1>2, <2>1
  <2> QED BY <2>2, <2>3
<1>3. IsFiniteSet(S \cap T)
  BY FS_Intersection
<1>4. SUBSET (S \cap T) \subseteq P
  <2>1. P \in SUBSET SUBSET (S \cap T)
    OBVIOUS
  <2> HIDE DEF P
  <2> QED BY <1>1, <1>2, <1>3, <2>1, EveryPart
<1> QED BY <1>4

sum(S, w) == MapThenSumSet(LAMBDA x : w[x], S)

\* The sums of the parts of a finite set.
LEMMA SumIs ==
  ASSUME NEW S, IsFiniteSet(S), NEW w, \A x \in S : w[x] \in Int
  PROVE  \E f \in [SUBSET S -> Int] : SumsOf(S, w, f) /\ sum(S, w) = f[S]
<1> DEFINE E(it) == [s \in SUBSET S |->
                        IF s = {} THEN 0 ELSE LET x == CHOOSE x \in s : TRUE IN w[x] + it[s \ {x}]]
           v == [x \in S |-> w[x]]
<1>1. sum(S, w) = (CHOOSE it : it = E(it))[S]
  BY DEF sum, MapThenSumSet, MapThenFoldSet
<1>2. \A x \in S : v[x] = w[x]
  OBVIOUS
<1>3. PICK f \in [SUBSET S -> Int] : SumsOf(S, v, f)
  <2>1. v \in [S -> Int]
    OBVIOUS
  <2> HIDE DEF v
  <2> QED BY <2>1, SumsExist
<1>4. SumsOf(S, w, f)
  <2> SUFFICES ASSUME NEW s \in SUBSET S
               PROVE  f[s] = IF s = {} THEN 0 ELSE w[any(s)] + f[s \ {any(s)}]
    BY DEF SumsOf
  <2>1. f[s] = IF s = {} THEN 0 ELSE v[any(s)] + f[s \ {any(s)}]
    BY <1>3 DEF SumsOf
  <2>2. s # {} => any(s) \in S
    BY DEF any
  <2>3. s # {} => v[any(s)] = w[any(s)]
    BY <1>2, <2>2
  <2> HIDE DEF v
  <2> QED BY <2>1, <2>3
<1>5. \A g : g = E(g) => SumsOf(S, w, g)
  <2> SUFFICES ASSUME NEW g, g = E(g), NEW s \in SUBSET S
               PROVE  g[s] = IF s = {} THEN 0 ELSE w[any(s)] + g[s \ {any(s)}]
    BY DEF SumsOf
  <2>1. g[s] = E(g)[s]
    OBVIOUS
  <2> QED BY <2>1 DEF any
<1>6. f = E(f)
  <2>1. E(f) = [s \in SUBSET S |-> IF s = {} THEN 0 ELSE w[any(s)] + f[s \ {any(s)}]]
    BY DEF any
  <2>2. \A s \in SUBSET S : f[s] = IF s = {} THEN 0 ELSE w[any(s)] + f[s \ {any(s)}]
    BY <1>4 DEF SumsOf
  <2> HIDE DEF E
  <2> QED BY <2>1, <2>2
<1>7. PICK g : g = E(g) /\ sum(S, w) = g[S]
  <2> HIDE DEF E
  <2> QED BY <1>1, <1>6
<1> HIDE DEF E
<1>8. S \in SUBSET (S \cap S)
  OBVIOUS
<1>9. f[S] = g[S]
  <2>1. \A s \in SUBSET (S \cap S) : f[s] = g[s]
    BY <1>4, <1>5, <1>7, SumsAgree
  <2> QED BY <1>8, <2>1
<1> QED BY <1>4, <1>7, <1>9

\* The sum of a part, in any set it is a part of.
LEMMA SumOfPart ==
  ASSUME NEW S, IsFiniteSet(S), NEW w, \A x \in S : w[x] \in Int, NEW f, SumsOf(S, w, f), NEW s \in SUBSET S
  PROVE  sum(s, w) = f[s]
<1>1. IsFiniteSet(s)
  BY FS_Subset
<1>2. PICK g \in [SUBSET s -> Int] : SumsOf(s, w, g) /\ sum(s, w) = g[s]
  BY <1>1, SumIs
<1>3. \A r \in SUBSET (s \cap S) : g[r] = f[r]
  BY <1>1, <1>2, SumsAgree
<1>4. s \in SUBSET (s \cap S)
  OBVIOUS
<1> QED BY <1>2, <1>3, <1>4

LEMMA SumSame ==
  ASSUME NEW S, IsFiniteSet(S), NEW w, NEW v, \A x \in S : w[x] \in Int /\ v[x] = w[x]
  PROVE  sum(S, w) \in Int /\ sum(S, v) = sum(S, w)
<1>1. PICK f \in [SUBSET S -> Int] : SumsOf(S, w, f) /\ sum(S, w) = f[S]
  BY SumIs
<1>2. PICK g \in [SUBSET S -> Int] : SumsOf(S, v, g) /\ sum(S, v) = g[S]
  BY SumIs
<1>3. \A s \in SUBSET (S \cap S) : f[s] = g[s]
  BY <1>1, <1>2, SumsAgree
<1> QED BY <1>1, <1>2, <1>3

LEMMA SumOfNone ==
  ASSUME NEW w
  PROVE  sum({}, w) = 0
<1>1. PICK f \in [SUBSET {} -> Int] : SumsOf({}, w, f) /\ sum({}, w) = f[{}]
  BY FS_EmptySet, SumIs
<1> QED BY <1>1 DEF SumsOf

\* Any member can be set apart.
LEMMA SumMore ==
  ASSUME NEW S, IsFiniteSet(S), NEW w, \A x \in S : w[x] \in Int, NEW x \in S
  PROVE  sum(S, w) = w[x] + sum(S \ {x}, w)
<1>1. PICK f \in [SUBSET S -> Int] : SumsOf(S, w, f) /\ sum(S, w) = f[S]
  BY SumIs
<1> DEFINE P == {s \in SUBSET S : \A y \in s : f[s] = w[y] + f[s \ {y}]}
<1>2. {} \in P
  OBVIOUS
<1>3. ASSUME NEW s \in SUBSET S, s # {}, \A y \in s : s \ {y} \in P
      PROVE  s \in P
  <2> SUFFICES ASSUME NEW y \in s
               PROVE  f[s] = w[y] + f[s \ {y}]
    OBVIOUS
  <2> DEFINE z == any(s)
  <2>1. z \in s
    BY DEF any
  <2>2. f[s] = w[z] + f[s \ {z}]
    BY <1>1 DEF SumsOf
  <2> HIDE DEF z
  <2>3. CASE y = z
    BY <2>2, <2>3
  <2>4. CASE y # z
    <3>1. f[s \ {z}] = w[y] + f[(s \ {z}) \ {y}]
      BY <1>3, <2>1, <2>4
    <3>2. f[s \ {y}] = w[z] + f[(s \ {y}) \ {z}]
      BY <1>3, <2>1, <2>4
    <3>3. (s \ {z}) \ {y} = (s \ {y}) \ {z}
      OBVIOUS
    <3>4. w[y] \in Int /\ w[z] \in Int /\ f[(s \ {y}) \ {z}] \in Int
      BY <2>1
    <3> DEFINE a == f[s \ {y}]
               b == f[s \ {z}]
               c == f[(s \ {y}) \ {z}]
    <3>5. f[s] = w[z] + b /\ b = w[y] + c /\ a = w[z] + c /\ c \in Int
      BY <2>2, <3>1, <3>2, <3>3, <3>4
    <3> HIDE DEF a, b, c
    <3>6. f[s] = w[y] + a
      BY <3>4, <3>5
    <3> QED BY <3>6 DEF a
  <2> QED BY <2>3, <2>4
<1>4. SUBSET S \subseteq P
  <2>1. P \in SUBSET SUBSET S
    OBVIOUS
  <2> HIDE DEF P
  <2> QED BY <1>2, <1>3, <2>1, EveryPart
<1>5. f[S] = w[x] + f[S \ {x}]
  BY <1>4
<1>6. sum(S \ {x}, w) = f[S \ {x}]
  BY <1>1, SumOfPart
<1> QED BY <1>1, <1>5, <1>6

\* What a change of one member adds.
LEMMA SumAt ==
  ASSUME NEW S, IsFiniteSet(S), NEW w, NEW v, NEW x \in S, NEW d \in Int, v[x] = w[x] + d,
         \A y \in S : w[y] \in Int /\ v[y] \in Int /\ (y # x => v[y] = w[y])
  PROVE  sum(S, v) = sum(S, w) + d
<1> DEFINE r == S \ {x}
<1>1. IsFiniteSet(r)
  BY FS_RemoveElement
<1>2. \A y \in r : w[y] \in Int /\ v[y] = w[y]
  OBVIOUS
<1>3. sum(S, w) = w[x] + sum(r, w) /\ sum(S, v) = v[x] + sum(r, v)
  BY SumMore
<1> HIDE DEF r
<1>4. sum(r, w) \in Int /\ sum(r, v) = sum(r, w)
  BY <1>1, <1>2, SumSame
<1> QED BY <1>3, <1>4

\* A sum is that of a part and that of the rest.
LEMMA SumSplit ==
  ASSUME NEW S, IsFiniteSet(S), NEW w, \A x \in S : w[x] \in Int, NEW D \in SUBSET S
  PROVE  sum(S, w) = sum(D, w) + sum(S \ D, w)
<1>1. PICK f \in [SUBSET S -> Int] : SumsOf(S, w, f) /\ sum(S, w) = f[S]
  BY SumIs
<1>2. \A s \in SUBSET S : sum(s, w) = f[s]
  BY <1>1, SumOfPart
<1>3. \A s \in SUBSET S : \A x \in s : f[s] = w[x] + f[s \ {x}]
  <2> SUFFICES ASSUME NEW s \in SUBSET S, NEW x \in s
               PROVE  f[s] = w[x] + f[s \ {x}]
    OBVIOUS
  <2>1. IsFiniteSet(s) /\ s \ {x} \in SUBSET S
    BY FS_Subset
  <2>2. sum(s, w) = w[x] + sum(s \ {x}, w)
    BY <2>1, SumMore
  <2> QED BY <1>2, <2>1, <2>2
<1> DEFINE P == {s \in SUBSET S : f[S] = f[s] + f[S \ s]}
<1>4. {} \in P
  <2>1. f[{}] = 0 /\ S \ {} = S /\ f[S] \in Int
    BY <1>1 DEF SumsOf
  <2> QED BY <2>1
<1>5. ASSUME NEW s \in SUBSET S, s # {}, \A x \in s : s \ {x} \in P
      PROVE  s \in P
  <2>1. PICK x \in s : TRUE
    BY <1>5
  <2>2. f[S] = f[s \ {x}] + f[S \ (s \ {x})]
    BY <1>5
  <2>3. f[s] = w[x] + f[s \ {x}]
    BY <1>3
  <2>4. S \ (s \ {x}) \in SUBSET S /\ x \in S \ (s \ {x}) /\ (S \ (s \ {x})) \ {x} = S \ s
    OBVIOUS
  <2> DEFINE r == S \ (s \ {x})
  <2>5. f[r] = w[x] + f[S \ s]
    <3>1. r \in SUBSET S /\ x \in r /\ r \ {x} = S \ s
      BY <2>4
    <3> HIDE DEF r
    <3> QED BY <1>3, <3>1
  <2>6. w[x] \in Int /\ f[S \ s] \in Int /\ f[s \ {x}] \in Int
    OBVIOUS
  <2> QED BY <2>2, <2>3, <2>5, <2>6
<1>6. SUBSET S \subseteq P
  <2>1. P \in SUBSET SUBSET S
    OBVIOUS
  <2> HIDE DEF P
  <2> QED BY <1>4, <1>5, <2>1, EveryPart
<1>7. f[S] = f[D] + f[S \ D]
  BY <1>6
<1> QED BY <1>2, <1>7

\* Nothings add up to nothing.
LEMMA SumOfNothings ==
  ASSUME NEW S, IsFiniteSet(S), NEW w, \A x \in S : w[x] = 0
  PROVE  sum(S, w) = 0
<1> DEFINE g == [s \in SUBSET S |-> 0]
<1>1. PICK f \in [SUBSET S -> Int] : SumsOf(S, w, f) /\ sum(S, w) = f[S]
  <2>1. \A x \in S : w[x] \in Int
    OBVIOUS
  <2> QED BY <2>1, SumIs
<1>2. SumsOf(S, w, g)
  <2> SUFFICES ASSUME NEW s \in SUBSET S, s # {}
               PROVE  w[any(s)] = 0
    BY DEF SumsOf
  <2> QED BY DEF any
<1> HIDE DEF g
<1>3. \A s \in SUBSET (S \cap S) : f[s] = g[s]
  BY <1>1, <1>2, SumsAgree
<1> QED BY <1>1, <1>3 DEF g

-----------------------------------------------------------------------------
(* RangeMask.                                                              *)

\* There are finitely many ranges in a ground range, and numbers in them.
LEMMA RangesAreFinite ==
  ASSUME NEW all \in Nat \X Nat, NEW ranges, rangesApart(ranges, all)
  PROVE  /\ IsFiniteSet(ranges) /\ ranges \in SUBSET (Nat \X Nat)
         /\ covered(ranges) \in SUBSET Nat /\ IsFiniteSet(covered(ranges))
<1>1. IsFiniteSet(all[1] .. all[2]) /\ IsFiniteSet((all[1] .. all[2]) \X (all[1] .. all[2]))
  <2>1. all[1] \in Int /\ all[2] \in Int
    OBVIOUS
  <2>2. IsFiniteSet(all[1] .. all[2])
    BY <2>1, FS_Interval
  <2> QED BY <2>2, FS_Product
<1>2. ranges \subseteq (all[1] .. all[2]) \X (all[1] .. all[2]) /\ ranges \in SUBSET (Nat \X Nat)
  <2> SUFFICES ASSUME NEW r \in ranges
               PROVE  r \in (all[1] .. all[2]) \X (all[1] .. all[2]) /\ r \in Nat \X Nat
    OBVIOUS
  <2> QED BY DEF rangesApart
<1>3. covered(ranges) \subseteq all[1] .. all[2] /\ covered(ranges) \in SUBSET Nat
  <2> SUFFICES ASSUME NEW r \in ranges, NEW n \in between(r)
               PROVE  n \in all[1] .. all[2] /\ n \in Nat
    BY DEF covered
  <2> QED BY DEF between, rangesApart
<1> QED BY <1>1, <1>2, <1>3, FS_Subset

\* Some of the ranges are apart as well.
LEMMA SomeApart ==
  ASSUME NEW all \in Nat \X Nat, NEW ranges, rangesApart(ranges, all), NEW some \in SUBSET ranges
  PROVE  rangesApart(some, all)
BY DEF rangesApart

\* What is in one range is in no other.
LEMMA OneMoreRange ==
  ASSUME NEW all \in Nat \X Nat, NEW ranges, rangesApart(ranges, all), NEW r \in ranges
  PROVE  Cardinality(covered(ranges)) = r[2] - r[1] + Cardinality(covered(ranges \ {r}))
<1> DEFINE others == covered(ranges \ {r})
<1>1. covered(ranges) = between(r) \cup others
  BY DEF covered
<1>2. between(r) \cap others = {}
  <2> SUFFICES ASSUME NEW s \in ranges, s # r, NEW n \in between(r), n \in between(s)
               PROVE  FALSE
    BY DEF covered
  <2> QED BY DEF between, rangesApart
<1>3. r[1] \in Nat /\ r[2] \in Nat /\ r[1] < r[2]
  BY DEF rangesApart
<1>4. IsFiniteSet(between(r)) /\ Cardinality(between(r)) = r[2] - r[1]
  <2>1. /\ IsFiniteSet(r[1] .. (r[2] - 1))
        /\ Cardinality(r[1] .. (r[2] - 1)) = IF r[1] > r[2] - 1 THEN 0 ELSE (r[2] - 1) - r[1] + 1
    <3> DEFINE ceiling == r[2] - 1
    <3>1. r[1] \in Int /\ ceiling \in Int
      BY <1>3
    <3> HIDE DEF ceiling
    <3>2. IsFiniteSet(r[1] .. ceiling) /\ Cardinality(r[1] .. ceiling) = IF r[1] > ceiling THEN 0 ELSE ceiling - r[1] + 1
      BY <3>1, FS_Interval
    <3> QED BY <3>2 DEF ceiling
  <2> QED BY <1>3, <2>1 DEF between
<1>5. IsFiniteSet(others)
  BY SomeApart, RangesAreFinite
<1>6. Cardinality(between(r) \cup others) = Cardinality(between(r)) + Cardinality(others) - Cardinality(between(r) \cap others)
  BY <1>4, <1>5, FS_Union
<1>7. Cardinality(others) \in Nat /\ Cardinality({}) = 0
  BY <1>5, FS_CardinalityType, FS_EmptySet
<1>8. Cardinality(between(r) \cap others) = 0
  BY <1>2, <1>7
<1>9. Cardinality(covered(ranges)) = r[2] - r[1] + Cardinality(others)
  <2> HIDE DEF others
  <2> QED BY <1>1, <1>3, <1>4, <1>6, <1>7, <1>8
<1> QED BY <1>9

\* size: the sum of the ranges is how many numbers are in them.
LEMMA SumIsSize ==
  ASSUME NEW all \in Nat \X Nat, NEW ranges, rangesApart(ranges, all)
  PROVE  sumOf(ranges) = Cardinality(covered(ranges))
<1> DEFINE E(it) == [s \in SUBSET ranges |->
                        IF s = {} THEN 0 ELSE LET x == CHOOSE x \in s : TRUE IN (x[2] - x[1]) + it[s \ {x}]]
           w == [r \in ranges |-> r[2] - r[1]]
<1>1. sumOf(ranges) = (CHOOSE it : it = E(it))[ranges]
  BY DEF sumOf, MapThenSumSet, MapThenFoldSet
<1>2. \A r \in ranges : r[1] \in Nat /\ r[2] \in Nat /\ r[1] < r[2]
  BY DEF rangesApart
<1>3. IsFiniteSet(ranges)
  BY RangesAreFinite
<1>4. w \in [ranges -> Int]
  BY <1>2
<1>5. PICK f \in [SUBSET ranges -> Int] : SumsOf(ranges, w, f)
  <2> HIDE DEF w
  <2> QED BY <1>3, <1>4, SumsExist
<1>6. \A s \in SUBSET ranges : s # {} => any(s) \in s
  BY DEF any
<1>7. f = E(f)
  <2>1. ASSUME NEW s \in SUBSET ranges
        PROVE  f[s] = IF s = {} THEN 0 ELSE (any(s)[2] - any(s)[1]) + f[s \ {any(s)}]
    <3>1. f[s] = IF s = {} THEN 0 ELSE w[any(s)] + f[s \ {any(s)}]
      BY <1>5 DEF SumsOf
    <3>2. s # {} => w[any(s)] = any(s)[2] - any(s)[1]
      BY <1>6
    <3> HIDE DEF w
    <3> QED BY <3>1, <3>2
  <2>2. E(f) = [s \in SUBSET ranges |-> IF s = {} THEN 0 ELSE (any(s)[2] - any(s)[1]) + f[s \ {any(s)}]]
    BY DEF any
  <2> HIDE DEF E
  <2> QED BY <2>1, <2>2
<1>8. PICK g : g = E(g) /\ sumOf(ranges) = g[ranges]
  <2> HIDE DEF E
  <2> QED BY <1>1, <1>7
<1>9. ASSUME NEW s \in SUBSET ranges
      PROVE  g[s] = IF s = {} THEN 0 ELSE (any(s)[2] - any(s)[1]) + g[s \ {any(s)}]
  <2>1. g[s] = E(g)[s]
    BY <1>8
  <2> QED BY <2>1 DEF any
<1> HIDE DEF E, w
<1> DEFINE Summed(s) == g[s] = Cardinality(covered(s))
           Good == {k \in Nat : \A s \in SUBSET ranges : Cardinality(s) = k => Summed(s)}
<1>10. 0 \in Good
  <2> SUFFICES ASSUME NEW s \in SUBSET ranges, Cardinality(s) = 0
               PROVE  Summed(s)
    OBVIOUS
  <2>1. s = {}
    BY <1>3, FS_Subset, FS_EmptySet
  <2>2. covered(s) = {}
    BY <2>1 DEF covered
  <2> QED BY <1>9, <2>1, <2>2, FS_EmptySet
<1>11. ASSUME NEW k \in Nat, k \in Good
       PROVE  k + 1 \in Good
  <2> SUFFICES ASSUME NEW s \in SUBSET ranges, Cardinality(s) = k + 1
               PROVE  Summed(s)
    OBVIOUS
  <2>1. s # {} /\ IsFiniteSet(s)
    BY <1>3, FS_Subset, FS_EmptySet
  <2>2. any(s) \in s
    BY <1>6, <2>1
  <2> DEFINE x == any(s)
             r == s \ {x}
  <2>3. r \in SUBSET ranges /\ Cardinality(r) = k
    <3>1. Cardinality(r) = Cardinality(s) - 1
      BY <2>1, <2>2, FS_RemoveElement
    <3> HIDE DEF r
    <3>2. r \in SUBSET ranges
      BY DEF r
    <3> QED BY <3>1, <3>2
  <2>4. Summed(r)
    BY <1>11, <2>3
  <2>5. rangesApart(s, all)
    BY SomeApart
  <2>6. Cardinality(covered(s)) = x[2] - x[1] + Cardinality(covered(r))
    BY <2>2, <2>5, OneMoreRange
  <2>7. g[s] = (x[2] - x[1]) + g[r]
    BY <1>9, <2>1
  <2> QED BY <2>4, <2>6, <2>7
<1>12. Cardinality(ranges) \in Good
  <2>1. Good \in SUBSET Nat
    OBVIOUS
  <2> HIDE DEF Good
  <2>2. Nat \subseteq Good
    BY <1>10, <1>11, <2>1, EveryNumber
  <2> QED BY <1>3, <2>2, FS_CardinalityType
<1> QED BY <1>8, <1>12

\* What MaskInv says of the ranges.
MaskSound == m_all \in Nat \X Nat /\ m_all[1] <= m_all[2] /\ rangesApart(m_ranges, m_all)

\* A range, in numbers.
LEMMA RangeIs ==
  ASSUME MaskSound, NEW r \in m_ranges
  PROVE  /\ r \in Nat \X Nat /\ r[1] \in Nat /\ r[2] \in Nat
         /\ m_all[1] \in Nat /\ m_all[2] \in Nat /\ m_all[1] <= r[1] /\ r[1] < r[2] /\ r[2] <= m_all[2]
         /\ \A s \in m_ranges : r = s \/ r[2] < s[1] \/ s[2] < r[1]
         /\ \A n : n \in between(r) <=> n \in Nat /\ r[1] <= n /\ n < r[2]
<1>1. r \in Nat \X Nat /\ m_all \in Nat \X Nat /\ m_all[1] <= r[1] /\ r[1] < r[2] /\ r[2] <= m_all[2]
  BY DEF MaskSound, rangesApart
<1>2. r[1] \in Nat /\ r[2] \in Nat /\ m_all[1] \in Nat /\ m_all[2] \in Nat
  BY <1>1
<1>3. \A n : n \in between(r) <=> n \in Nat /\ r[1] <= n /\ n < r[2]
  BY <1>2 DEF between
<1>4. \A s \in m_ranges : r = s \/ r[2] < s[1] \/ s[2] < r[1]
  BY DEF MaskSound, rangesApart
<1> QED BY <1>1, <1>2, <1>3, <1>4

\* upper_bound is the next range, if there is one.
LEMMA AfterIs ==
  ASSUME MaskSound, NEW i \in Nat
  PROVE  /\ \A r \in after(m_ranges, i) : r \in m_ranges /\ r[1] > i /\ \A s \in m_ranges : s[1] > i => r[1] <= s[1]
         /\ (\E r \in m_ranges : r[1] > i) => after(m_ranges, i) # {}
<1>1. ASSUME NEW q \in m_ranges, q[1] > i
      PROVE  after(m_ranges, i) # {}
  <2> DEFINE B == {n \in Nat : n > i /\ \E r \in m_ranges : n = r[1]}
  <2>1. q[1] \in B
    BY <1>1, RangeIs
  <2>2. Min(B) \in B /\ \A n \in B : Min(B) <= n
    BY <2>1, LeastIs
  <2>3. PICK r \in m_ranges : Min(B) = r[1] /\ r[1] > i
    BY <2>2
  <2>4. \A s \in m_ranges : s[1] > i => r[1] <= s[1]
    BY <2>2, <2>3, RangeIs
  <2> QED BY <2>3, <2>4 DEF after
<1> QED BY <1>1 DEF after

\* What is before it is the range that begins last.
LEMMA BeforeIs ==
  ASSUME MaskSound, NEW i \in Nat
  PROVE  /\ \A r \in before(m_ranges, i) :
                r \in m_ranges /\ r[1] <= i /\ \A s \in m_ranges : s[1] <= i => s = r \/ s[2] < r[1]
         /\ (\E r \in m_ranges : r[1] <= i) => before(m_ranges, i) # {}
         /\ \A r \in m_ranges : r[1] <= i /\ i <= r[2] => r \in before(m_ranges, i)
<1>1. ASSUME NEW q \in m_ranges, q[1] <= i
      PROVE  before(m_ranges, i) # {}
  <2> DEFINE B == {n \in Nat : n <= i /\ \E r \in m_ranges : n = r[1]}
  <2>1. q[1] \in B /\ B \in SUBSET Nat
    BY <1>1, RangeIs
  <2>2. Max(B) \in B /\ \A n \in B : n <= Max(B)
    BY <2>1, GreatestIs
  <2>3. PICK r \in m_ranges : Max(B) = r[1] /\ r[1] <= i
    BY <2>2
  <2>4. \A s \in m_ranges : s[1] <= i => s[1] <= r[1]
    BY <2>2, <2>3, RangeIs
  <2> QED BY <2>3, <2>4 DEF before
<1>2. ASSUME NEW r \in before(m_ranges, i), NEW s \in m_ranges, s[1] <= i
      PROVE  s = r \/ s[2] < r[1]
  <2>1. r \in m_ranges /\ s[1] <= r[1]
    BY <1>2 DEF before
  <2>2. /\ s[1] \in Nat /\ s[2] \in Nat /\ s[1] < s[2]
        /\ r[1] \in Nat /\ r[2] \in Nat /\ r[1] < r[2]
        /\ (s = r \/ s[2] < r[1] \/ r[2] < s[1])
    BY <2>1, RangeIs
  <2> QED BY <2>1, <2>2
<1>3. ASSUME NEW r \in m_ranges, r[1] <= i, i <= r[2]
      PROVE  r \in before(m_ranges, i)
  <2> SUFFICES ASSUME NEW s \in m_ranges, s[1] <= i
               PROVE  s[1] <= r[1]
    BY <1>3 DEF before
  <2>1. /\ s[1] \in Nat /\ s[2] \in Nat /\ s[1] < s[2]
        /\ r[1] \in Nat /\ r[2] \in Nat /\ r[1] < r[2]
        /\ (s = r \/ s[2] < r[1] \/ r[2] < s[1])
    BY RangeIs
  <2> QED BY <1>3, <2>1
<1> QED BY <1>1, <1>2, <1>3 DEF before

\* operator~: the gaps are apart and hold the rest of the ground range.
LEMMA InvertedIs ==
  ASSUME MaskSound
  PROVE  rangesApart(inverted, m_all) /\ covered(inverted) = between(m_all) \ covered(m_ranges)
<1> DEFINE ends == {m_all[1]} \union {r[2] : r \in m_ranges}
           begins(e) == {r[1] : r \in {q \in m_ranges : q[1] >= e}} \union {m_all[2]}
           end(e) == Min(begins(e))
<1>1. m_all[1] \in Nat /\ m_all[2] \in Nat /\ m_all[1] <= m_all[2]
  BY DEF MaskSound
<1>2. ASSUME NEW e \in ends
      PROVE  e \in Nat /\ m_all[1] <= e /\ e <= m_all[2]
  BY <1>1, RangeIs
<1>3. ASSUME NEW e \in ends
      PROVE  /\ end(e) \in begins(e) /\ \A b \in begins(e) : end(e) <= b
             /\ end(e) \in Nat /\ e <= end(e) /\ end(e) <= m_all[2]
  <2>1. begins(e) \in SUBSET Nat /\ m_all[2] \in begins(e) /\ \A b \in begins(e) : e <= b
    BY <1>1, <1>2, RangeIs
  <2> HIDE DEF begins
  <2>2. end(e) \in begins(e) /\ \A b \in begins(e) : end(e) <= b
    BY <2>1, LeastIs
  <2> QED BY <2>1, <2>2
<1>4. \A e \in ends, r \in m_ranges : r[1] >= e => end(e) <= r[1]
  BY <1>3
<1>5. \A g : g \in inverted <=> \E e \in ends : g = <<e, end(e)>> /\ end(e) # e
  BY DEF inverted
<1>6. ASSUME NEW e \in ends, NEW r \in m_ranges, e < r[2]
      PROVE  e <= r[1]
  <2>1. /\ r[1] \in Nat /\ r[2] \in Nat /\ r[1] < r[2] /\ m_all[1] <= r[1]
        /\ \A s \in m_ranges : s[1] \in Nat /\ s[2] \in Nat /\ s[1] < s[2] /\ (r = s \/ r[2] < s[1] \/ s[2] < r[1])
    BY RangeIs
  <2>2. CASE e = m_all[1]
    BY <1>1, <2>1, <2>2
  <2>3. CASE \E s \in m_ranges : e = s[2]
    BY <1>6, <2>1, <2>3
  <2> QED BY <2>2, <2>3
<1> HIDE DEF end, begins
<1>7. ASSUME NEW e \in ends, NEW f \in ends, end(e) # e, end(f) # f, e < f
      PROVE  end(e) < f
  <2>1. e \in Nat /\ f \in Nat /\ m_all[1] <= e
    BY <1>2
  <2>2. PICK r \in m_ranges : f = r[2]
    BY <1>1, <1>7, <2>1
  <2>3. e <= r[1] /\ r[1] \in Nat /\ r[2] \in Nat /\ r[1] < r[2]
    BY <1>6, <1>7, <2>2, RangeIs
  <2>4. end(e) <= r[1] /\ end(e) \in Nat
    BY <1>3, <1>4, <2>3
  <2> QED BY <2>2, <2>3, <2>4
<1>8. rangesApart(inverted, m_all)
  <2>1. ASSUME NEW g \in inverted
        PROVE  g \in Nat \X Nat /\ m_all[1] <= g[1] /\ g[1] < g[2] /\ g[2] <= m_all[2]
    <3>1. PICK e \in ends : g = <<e, end(e)>> /\ end(e) # e
      BY <1>5
    <3>2. e \in Nat /\ end(e) \in Nat /\ m_all[1] <= e /\ e <= end(e) /\ end(e) <= m_all[2]
      BY <1>2, <1>3
    <3> QED BY <3>1, <3>2
  <2>2. ASSUME NEW g \in inverted, NEW h \in inverted
        PROVE  g = h \/ g[2] < h[1] \/ h[2] < g[1]
    <3>1. PICK e \in ends : g = <<e, end(e)>> /\ end(e) # e
      BY <1>5
    <3>2. PICK f \in ends : h = <<f, end(f)>> /\ end(f) # f
      BY <1>5
    <3>3. e \in Nat /\ f \in Nat
      BY <1>2
    <3>4. CASE e = f
      BY <3>1, <3>2, <3>4
    <3>5. CASE e < f
      BY <1>7, <3>1, <3>2, <3>5
    <3>6. CASE f < e
      BY <1>7, <3>1, <3>2, <3>6
    <3> QED BY <3>3, <3>4, <3>5, <3>6
  <2> QED BY <2>1, <2>2 DEF rangesApart
<1>9. ASSUME NEW n
      PROVE  n \in covered(inverted) <=> n \in between(m_all) /\ n \notin covered(m_ranges)
  <2>1. n \in covered(inverted) <=> \E e \in ends : end(e) # e /\ n \in Nat /\ e <= n /\ n < end(e)
    <3>1. ASSUME NEW e \in ends
          PROVE  n \in between(<<e, end(e)>>) <=> n \in Nat /\ e <= n /\ n < end(e)
      <4>1. e \in Nat /\ end(e) \in Nat
        BY <1>2, <1>3
      <4> QED BY <4>1 DEF between
    <3>2. n \in covered(inverted) <=> \E g \in inverted : n \in between(g)
      BY DEF covered
    <3> QED BY <1>5, <3>1, <3>2
  <2>2. n \in between(m_all) <=> n \in Nat /\ m_all[1] <= n /\ n < m_all[2]
    BY <1>1 DEF between
  <2>3. n \in covered(m_ranges) <=> \E r \in m_ranges : n \in Nat /\ r[1] <= n /\ n < r[2]
    BY RangeIs DEF covered
  <2>4. ASSUME NEW e \in ends, n \in Nat, e <= n, n < end(e)
        PROVE  m_all[1] <= n /\ n < m_all[2] /\ ~\E r \in m_ranges : r[1] <= n /\ n < r[2]
    <3>1. e \in Nat /\ end(e) \in Nat /\ m_all[1] <= e /\ end(e) <= m_all[2]
      BY <1>2, <1>3
    <3>2. ASSUME NEW r \in m_ranges, r[1] <= n, n < r[2]
          PROVE  FALSE
      <4>1. r[1] \in Nat /\ r[2] \in Nat
        BY RangeIs
      <4>2. e < r[2]
        BY <2>4, <3>1, <3>2, <4>1
      <4>3. e <= r[1]
        BY <1>6, <4>2
      <4>4. end(e) <= r[1]
        BY <1>4, <3>1, <4>1, <4>3
      <4> QED BY <2>4, <3>1, <3>2, <4>1, <4>4
    <3> QED BY <1>1, <2>4, <3>1, <3>2
  <2>5. ASSUME n \in Nat, m_all[1] <= n, n < m_all[2], ~\E r \in m_ranges : r[1] <= n /\ n < r[2]
        PROVE  \E e \in ends : end(e) # e /\ e <= n /\ n < end(e)
    <3> DEFINE past == {e \in ends : e <= n}
    <3>1. past \in SUBSET Nat /\ m_all[1] \in past
      BY <1>2, <2>5
    <3> DEFINE e == Max(past)
    <3>2. e \in past /\ \A f \in past : f <= e
      <4> HIDE DEF past
      <4>1. \A f \in past : f <= n
        BY DEF past
      <4> QED BY <2>5, <3>1, <4>1, GreatestIs
    <3> HIDE DEF e
    <3>3. e \in ends /\ e \in Nat /\ e <= n /\ end(e) \in Nat /\ e <= end(e)
      BY <1>2, <1>3, <3>2
    <3>4. ASSUME end(e) <= n
          PROVE  FALSE
      <4>1. end(e) \in begins(e)
        BY <1>3, <3>3
      <4>2. PICK r \in m_ranges : r[1] >= e /\ end(e) = r[1]
        BY <1>1, <2>5, <3>3, <3>4, <4>1 DEF begins
      <4>3. r[1] \in Nat /\ r[2] \in Nat /\ r[1] < r[2]
        BY RangeIs
      <4>4. r[2] <= n
        BY <2>5, <3>4, <4>2, <4>3
      <4>5. r[2] <= e
        BY <3>2, <4>4
      <4> QED BY <3>3, <4>2, <4>3, <4>5
    <3> QED BY <2>5, <3>3, <3>4
  <2> HIDE DEF ends
  <2> QED BY <2>1, <2>2, <2>3, <2>4, <2>5
<1> QED BY <1>8, <1>9

\* What is covered, range by range.
LEMMA CoveredIs ==
  ASSUME MaskSound, NEW n
  PROVE  n \in covered(m_ranges) <=> \E r \in m_ranges : n \in Nat /\ r[1] <= n /\ n < r[2]
BY RangeIs DEF covered

\* A range in the place of those that it would meet.
LEMMA JoinedIs ==
  ASSUME MaskSound, NEW gone \in SUBSET m_ranges, NEW a \in Nat, NEW b \in Nat,
         m_all[1] <= a, a < b, b <= m_all[2], \A s \in m_ranges : s \in gone \/ s[2] < a \/ b < s[1]
  PROVE  /\ rangesApart((m_ranges \ gone) \cup {<<a, b>>}, m_all)
         /\ \A n : n \in covered((m_ranges \ gone) \cup {<<a, b>>}) <=>
                       \/ \E s \in m_ranges \ gone : n \in Nat /\ s[1] <= n /\ n < s[2]
                       \/ n \in Nat /\ a <= n /\ n < b
<1> DEFINE joined == (m_ranges \ gone) \cup {<<a, b>>}
<1>1. \A n : n \in between(<<a, b>>) <=> n \in Nat /\ a <= n /\ n < b
  BY DEF between
<1>2. \A n : n \in covered(joined) <=> (\E s \in m_ranges \ gone : n \in between(s)) \/ n \in between(<<a, b>>)
  BY DEF covered
<1>3. \A s \in m_ranges : \A n : n \in between(s) <=> n \in Nat /\ s[1] <= n /\ n < s[2]
  BY RangeIs
<1>4. ASSUME NEW r \in joined
      PROVE  r \in Nat \X Nat /\ m_all[1] <= r[1] /\ r[1] < r[2] /\ r[2] <= m_all[2]
  BY RangeIs
<1>5. ASSUME NEW r \in joined, NEW s \in joined
      PROVE  r = s \/ r[2] < s[1] \/ s[2] < r[1]
  <2>1. CASE r \in m_ranges \ gone /\ s \in m_ranges \ gone
    BY <2>1, RangeIs
  <2>2. CASE r \in m_ranges \ gone /\ s = <<a, b>>
    BY <2>2
  <2>3. CASE r = <<a, b>> /\ s \in m_ranges \ gone
    BY <2>3
  <2>4. CASE r = <<a, b>> /\ s = <<a, b>>
    BY <2>4
  <2> QED BY <2>1, <2>2, <2>3, <2>4
<1>6. rangesApart(joined, m_all)
  <2> HIDE DEF joined
  <2> QED BY <1>4, <1>5 DEF rangesApart
<1> QED BY <1>1, <1>2, <1>3, <1>6

\* What a step of a union leaves to do.
Unites(ranges, to) ==
    /\ rangesApart(ranges, m_all) /\ to \in Nat /\ m_all[1] <= to
    /\ \A n : (n \in covered(ranges) \/ (n \in Nat /\ to <= n /\ n < union.second))
              <=> (n \in covered(m_ranges) \/ (n \in Nat /\ union.i <= n /\ n < union.second))

\* Once around the loop of unionWith.
LEMMA StepUnites ==
  ASSUME MaskInv, UnionStep
  PROVE  \E to : union' = [union EXCEPT !.i = to] /\ Unites(m_ranges', to)
<1> DEFINE i == union.i
           second == union.second
           it == before(m_ranges, i)
           rangeAfter == after(m_ranges, i)
           AddAlone == it = {} \/ \E r \in it : r[2] < i
           Continue(to) == union' = [union EXCEPT !.i = to]
<1>1. /\ MaskSound /\ i \in Nat /\ second \in Nat /\ i < second
      /\ m_all[1] \in Nat /\ m_all[2] \in Nat /\ m_all[1] <= i /\ second <= m_all[2]
  BY DEF MaskInv, MaskSound, UnionStep
<1>2. /\ \A r \in rangeAfter : r \in m_ranges /\ r[1] > i /\ \A s \in m_ranges : s[1] > i => r[1] <= s[1]
      /\ (\E r \in m_ranges : r[1] > i) => rangeAfter # {}
  BY <1>1, AfterIs
<1>3. /\ \A r \in it : r \in m_ranges /\ r[1] <= i /\ \A s \in m_ranges : s[1] <= i => s = r \/ s[2] < r[1]
      /\ (\E r \in m_ranges : r[1] <= i) => it # {}
  BY <1>1, BeforeIs
<1>4. \A r \in m_ranges : /\ r[1] \in Nat /\ r[2] \in Nat /\ m_all[1] <= r[1] /\ r[1] < r[2] /\ r[2] <= m_all[2]
                          /\ \A s \in m_ranges : r = s \/ r[2] < s[1] \/ s[2] < r[1]
  BY <1>1, RangeIs
<1>5. \A n : n \in covered(m_ranges) <=> \E r \in m_ranges : n \in Nat /\ r[1] <= n /\ n < r[2]
  BY <1>1, CoveredIs
<1>6. AddAlone => \A s \in m_ranges : s[1] <= i => s[2] < i
  BY <1>1, <1>3, <1>4
<1>7. noRangeAfter(i) => \A s \in m_ranges : s[1] > i => second < s[1]
  <2> SUFFICES ASSUME noRangeAfter(i), NEW s \in m_ranges, s[1] > i
               PROVE  second < s[1]
    OBVIOUS
  <2>1. PICK r \in rangeAfter : r[1] > second
    BY <1>2 DEF noRangeAfter
  <2>2. r[1] <= s[1] /\ r[1] \in Nat /\ s[1] \in Nat
    BY <1>2, <1>4
  <2> QED BY <1>1, <2>1, <2>2
<1>8. ~noRangeAfter(i) => \A r \in rangeAfter : r[1] <= second
  <2> SUFFICES ASSUME ~noRangeAfter(i), NEW r \in rangeAfter
               PROVE  r[1] <= second
    OBVIOUS
  <2>1. PICK q \in rangeAfter : ~(q[1] > second)
    BY DEF noRangeAfter
  <2>2. r[1] <= q[1] /\ r[1] \in Nat /\ q[1] \in Nat
    BY <1>2, <1>4
  <2> QED BY <1>1, <2>1, <2>2
<1>9. \A r \in rangeAfter, s \in m_ranges : s[1] > i => s = r \/ r[2] < s[1]
  BY <1>1, <1>2, <1>4
<1>10. \A r \in it, s \in it : r = s
  BY <1>3, <1>4
<1>11. \/ AddAlone /\ noRangeAfter(i) /\ m_ranges' = m_ranges \union {<<i, second>>} /\ Continue(second)
       \/ /\ AddAlone /\ ~noRangeAfter(i)
          /\ \E r \in rangeAfter : m_ranges' = (m_ranges \ {r}) \union {<<i, r[2]>>} /\ Continue(r[2])
       \/ /\ \E r \in it : r[2] = i /\ noRangeAfter(i)
          /\ \E r \in it : m_ranges' = (m_ranges \ {r}) \union {<<r[1], second>>}
          /\ Continue(second)
       \/ /\ ~noRangeAfter(i)
          /\ \E r \in it, s \in rangeAfter :
               r[2] = i /\ m_ranges' = (m_ranges \ {r, s}) \union {<<r[1], s[2]>>} /\ Continue(s[2])
       \/ \E r \in it : r[2] > i /\ Continue(r[2]) /\ UNCHANGED m_ranges
  BY DEF UnionStep
<1> HIDE DEF i, second, it, rangeAfter
<1>12. ASSUME NEW to, Continue(to), to \in Nat, m_all[1] <= to, rangesApart(m_ranges', m_all),
              \A n \in Nat : (n \in covered(m_ranges') \/ (to <= n /\ n < second))
                             <=> (n \in covered(m_ranges) \/ (i <= n /\ n < second)),
              \A n : n \in covered(m_ranges') => n \in Nat
       PROVE  \E x : union' = [union EXCEPT !.i = x] /\ Unites(m_ranges', x)
  <2>1. \A n : n \in covered(m_ranges) => n \in Nat
    BY <1>5
  <2> QED BY <1>12, <2>1 DEF Unites, i, second
<1>13. CASE AddAlone /\ noRangeAfter(i) /\ m_ranges' = m_ranges \union {<<i, second>>} /\ Continue(second)
  <2>1. \A s \in m_ranges : s \in {} \/ s[2] < i \/ second < s[1]
    BY <1>1, <1>4, <1>6, <1>7, <1>13
  <2>2. m_ranges' = (m_ranges \ {}) \cup {<<i, second>>}
    BY <1>13
  <2>3. /\ rangesApart(m_ranges', m_all)
        /\ \A n : n \in covered(m_ranges') <=>
                       \/ \E s \in m_ranges \ {} : n \in Nat /\ s[1] <= n /\ n < s[2]
                       \/ n \in Nat /\ i <= n /\ n < second
    BY <1>1, <2>1, <2>2, JoinedIs
  <2>4. \A n \in Nat : (n \in covered(m_ranges') \/ (second <= n /\ n < second))
                       <=> (n \in covered(m_ranges) \/ (i <= n /\ n < second))
    <3> SUFFICES ASSUME NEW n \in Nat
                 PROVE  (n \in covered(m_ranges') \/ (second <= n /\ n < second))
                        <=> (n \in covered(m_ranges) \/ (i <= n /\ n < second))
      OBVIOUS
    <3> QED BY <1>1, <1>5, <2>3
  <2>5. m_all[1] <= second /\ \A n : n \in covered(m_ranges') => n \in Nat
    BY <1>1, <2>3
  <2> HIDE DEF AddAlone
  <2> QED BY <1>1, <1>12, <1>13, <2>3, <2>4, <2>5
<1>14. CASE /\ AddAlone /\ ~noRangeAfter(i)
            /\ \E r \in rangeAfter : m_ranges' = (m_ranges \ {r}) \union {<<i, r[2]>>} /\ Continue(r[2])
  <2>1. PICK r \in rangeAfter : m_ranges' = (m_ranges \ {r}) \union {<<i, r[2]>>} /\ Continue(r[2])
    BY <1>14
  <2>2. /\ r \in m_ranges /\ r[1] > i /\ r[1] <= second
        /\ r[1] \in Nat /\ r[2] \in Nat /\ r[1] < r[2] /\ r[2] <= m_all[2]
    BY <1>2, <1>4, <1>8, <1>14
  <2>3. \A s \in m_ranges : s \in {r} \/ s[2] < i \/ r[2] < s[1]
    BY <1>1, <1>4, <1>6, <1>9, <1>14
  <2>4. /\ rangesApart(m_ranges', m_all)
        /\ \A n : n \in covered(m_ranges') <=>
                       \/ \E s \in m_ranges \ {r} : n \in Nat /\ s[1] <= n /\ n < s[2]
                       \/ n \in Nat /\ i <= n /\ n < r[2]
    <3>1. i < r[2] /\ {r} \in SUBSET m_ranges
      BY <1>1, <2>2
    <3> QED BY <1>1, <2>1, <2>2, <2>3, <3>1, JoinedIs
  <2>5. \A n \in Nat : (n \in covered(m_ranges') \/ (r[2] <= n /\ n < second))
                       <=> (n \in covered(m_ranges) \/ (i <= n /\ n < second))
    <3> SUFFICES ASSUME NEW n \in Nat
                 PROVE  (n \in covered(m_ranges') \/ (r[2] <= n /\ n < second))
                        <=> (n \in covered(m_ranges) \/ (i <= n /\ n < second))
      OBVIOUS
    <3> DEFINE Other == \E s \in m_ranges \ {r} : s[1] <= n /\ n < s[2]
    <3>1. n \in covered(m_ranges') <=> Other \/ (i <= n /\ n < r[2])
      BY <2>4
    <3>2. n \in covered(m_ranges) <=> Other \/ (r[1] <= n /\ n < r[2])
      BY <1>5, <2>2
    <3> HIDE DEF Other
    <3> QED BY <1>1, <2>2, <3>1, <3>2
  <2>6. m_all[1] <= r[2] /\ \A n : n \in covered(m_ranges') => n \in Nat
    BY <1>1, <2>2, <2>4
  <2> QED BY <1>12, <2>1, <2>2, <2>4, <2>5, <2>6
<1>15. CASE /\ \E r \in it : r[2] = i /\ noRangeAfter(i)
            /\ \E r \in it : m_ranges' = (m_ranges \ {r}) \union {<<r[1], second>>}
            /\ Continue(second)
  <2>1. PICK r \in it : m_ranges' = (m_ranges \ {r}) \union {<<r[1], second>>}
    BY <1>15
  <2>2. /\ r \in m_ranges /\ r[2] = i /\ noRangeAfter(i)
        /\ r[1] \in Nat /\ r[1] < i /\ m_all[1] <= r[1]
    BY <1>3, <1>4, <1>10, <1>15
  <2>3. \A s \in m_ranges : s \in {r} \/ s[2] < r[1] \/ second < s[1]
    BY <1>1, <1>3, <1>4, <1>7, <2>2
  <2>4. /\ rangesApart(m_ranges', m_all)
        /\ \A n : n \in covered(m_ranges') <=>
                       \/ \E s \in m_ranges \ {r} : n \in Nat /\ s[1] <= n /\ n < s[2]
                       \/ n \in Nat /\ r[1] <= n /\ n < second
    <3>1. r[1] < second /\ {r} \in SUBSET m_ranges
      BY <1>1, <2>2
    <3> QED BY <1>1, <2>1, <2>2, <2>3, <3>1, JoinedIs
  <2>5. \A n \in Nat : (n \in covered(m_ranges') \/ (second <= n /\ n < second))
                       <=> (n \in covered(m_ranges) \/ (i <= n /\ n < second))
    <3> SUFFICES ASSUME NEW n \in Nat
                 PROVE  (n \in covered(m_ranges') \/ (second <= n /\ n < second))
                        <=> (n \in covered(m_ranges) \/ (i <= n /\ n < second))
      OBVIOUS
    <3> DEFINE Other == \E s \in m_ranges \ {r} : s[1] <= n /\ n < s[2]
    <3>1. n \in covered(m_ranges') <=> Other \/ (r[1] <= n /\ n < second)
      BY <2>4
    <3>2. n \in covered(m_ranges) <=> Other \/ (r[1] <= n /\ n < r[2])
      BY <1>5, <2>2
    <3> HIDE DEF Other
    <3> QED BY <1>1, <2>2, <3>1, <3>2
  <2>6. m_all[1] <= second /\ \A n : n \in covered(m_ranges') => n \in Nat
    BY <1>1, <2>4
  <2> QED BY <1>1, <1>12, <1>15, <2>4, <2>5, <2>6
<1>16. CASE /\ ~noRangeAfter(i)
            /\ \E r \in it, s \in rangeAfter :
                 r[2] = i /\ m_ranges' = (m_ranges \ {r, s}) \union {<<r[1], s[2]>>} /\ Continue(s[2])
  <2>1. PICK r \in it, q \in rangeAfter :
               r[2] = i /\ m_ranges' = (m_ranges \ {r, q}) \union {<<r[1], q[2]>>} /\ Continue(q[2])
    BY <1>16
  <2>2. /\ r \in m_ranges /\ r[1] \in Nat /\ r[1] < i /\ m_all[1] <= r[1]
        /\ q \in m_ranges /\ q[1] > i /\ q[1] <= second /\ q[1] \in Nat /\ q[2] \in Nat /\ q[1] < q[2] /\ q[2] <= m_all[2]
    BY <1>2, <1>3, <1>4, <1>8, <1>16, <2>1
  <2>3. \A s \in m_ranges : s \in {r, q} \/ s[2] < r[1] \/ q[2] < s[1]
    BY <1>1, <1>3, <1>4, <1>9, <2>2
  <2>4. /\ rangesApart(m_ranges', m_all)
        /\ \A n : n \in covered(m_ranges') <=>
                       \/ \E s \in m_ranges \ {r, q} : n \in Nat /\ s[1] <= n /\ n < s[2]
                       \/ n \in Nat /\ r[1] <= n /\ n < q[2]
    <3>1. r[1] < q[2] /\ {r, q} \in SUBSET m_ranges
      BY <1>1, <2>2
    <3> QED BY <1>1, <2>1, <2>2, <2>3, <3>1, JoinedIs
  <2>5. \A n \in Nat : (n \in covered(m_ranges') \/ (q[2] <= n /\ n < second))
                       <=> (n \in covered(m_ranges) \/ (i <= n /\ n < second))
    <3> SUFFICES ASSUME NEW n \in Nat
                 PROVE  (n \in covered(m_ranges') \/ (q[2] <= n /\ n < second))
                        <=> (n \in covered(m_ranges) \/ (i <= n /\ n < second))
      OBVIOUS
    <3> DEFINE Other == \E s \in m_ranges \ {r, q} : s[1] <= n /\ n < s[2]
    <3>1. n \in covered(m_ranges') <=> Other \/ (r[1] <= n /\ n < q[2])
      BY <2>4
    <3>2. n \in covered(m_ranges) <=> Other \/ (r[1] <= n /\ n < r[2]) \/ (q[1] <= n /\ n < q[2])
      BY <1>5, <2>2
    <3> HIDE DEF Other
    <3> QED BY <1>1, <2>1, <2>2, <3>1, <3>2
  <2>6. m_all[1] <= q[2]
    BY <1>1, <2>2
  <2> QED BY <1>12, <2>1, <2>2, <2>4, <2>5, <2>6
<1>17. CASE \E r \in it : r[2] > i /\ Continue(r[2]) /\ UNCHANGED m_ranges
  <2>1. PICK r \in it : r[2] > i /\ Continue(r[2]) /\ UNCHANGED m_ranges
    BY <1>17
  <2>2. r \in m_ranges /\ r[1] \in Nat /\ r[2] \in Nat /\ r[1] <= i /\ m_all[1] <= r[2]
    BY <1>1, <1>3, <1>4, <2>1
  <2>3. \A n \in Nat : i <= n /\ n < r[2] => n \in covered(m_ranges)
    BY <1>1, <1>5, <2>2
  <2>4. \A n \in Nat : (n \in covered(m_ranges) \/ (r[2] <= n /\ n < second))
                       <=> (n \in covered(m_ranges) \/ (i <= n /\ n < second))
    BY <1>1, <2>1, <2>2, <2>3
  <2>5. covered(m_ranges') = covered(m_ranges) /\ rangesApart(m_ranges', m_all)
    BY <1>1, <2>1 DEF MaskSound
  <2> QED BY <1>5, <1>12, <2>1, <2>2, <2>4, <2>5
<1> QED BY <1>11, <1>13, <1>14, <1>15, <1>16, <1>17

\* A new mask.
LEMMA MaskInitial == MaskInit => MaskInv
<1> SUFFICES ASSUME MaskInit
             PROVE  MaskInv
  OBVIOUS
<1>1. m_all \in Nat \X Nat /\ m_all[1] <= m_all[2] /\ m_ranges = {} /\ elements = {} /\ union = noUnion
  BY MaskAssumption DEF MaskInit
<1>2. covered({}) = {}
  BY DEF covered
<1>3. rangesApart(m_ranges, m_all)
  BY <1>1 DEF rangesApart
<1>4. idleMask /\ union \in [i : Nat, second : Nat, subtracting : BOOLEAN]
  BY <1>1 DEF idleMask, noUnion
<1> QED BY <1>1, <1>2, <1>3, <1>4 DEF MaskInv

\* A part of the ground range is to be added or taken away.
LEMMA StartsKeep ==
  ASSUME MaskInv, NEW first \in Nat, NEW second \in Nat, UnionWith(first, second) \/ Subtract(first, second)
  PROVE  MaskInv'
<1> DEFINE part == first .. (second - 1)
<1>1. /\ MaskSound /\ m_all[1] \in Nat /\ m_all[2] \in Nat /\ covered(m_ranges) = elements /\ elements \subseteq between(m_all)
      /\ m_all[1] <= first /\ first < second /\ second <= m_all[2] /\ UNCHANGED m_all
  BY DEF MaskInv, MaskSound, UnionWith, Subtract, Update
<1>2. part \subseteq between(m_all)
  BY <1>1 DEF between
<1>3. ~idleMask' /\ union' \in [i : Nat, second : Nat, subtracting : BOOLEAN] /\ union'.i = first /\ union'.second = second
  <2>1. union' = [i |-> first, second |-> second, subtracting |-> FALSE]
        \/ union' = [i |-> first, second |-> second, subtracting |-> TRUE]
    BY DEF UnionWith, Subtract
  <2>2. second > 0 /\ noUnion.second = 0
    BY <1>1 DEF noUnion
  <2>3. union' \in [i : Nat, second : Nat, subtracting : BOOLEAN] /\ union'.i = first /\ union'.second = second
    <3>1. [i |-> first, second |-> second, subtracting |-> FALSE] \in [i : Nat, second : Nat, subtracting : BOOLEAN]
      OBVIOUS
    <3>2. [i |-> first, second |-> second, subtracting |-> TRUE] \in [i : Nat, second : Nat, subtracting : BOOLEAN]
      OBVIOUS
    <3>3. union' \in [i : Nat, second : Nat, subtracting : BOOLEAN]
      BY <2>1, <3>1, <3>2, Zenon
    <3>4. union'.i = first /\ union'.second = second
      BY <2>1
    <3> QED BY <3>3, <3>4
  <2>4. union' # noUnion
    BY <2>2, <2>3
  <2> QED BY <2>3, <2>4 DEF idleMask
<1>4. CASE UnionWith(first, second)
  <2>1. UNCHANGED m_ranges /\ elements' = elements \union part /\ ~union'.subtracting
    BY <1>4 DEF UnionWith
  <2>2. rangesApart(m_ranges', m_all') /\ m_all' \in Nat \X Nat /\ m_all'[1] <= m_all'[2]
    BY <1>1, <2>1 DEF MaskSound
  <2>3. elements' \subseteq between(m_all') /\ covered(m_ranges') \union part = elements'
    BY <1>1, <1>2, <2>1
  <2> QED BY <1>1, <1>3, <2>1, <2>2, <2>3 DEF MaskInv
<1>5. CASE Subtract(first, second)
  <2>1. m_ranges' = inverted /\ elements' = elements \ part /\ union'.subtracting
    BY <1>5 DEF Subtract
  <2>2. rangesApart(m_ranges', m_all') /\ covered(m_ranges') = between(m_all) \ elements
    BY <1>1, <2>1, InvertedIs
  <2>3. m_all' \in Nat \X Nat /\ m_all'[1] <= m_all'[2]
    BY <1>1 DEF MaskSound
  <2>4. elements' \subseteq between(m_all')
    BY <1>1, <2>1
  <2>5. covered(m_ranges') \union part = between(m_all') \ elements'
    BY <1>1, <1>2, <2>1, <2>2
  <2> QED BY <1>1, <1>3, <2>1, <2>2, <2>3, <2>4, <2>5 DEF MaskInv
<1> QED BY <1>4, <1>5

\* unionWith goes on.
LEMMA UnionKeeps ==
  ASSUME MaskInv, UnionStep
  PROVE  MaskInv'
<1>1. PICK to : union' = [union EXCEPT !.i = to] /\ Unites(m_ranges', to)
  BY StepUnites
<1>2. /\ ~idleMask /\ UNCHANGED <<m_all, elements>>
      /\ m_all \in Nat \X Nat /\ m_all[1] <= m_all[2] /\ elements \subseteq between(m_all)
      /\ union \in [i : Nat, second : Nat, subtracting : BOOLEAN] /\ union.second > 0 /\ union.second <= m_all[2]
      /\ covered(m_ranges) \union (union.i .. (union.second - 1))
         = IF union.subtracting THEN between(m_all) \ elements ELSE elements
  BY DEF UnionStep, MaskInv
<1>3. to \in Nat /\ m_all[1] <= to /\ rangesApart(m_ranges', m_all)
  BY <1>1 DEF Unites
<1>4. /\ union' \in [i : Nat, second : Nat, subtracting : BOOLEAN] /\ union'.i = to
      /\ union'.second = union.second /\ union'.subtracting = union.subtracting
  BY <1>1, <1>2, <1>3
<1>5. ~idleMask'
  BY <1>2, <1>4 DEF idleMask, noUnion
<1>6. covered(m_ranges') \union (to .. (union.second - 1)) = covered(m_ranges) \union (union.i .. (union.second - 1))
  <2>1. union.i \in Nat /\ union.second \in Nat
    BY <1>2
  <2>2. \A n : n \in to .. (union.second - 1) <=> n \in Nat /\ to <= n /\ n < union.second
    BY <1>3, <2>1
  <2>3. \A n : n \in union.i .. (union.second - 1) <=> n \in Nat /\ union.i <= n /\ n < union.second
    BY <2>1
  <2> QED BY <1>1, <2>2, <2>3 DEF Unites
<1> QED BY <1>2, <1>3, <1>4, <1>5, <1>6 DEF MaskInv

\* ... and ends.
LEMMA EndsKeep ==
  ASSUME MaskInv, UnionEnds
  PROVE  MaskInv'
<1>1. /\ MaskSound /\ UNCHANGED <<m_all, elements>> /\ elements \subseteq between(m_all) /\ union' = noUnion
      /\ covered(m_ranges) \union (union.i .. (union.second - 1))
         = IF union.subtracting THEN between(m_all) \ elements ELSE elements
      /\ union.i \in Nat /\ union.second \in Nat /\ union.i >= union.second
      /\ m_ranges' = IF union.subtracting THEN inverted ELSE m_ranges
  BY DEF UnionEnds, MaskInv, MaskSound
<1>2. union.i .. (union.second - 1) = {}
  BY <1>1
<1>3. covered(m_ranges) = IF union.subtracting THEN between(m_all) \ elements ELSE elements
  BY <1>1, <1>2
<1>4. rangesApart(m_ranges', m_all) /\ covered(m_ranges') = elements
  <2>1. CASE union.subtracting
    <3>1. m_ranges' = inverted /\ covered(m_ranges) = between(m_all) \ elements
      BY <1>1, <1>3, <2>1
    <3>2. rangesApart(inverted, m_all) /\ covered(inverted) = between(m_all) \ covered(m_ranges)
      BY <1>1, InvertedIs
    <3> QED BY <1>1, <3>1, <3>2
  <2>2. CASE ~union.subtracting
    BY <1>1, <1>3, <2>2 DEF MaskSound
  <2> QED BY <2>1, <2>2
<1>5. idleMask' /\ union' \in [i : Nat, second : Nat, subtracting : BOOLEAN]
  BY <1>1 DEF idleMask, noUnion
<1>6. m_all' \in Nat \X Nat /\ m_all'[1] <= m_all'[2] /\ elements' \subseteq between(m_all')
  BY <1>1 DEF MaskSound
<1> QED BY <1>1, <1>4, <1>5, <1>6 DEF MaskInv

\* The operations of one step.
LEMMA OthersKeep ==
  ASSUME MaskInv, Invert \/ Clear \/ \E i \in Nat : ExtendAll(i)
  PROVE  MaskInv'
<1>1. /\ MaskSound /\ m_all[1] \in Nat /\ m_all[2] \in Nat /\ idleMask /\ UNCHANGED union
      /\ covered(m_ranges) = elements /\ elements \subseteq between(m_all)
      /\ union \in [i : Nat, second : Nat, subtracting : BOOLEAN]
  BY DEF MaskInv, MaskSound, Invert, Clear, ExtendAll, Update
<1>2. idleMask' /\ union' \in [i : Nat, second : Nat, subtracting : BOOLEAN]
  BY <1>1 DEF idleMask
<1>3. CASE Invert
  <2>1. m_ranges' = inverted /\ elements' = between(m_all) \ elements /\ UNCHANGED m_all
    BY <1>3 DEF Invert
  <2>2. rangesApart(m_ranges', m_all') /\ covered(m_ranges') = elements'
    BY <1>1, <2>1, InvertedIs
  <2>3. m_all' \in Nat \X Nat /\ m_all'[1] <= m_all'[2] /\ elements' \subseteq between(m_all')
    BY <1>1, <2>1 DEF MaskSound
  <2> QED BY <1>2, <2>2, <2>3 DEF MaskInv
<1>4. CASE Clear
  <2>1. m_ranges' = {} /\ elements' = {} /\ UNCHANGED m_all
    BY <1>4 DEF Clear
  <2>2. rangesApart(m_ranges', m_all') /\ covered(m_ranges') = elements'
    BY <2>1 DEF rangesApart, covered
  <2>3. m_all' \in Nat \X Nat /\ m_all'[1] <= m_all'[2] /\ elements' \subseteq between(m_all')
    BY <1>1, <2>1 DEF MaskSound
  <2> QED BY <1>2, <2>2, <2>3 DEF MaskInv
<1>5. CASE \E i \in Nat : ExtendAll(i)
  <2>1. PICK i \in Nat : ExtendAll(i)
    BY <1>5
  <2> DEFINE low == Min({m_all[1], i})
             high == Max({m_all[2], i + 1})
  <2>2. low \in Nat /\ low <= m_all[1]
    BY <1>1, LeastIs
  <2>3. high \in Nat /\ m_all[2] <= high
    <3> DEFINE both == {m_all[2], i + 1}
    <3>1. both \in SUBSET Nat /\ both # {} /\ m_all[2] + i + 1 \in Nat /\ \A n \in both : n <= m_all[2] + i + 1
      BY <1>1
    <3> HIDE DEF both
    <3>2. Max(both) \in both /\ \A n \in both : n <= Max(both)
      BY <3>1, GreatestIs
    <3> QED BY <1>1, <3>1, <3>2 DEF both
  <2>4. m_all' = <<low, high>> /\ UNCHANGED <<m_ranges, elements>>
    BY <2>1 DEF ExtendAll
  <2> HIDE DEF low, high
  <2>5. m_all' \in Nat \X Nat /\ m_all'[1] <= m_all'[2]
    BY <1>1, <2>2, <2>3, <2>4 DEF MaskSound
  <2>6. rangesApart(m_ranges', m_all')
    <3>1. \A r \in m_ranges : low <= r[1] /\ r[2] <= high
      BY <1>1, <2>2, <2>3, RangeIs
    <3> QED BY <1>1, <2>4, <3>1 DEF rangesApart, MaskSound
  <2>7. elements' \subseteq between(m_all')
    BY <1>1, <2>2, <2>3, <2>4 DEF between
  <2> QED BY <1>1, <1>2, <2>4, <2>5, <2>6, <2>7 DEF MaskInv
<1> QED BY <1>3, <1>4, <1>5

\* Every step keeps the invariant.
LEMMA MaskStep == MaskInv /\ [MaskNext]_maskVars => MaskInv'
<1> SUFFICES ASSUME MaskInv, [MaskNext]_maskVars
             PROVE  MaskInv'
  OBVIOUS
<1>1. CASE \E first, second \in 0..Limit : UnionWith(first, second) \/ Subtract(first, second)
  <2>1. PICK first \in 0..Limit, second \in 0..Limit : UnionWith(first, second) \/ Subtract(first, second)
    BY <1>1
  <2>2. first \in Nat /\ second \in Nat
    BY MaskAssumption
  <2> QED BY <2>1, <2>2, StartsKeep
<1>2. CASE Invert \/ Clear \/ \E i \in 0..(Limit - 1) : ExtendAll(i)
  <2>1. (0..(Limit - 1)) \subseteq Nat
    BY MaskAssumption
  <2> QED BY <1>2, <2>1, OthersKeep
<1>3. CASE UnionStep
  BY <1>3, UnionKeeps
<1>4. CASE UnionEnds
  BY <1>4, EndsKeep
<1>5. CASE UNCHANGED maskVars
  BY <1>5 DEF maskVars, MaskInv, idleMask
<1> QED BY <1>1, <1>2, <1>3, <1>4, <1>5 DEF MaskNext

\* Between two operations the ranges cover the elements.
Answering == MaskSound /\ covered(m_ranges) = elements /\ elements \subseteq between(m_all)

\* The elements and the ground range, number by number.
LEMMA ElementIs ==
  ASSUME Answering, NEW n
  PROVE  /\ n \in elements <=> \E r \in m_ranges : n \in Nat /\ r[1] <= n /\ n < r[2]
         /\ n \in between(m_all) <=> n \in Nat /\ m_all[1] <= n /\ n < m_all[2]
         /\ m_all[1] \in Nat /\ m_all[2] \in Nat /\ m_all[1] <= m_all[2]
<1>1. MaskSound /\ covered(m_ranges) = elements
  BY DEF Answering
<1>2. n \in covered(m_ranges) <=> \E r \in m_ranges : n \in Nat /\ r[1] <= n /\ n < r[2]
  BY <1>1, CoveredIs
<1>3. m_all[1] \in Nat /\ m_all[2] \in Nat /\ m_all[1] <= m_all[2]
  BY <1>1 DEF MaskSound
<1>4. n \in between(m_all) <=> n \in Nat /\ m_all[1] <= n /\ n < m_all[2]
  BY <1>3 DEF between
<1> QED BY <1>1, <1>2, <1>3, <1>4

\* contains
LEMMA ContainsIs ==
  ASSUME Answering, NEW i \in Nat
  PROVE  contains(i) <=> i \in elements
<1>1. MaskSound
  BY DEF Answering
<1>2. i \in elements <=> \E r \in m_ranges : i \in Nat /\ r[1] <= i /\ i < r[2]
  BY ElementIs
<1>3. ASSUME NEW r \in m_ranges, r[1] <= i, i < r[2]
      PROVE  r \in before(m_ranges, i)
  <2>1. r[2] \in Nat
    BY <1>1, RangeIs
  <2>2. i <= r[2]
    BY <1>3, <2>1
  <2> QED BY <1>1, <1>3, <2>2, BeforeIs
<1>4. \A r \in before(m_ranges, i) : r \in m_ranges /\ r[1] <= i
  BY <1>1, BeforeIs
<1> QED BY <1>2, <1>3, <1>4 DEF contains

\* The iterator goes to the next element, or to the end.
LEMMA NextIs ==
  ASSUME Answering, NEW i \in between(m_all)
  PROVE  next(i) = Min({e \in elements : e > i} \union {m_all[2]})
<1> DEFINE later == {e \in elements : e > i} \union {m_all[2]}
<1>1. /\ MaskSound /\ i \in Nat /\ i < m_all[2] /\ m_all[2] \in Nat /\ m_all[1] <= i
      /\ \A n : n \in elements <=> \E r \in m_ranges : n \in Nat /\ r[1] <= n /\ n < r[2]
  BY ElementIs DEF Answering
<1>2. \A e \in elements : e \in Nat /\ e < m_all[2]
  BY ElementIs DEF Answering
<1>3. ASSUME NEW n \in later, \A e \in later : n <= e
      PROVE  Min(later) = n
  <2>1. later \in SUBSET Nat
    BY <1>1, <1>2
  <2>2. Min(later) \in later /\ \A e \in later : Min(later) <= e
    BY <2>1, LeastIs
  <2> HIDE DEF later
  <2>3. n \in Nat /\ Min(later) \in Nat /\ n <= Min(later) /\ Min(later) <= n
    BY <1>3, <2>1, <2>2
  <2> QED BY <2>3
<1> DEFINE inside == \E r \in before(m_ranges, i + 1) : r[2] > i + 1
<1>4. inside <=> i + 1 \in elements
  <2>1. i + 1 \in Nat
    BY <1>1
  <2>2. contains(i + 1) <=> i + 1 \in elements
    BY <2>1, ContainsIs
  <2> QED BY <2>2 DEF contains
<1>5. CASE inside
  <2>1. i + 1 \in later
    BY <1>1, <1>4, <1>5
  <2>2. \A e \in later : i + 1 <= e
    BY <1>1, <1>2
  <2>3. Min(later) = i + 1
    BY <1>3, <2>1, <2>2
  <2>4. next(i) = i + 1
    BY <1>5 DEF next
  <2> QED BY <2>3, <2>4
<1>6. CASE ~inside
  <2>1. ASSUME NEW e \in elements, e > i
        PROVE  \E r \in m_ranges : r[1] > i + 1 /\ r[1] <= e
    <3>1. PICK r \in m_ranges : r[1] <= e /\ e < r[2]
      BY <1>1
    <3>2. r[1] \in Nat /\ r[2] \in Nat /\ e \in Nat /\ e # i + 1
      BY <1>1, <1>2, <1>4, <1>6, RangeIs
    <3>3. ASSUME r[1] <= i + 1
          PROVE  FALSE
      <4>1. i + 1 \in Nat /\ i + 1 < r[2]
        BY <1>1, <2>1, <3>1, <3>2
      <4> QED BY <1>1, <1>4, <1>6, <3>3, <4>1
    <3> QED BY <1>1, <3>1, <3>2, <3>3
  <2> DEFINE rangeAfter == after(m_ranges, i + 1)
  <2>2. /\ \A r \in rangeAfter : r \in m_ranges /\ r[1] > i + 1 /\ \A s \in m_ranges : s[1] > i + 1 => r[1] <= s[1]
        /\ (\E r \in m_ranges : r[1] > i + 1) => rangeAfter # {}
    <3>1. i + 1 \in Nat
      BY <1>1
    <3> QED BY <1>1, <3>1, AfterIs
  <2>3. next(i) = IF rangeAfter = {} THEN m_all[2] ELSE (CHOOSE r \in rangeAfter : TRUE)[1]
    BY <1>6 DEF next
  <2> HIDE DEF inside, rangeAfter
  <2>4. CASE rangeAfter = {}
    <3>1. ~\E e \in elements : e > i
      BY <2>1, <2>2, <2>4
    <3>2. m_all[2] \in later /\ \A e \in later : m_all[2] <= e
      BY <1>1, <3>1
    <3>3. Min(later) = m_all[2]
      BY <1>3, <3>2
    <3> QED BY <2>3, <2>4, <3>3
  <2>5. CASE rangeAfter # {}
    <3>1. PICK r \in rangeAfter : next(i) = r[1]
      BY <2>3, <2>5
    <3>2. r \in m_ranges /\ r[1] > i + 1 /\ r[1] \in Nat /\ r[2] \in Nat /\ r[1] < r[2] /\ r[2] <= m_all[2]
      BY <1>1, <2>2, RangeIs
    <3>3. r[1] \in elements
      BY <1>1, <3>2
    <3>4. r[1] \in later
      BY <1>1, <3>2, <3>3
    <3>5. ASSUME NEW e \in later
          PROVE  r[1] <= e
      <4>1. CASE e = m_all[2]
        BY <1>1, <3>2, <4>1
      <4>2. CASE e \in elements /\ e > i
        <5>1. PICK s \in m_ranges : s[1] > i + 1 /\ s[1] <= e
          BY <2>1, <4>2
        <5>2. r[1] <= s[1] /\ s[1] \in Nat /\ e \in Nat
          BY <1>1, <1>2, <2>2, <4>2, <5>1, RangeIs
        <5> QED BY <3>2, <5>1, <5>2
      <4> QED BY <4>1, <4>2
    <3>6. Min(later) = r[1]
      BY <1>3, <3>4, <3>5
    <3> QED BY <3>1, <3>6
  <2> QED BY <2>4, <2>5
<1> QED BY <1>5, <1>6

\* What is fewer a range has the size of the ranges before it.
LEMMA UsedIs ==
  ASSUME Answering, NEW r \in m_ranges, NEW e \in Nat, r[1] <= e, e < r[2]
  PROVE  LET used == sumOf({s \in m_ranges : s[1] < r[1]})
         IN  used \in Nat /\ Cardinality({d \in elements : d < e}) = used + (e - r[1])
<1> DEFINE earlier == {s \in m_ranges : s[1] < r[1]}
           low == {d \in elements : d < r[1]}
           fewer == {d \in elements : d < e}
           part == r[1] .. (e - 1)
<1>1. MaskSound /\ m_all \in Nat \X Nat /\ rangesApart(m_ranges, m_all)
  BY DEF Answering, MaskSound
<1>2. r[1] \in Nat /\ r[2] \in Nat /\ e \in Nat /\ r[1] < r[2]
  BY <1>1, RangeIs
<1>3. rangesApart(earlier, m_all)
  BY <1>1, SomeApart
<1>4. sumOf(earlier) = Cardinality(covered(earlier)) /\ IsFiniteSet(covered(earlier))
  BY <1>1, <1>3, SumIsSize, RangesAreFinite
<1>5. \A n : n \in elements <=> \E s \in m_ranges : n \in Nat /\ s[1] <= n /\ n < s[2]
  BY ElementIs
<1>6. \A s \in m_ranges : s[1] \in Nat /\ s[2] \in Nat /\ s[1] < s[2] /\ (s = r \/ r[2] < s[1] \/ s[2] < r[1])
  BY <1>1, RangeIs
<1>7. \A n : n \in covered(earlier) <=> \E s \in m_ranges : s[1] < r[1] /\ n \in Nat /\ s[1] <= n /\ n < s[2]
  BY <1>1, RangeIs DEF covered
<1>8. covered(earlier) = low
  <2>1. \A n : n \in covered(earlier) => n \in low
    BY <1>2, <1>5, <1>6, <1>7
  <2>2. \A n : n \in low => n \in covered(earlier)
    <3> SUFFICES ASSUME NEW n \in elements, n < r[1]
                 PROVE  n \in covered(earlier)
      OBVIOUS
    <3>1. PICK s \in m_ranges : n \in Nat /\ s[1] <= n /\ n < s[2]
      BY <1>5
    <3>2. s[1] < r[1]
      BY <1>2, <1>6, <3>1
    <3> QED BY <1>7, <3>1, <3>2
  <2> QED BY <2>1, <2>2
<1>9. fewer = low \cup part /\ low \cap part = {}
  <2>1. \A n : n \in part <=> n \in Nat /\ r[1] <= n /\ n < e
    BY <1>2
  <2>2. \A n \in part : n \in elements
    BY <1>2, <1>5, <2>1
  <2>3. \A n \in elements : n \in Nat
    BY <1>5
  <2> HIDE DEF part
  <2>4. \A n : n \in fewer <=> n \in low \cup part
    BY <1>2, <2>1, <2>2, <2>3
  <2>5. \A n : n \in low => n \notin part
    BY <1>2, <2>1, <2>3
  <2> QED BY <2>4, <2>5
<1>10. IsFiniteSet(part) /\ Cardinality(part) = e - r[1]
  <2> DEFINE ceiling == e - 1
  <2>1. r[1] \in Int /\ ceiling \in Int
    BY <1>2
  <2> HIDE DEF ceiling
  <2>2. IsFiniteSet(r[1] .. ceiling) /\ Cardinality(r[1] .. ceiling) = IF r[1] > ceiling THEN 0 ELSE ceiling - r[1] + 1
    BY <2>1, FS_Interval
  <2> QED BY <1>2, <2>2 DEF ceiling
<1> HIDE DEF earlier, low, fewer, part
<1>11. Cardinality(fewer) = Cardinality(low) + Cardinality(part) - Cardinality(low \cap part)
  BY <1>4, <1>8, <1>9, <1>10, FS_Union
<1>12. Cardinality(low \cap part) = 0 /\ Cardinality(low) \in Nat
  BY <1>4, <1>8, <1>9, FS_EmptySet, FS_CardinalityType
<1>13. sumOf(earlier) \in Nat /\ Cardinality(fewer) = sumOf(earlier) + (e - r[1])
  BY <1>2, <1>4, <1>8, <1>10, <1>11, <1>12
<1> QED BY <1>13 DEF earlier, fewer

\* lowest
LEMMA LowestIs ==
  ASSUME Answering, NEW n \in Nat
  PROVE  UNION {between(r) : r \in lowest(n)} = {e \in elements : Cardinality({d \in elements : d < e}) < n}
<1> DEFINE used(r) == sumOf({s \in m_ranges : s[1] < r[1]})
           end(r) == Min({r[1] + n - used(r), r[2]})
           few == UNION {between(r) : r \in lowest(n)}
<1>1. MaskSound
  BY DEF Answering
<1>2. ASSUME NEW r \in m_ranges
      PROVE  used(r) \in Nat /\ r[1] \in Nat /\ r[2] \in Nat /\ r[1] < r[2]
  <2>1. r[1] \in Nat /\ r[2] \in Nat /\ r[1] < r[2]
    BY <1>1, RangeIs
  <2>2. r[1] <= r[1]
    BY <2>1
  <2> QED BY <2>1, <2>2, UsedIs
<1>3. lowest(n) = {<<r[1], end(r)>> : r \in {s \in m_ranges : used(s) < n}}
  BY DEF lowest
<1>4. ASSUME NEW r \in m_ranges, used(r) < n
      PROVE  end(r) \in Nat /\ \A e \in Nat : e < end(r) <=> e < r[2] /\ e < r[1] + n - used(r)
  <2> DEFINE a == r[1] + n - used(r)
             b == r[2]
  <2>1. a \in Nat /\ b \in Nat
    BY <1>2, <1>4
  <2> HIDE DEF a, b
  <2>2. Min({a, b}) \in {a, b} /\ Min({a, b}) <= a /\ Min({a, b}) <= b
    <3>1. {a, b} \in SUBSET Nat /\ {a, b} # {}
      BY <2>1
    <3> QED BY <3>1, LeastIs
  <2>3. Min({a, b}) \in Nat /\ \A e \in Nat : e < Min({a, b}) <=> e < b /\ e < a
    BY <2>1, <2>2
  <2> QED BY <2>3 DEF a, b
<1>5. ASSUME NEW e
      PROVE  e \in few <=> \E r \in m_ranges : e \in Nat /\ r[1] <= e /\ e < r[2] /\ used(r) + (e - r[1]) < n
  <2>1. e \in few <=> \E r \in m_ranges : used(r) < n /\ e \in between(<<r[1], end(r)>>)
    BY <1>3
  <2>2. ASSUME NEW r \in m_ranges, used(r) < n
        PROVE  e \in between(<<r[1], end(r)>>) <=> e \in Nat /\ r[1] <= e /\ e < end(r)
    BY <1>2, <1>4, <2>2 DEF between
  <2>3. ASSUME NEW r \in m_ranges
        PROVE  (used(r) < n /\ e \in between(<<r[1], end(r)>>))
               <=> (e \in Nat /\ r[1] <= e /\ e < r[2] /\ used(r) + (e - r[1]) < n)
    <3>1. CASE used(r) < n /\ e \in Nat
      <4>1. used(r) \in Nat /\ r[1] \in Nat /\ r[2] \in Nat
        BY <1>2
      <4>2. e < end(r) <=> e < r[2] /\ e < r[1] + n - used(r)
        BY <1>4, <3>1
      <4>3. e \in between(<<r[1], end(r)>>) <=> e \in Nat /\ r[1] <= e /\ e < end(r)
        BY <2>2, <3>1
      <4> HIDE DEF used, end
      <4> QED BY <3>1, <4>1, <4>2, <4>3
    <3>2. CASE used(r) < n /\ e \notin Nat
      BY <2>2, <3>2
    <3>3. CASE ~(used(r) < n)
      <4>1. used(r) \in Nat /\ r[1] \in Nat /\ r[2] \in Nat
        BY <1>2
      <4> HIDE DEF used
      <4> QED BY <3>3, <4>1
    <3> QED BY <3>1, <3>2, <3>3
  <2> HIDE DEF used, end, few
  <2> QED BY <2>1, <2>3
<1>6. ASSUME NEW e
      PROVE  e \in few <=> e \in elements /\ Cardinality({d \in elements : d < e}) < n
  <2>1. e \in elements <=> \E r \in m_ranges : e \in Nat /\ r[1] <= e /\ e < r[2]
    BY ElementIs
  <2>2. ASSUME NEW r \in m_ranges, e \in Nat, r[1] <= e, e < r[2]
        PROVE  Cardinality({d \in elements : d < e}) = used(r) + (e - r[1])
    BY <2>2, UsedIs
  <2>3. \A r, s \in m_ranges : e \in Nat /\ r[1] <= e /\ e < r[2] /\ s[1] <= e /\ e < s[2] => r = s
    <3> SUFFICES ASSUME NEW r \in m_ranges, NEW s \in m_ranges,
                        e \in Nat, r[1] <= e, e < r[2], s[1] <= e, e < s[2]
                 PROVE  r = s
      OBVIOUS
    <3>1. /\ r[1] \in Nat /\ r[2] \in Nat /\ s[1] \in Nat /\ s[2] \in Nat
          /\ (r = s \/ r[2] < s[1] \/ s[2] < r[1])
      BY <1>1, RangeIs
    <3> QED BY <3>1
  <2> HIDE DEF used, few
  <2> QED BY <1>5, <2>1, <2>2
<1> QED BY <1>6

\* full, empty, firstOut, lastIn
LEMMA EndsAre ==
  ASSUME Answering
  PROVE  /\ full <=> elements = between(m_all)
         /\ empty <=> elements = {}
         /\ elements # between(m_all) => firstOut = Min(between(m_all) \ elements)
         /\ elements # {} => lastIn = Max(elements)
<1>1. MaskSound /\ m_all \in Nat \X Nat /\ elements \subseteq between(m_all)
  BY DEF Answering, MaskSound
<1>2. m_all[1] \in Nat /\ m_all[2] \in Nat /\ m_all[1] <= m_all[2]
  BY ElementIs
<1>3. \A n : n \in elements <=> \E s \in m_ranges : n \in Nat /\ s[1] <= n /\ n < s[2]
  BY ElementIs
<1>4. \A n : n \in between(m_all) <=> n \in Nat /\ m_all[1] <= n /\ n < m_all[2]
  BY ElementIs
<1>5. \A r \in m_ranges : /\ r \in Nat \X Nat /\ r[1] \in Nat /\ r[2] \in Nat /\ r[1] < r[2]
                          /\ m_all[1] <= r[1] /\ r[2] <= m_all[2]
                          /\ \A s \in m_ranges : r = s \/ r[2] < s[1] \/ s[2] < r[1]
  BY <1>1, RangeIs
<1>6. empty <=> elements = {}
  <2>1. \A r \in m_ranges : r[1] \in elements
    BY <1>3, <1>5
  <2> QED BY <1>3, <2>1 DEF empty
<1>7. ASSUME NEW r \in m_ranges, r[1] = m_all[1]
      PROVE  /\ r[2] < m_all[2] => r[2] \in between(m_all) \ elements
             /\ \A n \in between(m_all) \ elements : r[2] <= n
             /\ r[2] = m_all[2] => r = m_all /\ m_ranges = {m_all} /\ elements = between(m_all)
  <2>1. r[2] \notin elements
    BY <1>3, <1>5
  <2>2. r[2] < m_all[2] => r[2] \in between(m_all) \ elements
    BY <1>2, <1>4, <1>5, <2>1
  <2>3. \A n \in between(m_all) \ elements : r[2] <= n
    BY <1>3, <1>4, <1>5, <1>7
  <2>4. r[2] = m_all[2] => r = m_all
    BY <1>1, <1>5, <1>7
  <2>5. r[2] = m_all[2] => \A s \in m_ranges : s = r
    BY <1>2, <1>5, <1>7
  <2>6. r[2] = m_all[2] => elements = between(m_all)
    BY <1>1, <1>3, <1>4, <1>7
  <2> QED BY <2>2, <2>3, <2>4, <2>5, <2>6
<1>8. full <=> elements = between(m_all)
  <2>1. CASE m_all[1] = m_all[2]
    <3>1. between(m_all) = {}
      BY <1>2, <1>4, <2>1
    <3> QED BY <1>1, <2>1, <3>1 DEF full
  <2>2. CASE m_all[1] # m_all[2]
    <3>1. m_ranges = {m_all} => elements = between(m_all)
      BY <1>7
    <3>2. ASSUME elements = between(m_all)
          PROVE  m_ranges = {m_all}
      <4>1. m_all[1] \in elements
        BY <1>2, <1>4, <2>2, <3>2
      <4>2. PICK r \in m_ranges : r[1] <= m_all[1]
        BY <1>3, <4>1
      <4>3. r[1] = m_all[1]
        BY <1>2, <1>5, <4>2
      <4>4. ~(r[2] < m_all[2])
        BY <1>7, <3>2, <4>3
      <4>5. r[2] = m_all[2]
        BY <1>2, <1>5, <4>4
      <4> QED BY <1>7, <4>3, <4>5
    <3> QED BY <2>2, <3>1, <3>2 DEF full
  <2> QED BY <2>1, <2>2
<1>9. ASSUME elements # between(m_all)
      PROVE  firstOut = Min(between(m_all) \ elements)
  <2> DEFINE out == between(m_all) \ elements
  <2>1. out \in SUBSET Nat /\ out # {}
    BY <1>1, <1>4, <1>9
  <2>2. ASSUME NEW n \in out, \A e \in out : n <= e
        PROVE  Min(out) = n
    <3> HIDE DEF out
    <3>1. Min(out) \in out /\ \A e \in out : Min(out) <= e
      BY <2>1, LeastIs
    <3>2. n \in Nat /\ Min(out) \in Nat /\ n <= Min(out) /\ Min(out) <= n
      BY <2>1, <2>2, <3>1
    <3> QED BY <3>2
  <2>3. CASE \E r \in m_ranges : r[1] = m_all[1]
    <3>1. PICK r \in m_ranges : r[1] = m_all[1] /\ firstOut = r[2]
      BY <2>3 DEF firstOut
    <3>2. r[2] # m_all[2]
      BY <1>7, <1>9, <3>1
    <3>3. r[2] \in out /\ \A e \in out : r[2] <= e
      BY <1>2, <1>5, <1>7, <3>1, <3>2
    <3> HIDE DEF out
    <3>4. Min(out) = r[2]
      BY <2>2, <3>3
    <3> QED BY <3>1, <3>4 DEF out
  <2>4. CASE ~\E r \in m_ranges : r[1] = m_all[1]
    <3>1. firstOut = m_all[1]
      BY <2>4 DEF firstOut
    <3>2. m_all[1] \notin elements
      BY <1>2, <1>3, <1>5, <2>4
    <3>3. \A e \in out : m_all[1] <= e
      BY <1>4
    <3>4. m_all[1] \in out
      <4>1. PICK e \in out : TRUE
        BY <2>1
      <4>2. m_all[1] < m_all[2]
        BY <1>2, <1>4, <4>1
      <4> QED BY <1>2, <1>4, <3>2, <4>2
    <3> HIDE DEF out
    <3>5. Min(out) = m_all[1]
      BY <2>2, <3>3, <3>4
    <3> QED BY <3>1, <3>5 DEF out
  <2> QED BY <2>3, <2>4
<1>10. ASSUME elements # {}
       PROVE  lastIn = Max(elements)
  <2> DEFINE ends == {r[2] : r \in m_ranges}
             ceiling == Max(ends)
  <2>1. m_ranges # {}
    BY <1>6, <1>10 DEF empty
  <2>2. ends \in SUBSET Nat /\ ends # {} /\ \A e \in ends : e <= m_all[2]
    BY <1>5, <2>1
  <2>3. ceiling \in ends /\ \A e \in ends : e <= ceiling
    <3> HIDE DEF ends
    <3> QED BY <1>2, <2>2, GreatestIs
  <2>4. lastIn = ceiling - 1
    BY <2>1 DEF lastIn
  <2> HIDE DEF ceiling
  <2>5. PICK r \in m_ranges : ceiling = r[2]
    BY <2>3
  <2>6. ceiling - 1 \in Nat /\ ceiling - 1 \in elements /\ \A e \in elements : e <= ceiling - 1
    <3>1. r[1] \in Nat /\ r[2] \in Nat /\ r[1] < r[2]
      BY <1>5
    <3>2. ceiling - 1 \in Nat /\ r[1] <= ceiling - 1 /\ ceiling - 1 < r[2]
      BY <2>5, <3>1
    <3>3. ceiling - 1 \in elements
      BY <1>3, <3>2
    <3>4. ASSUME NEW e \in elements
          PROVE  e <= ceiling - 1
      <4>1. PICK s \in m_ranges : e \in Nat /\ e < s[2]
        BY <1>3
      <4>2. s[2] \in Nat /\ s[2] <= ceiling
        BY <1>5, <2>3
      <4> QED BY <2>5, <3>1, <4>1, <4>2
    <3> QED BY <3>2, <3>3, <3>4
  <2>7. elements \in SUBSET Nat
    BY <1>3
  <2>8. Max(elements) \in elements /\ \A e \in elements : e <= Max(elements)
    BY <2>6, <2>7, GreatestIs
  <2>9. Max(elements) \in Nat /\ Max(elements) <= ceiling - 1 /\ ceiling - 1 <= Max(elements)
    BY <2>6, <2>7, <2>8
  <2> QED BY <2>4, <2>6, <2>9
<1> QED BY <1>6, <1>8, <1>9, <1>10

\* What the invariant says between two operations.
LEMMA InvAnswers == MaskInv => MaskIsItsElements
<1> SUFFICES ASSUME MaskInv, idleMask
             PROVE  MaskIsItsElements
  BY DEF MaskIsItsElements
<1>1. Answering
  BY DEF MaskInv, MaskSound, Answering
<1>2. \A i \in 0..Limit : contains(i) <=> i \in elements
  BY <1>1, ContainsIs
<1>3. sumOf(m_ranges) = Cardinality(elements)
  BY <1>1, SumIsSize DEF Answering, MaskSound
<1>4. \A i \in between(m_all) : next(i) = Min({e \in elements : e > i} \union {m_all[2]})
  BY <1>1, NextIs
<1>5. \A n \in 0..Limit :
          UNION {between(r) : r \in lowest(n)} = {e \in elements : Cardinality({d \in elements : d < e}) < n}
  <2> SUFFICES ASSUME NEW n \in 0..Limit
               PROVE  UNION {between(r) : r \in lowest(n)} = {e \in elements : Cardinality({d \in elements : d < e}) < n}
    OBVIOUS
  <2>1. n \in Nat
    BY MaskAssumption
  <2> QED BY <1>1, <2>1, LowestIs
<1>6. /\ full <=> elements = between(m_all)
      /\ empty <=> elements = {}
      /\ elements # between(m_all) => firstOut = Min(between(m_all) \ elements)
      /\ elements # {} => lastIn = Max(elements)
  BY <1>1, EndsAre
<1> QED BY <1>2, <1>3, <1>4, <1>5, <1>6 DEF MaskIsItsElements

\* Between operations the mask answers as the set it stands for: what is in
\* it, how many, which is next, which are the lowest, where the first gap is,
\* and whether it is all of the ground range.
\* Code: RangeMask.h:46-71, 103-195, 214-272.
THEOREM MaskAnswers == MaskSpec => []MaskIsItsElements
<1>1. MaskInit => MaskInv
  BY MaskInitial
<1>2. MaskInv /\ [MaskNext]_maskVars => MaskInv'
  BY MaskStep
<1>3. MaskInv => MaskIsItsElements
  BY InvAnswers
<1> QED BY <1>1, <1>2, <1>3, PTL DEF MaskSpec

-----------------------------------------------------------------------------
(* Executive.                                                              *)

LEMMA AccountsAreFinite == IsFiniteSet(accounts)
<1>1. IsFiniteSet(creators)
  BY ExecutiveAssumption, FS_Subset
<1>2. IsFiniteSet(0..MaxNonce)
  <2>1. MaxNonce \in Int
    BY ExecutiveAssumption
  <2> QED BY <2>1, FS_Interval
<1>3. IsFiniteSet(newAddresses)
  BY <1>1, <1>2, FS_Product DEF newAddresses
<1>4. IsFiniteSet({MaxAddress, Author})
  <2>1. IsFiniteSet({MaxAddress} \cup {Author})
    BY FS_Singleton, FS_AddElement
  <2>2. {MaxAddress} \cup {Author} = {MaxAddress, Author}
    OBVIOUS
  <2> QED BY <2>1, <2>2
<1>5. IsFiniteSet((creators \cup Precompiled) \cup {MaxAddress, Author})
  BY <1>4, ExecutiveAssumption, FS_Union
<1>6. IsFiniteSet(((creators \cup Precompiled) \cup {MaxAddress, Author}) \cup newAddresses)
  BY <1>3, <1>5, FS_Union
<1> QED BY <1>6 DEF accounts

LEMMA TotalIs ==
  ASSUME NEW D, NEW f \in [D -> Int]
  PROVE  total(f) = sum(D, f)
BY DEF total, sum

\* r is s but for d of ether, code and nonces, and no nonce is lower.
Keeps(s, r, d) ==
    /\ isState(r)
    /\ r.writes = s.writes /\ r.cleared = s.cleared
    /\ total(r.balance) = total(s.balance) + d
    /\ \A a \in Externals : s.nonce[a] <= r.nonce[a]

LEMMA StateIs ==
  ASSUME NEW s, isState(s)
  PROVE  /\ s.balance \in [accounts -> Int] /\ s.nonce \in [accounts -> Nat] /\ s.cleared \in Int
         /\ s.code \in SUBSET (accounts \ Externals)
         /\ s = [balance |-> s.balance, nonce |-> s.nonce, code |-> s.code, writes |-> s.writes, cleared |-> s.cleared]
         /\ total(s.balance) \in Int
<1>1. /\ s.balance \in [accounts -> Int] /\ s.nonce \in [accounts -> Nat] /\ s.cleared \in Int
      /\ s.code \in SUBSET (accounts \ Externals)
      /\ s = [balance |-> s.balance, nonce |-> s.nonce, code |-> s.code, writes |-> s.writes, cleared |-> s.cleared]
  BY DEF isState
<1>2. total(s.balance) \in Int
  <2>1. \A a \in accounts : s.balance[a] \in Int /\ s.balance[a] = s.balance[a]
    BY <1>1
  <2> QED BY <1>1, <2>1, AccountsAreFinite, TotalIs, SumSame
<1> QED BY <1>1, <1>2

LEMMA StateOf ==
  ASSUME NEW b \in [accounts -> Int], NEW n \in [accounts -> Nat], NEW c \in SUBSET (accounts \ Externals), NEW w, NEW k \in Int
  PROVE  isState([balance |-> b, nonce |-> n, code |-> c, writes |-> w, cleared |-> k])
BY DEF isState

LEMMA ExternalsAre ==
  /\ Externals \subseteq creators /\ creators \subseteq accounts /\ Externals \subseteq accounts
  /\ newAddresses \subseteq accounts \ Externals
BY ExecutiveAssumption DEF accounts, creators

LEMMA AddBalanceIs ==
  ASSUME NEW s, isState(s), NEW a \in accounts, NEW d \in Int
  PROVE  /\ Keeps(s, addBalance(s, a, d), d)
         /\ addBalance(s, a, d).nonce = s.nonce
         /\ addBalance(s, a, d).balance \in [accounts -> Int]
<1> DEFINE b == [s.balance EXCEPT ![a] = @ + d]
           r == [balance |-> b, nonce |-> s.nonce, code |-> s.code, writes |-> s.writes, cleared |-> s.cleared]
<1>1. /\ s.balance \in [accounts -> Int] /\ s.nonce \in [accounts -> Nat] /\ s.cleared \in Int
      /\ s.code \in SUBSET (accounts \ Externals)
      /\ s = [balance |-> s.balance, nonce |-> s.nonce, code |-> s.code, writes |-> s.writes, cleared |-> s.cleared]
      /\ total(s.balance) \in Int
  BY StateIs
<1>2. addBalance(s, a, d) = r
  BY <1>1 DEF addBalance
<1>3. b \in [accounts -> Int] /\ b[a] = s.balance[a] + d /\ \A x \in accounts : x # a => b[x] = s.balance[x]
  BY <1>1
<1> HIDE DEF b
<1>4. isState(r)
  BY <1>1, <1>3, StateOf
<1>5. total(b) = total(s.balance) + d
  <2>1. \A x \in accounts : s.balance[x] \in Int /\ b[x] \in Int /\ (x # a => b[x] = s.balance[x])
    BY <1>1, <1>3
  <2>2. sum(accounts, b) = sum(accounts, s.balance) + d
    <3> DEFINE w == s.balance
    <3>1. \A x \in accounts : w[x] \in Int /\ b[x] \in Int /\ (x # a => b[x] = w[x])
      BY <2>1
    <3>2. b[a] = w[a] + d
      BY <1>3
    <3> HIDE DEF w
    <3>3. sum(accounts, b) = sum(accounts, w) + d
      BY <3>1, <3>2, AccountsAreFinite, SumAt, Zenon
    <3> QED BY <3>3 DEF w
  <2>3. total(b) = sum(accounts, b) /\ total(s.balance) = sum(accounts, s.balance)
    BY <1>1, <1>3, TotalIs
  <2> QED BY <2>2, <2>3
<1>6. \A x \in Externals : s.nonce[x] <= s.nonce[x]
  <2>1. \A x \in Externals : s.nonce[x] \in Int
    BY <1>1, ExternalsAre
  <2> QED BY <2>1
<1> QED BY <1>2, <1>3, <1>4, <1>5, <1>6 DEF Keeps

LEMMA TransferIs ==
  ASSUME NEW s, isState(s), NEW from \in accounts, NEW to \in accounts, NEW v \in Int
  PROVE  /\ Keeps(s, transferBalance(s, from, to, v), 0)
         /\ transferBalance(s, from, to, v).nonce = s.nonce
<1> DEFINE m == addBalance(s, from, 0 - v)
           r == addBalance(m, to, v)
<1>1. Keeps(s, m, 0 - v) /\ m.nonce = s.nonce
  BY AddBalanceIs
<1> HIDE DEF m
<1>2. Keeps(m, r, v) /\ r.nonce = m.nonce
  BY <1>1, AddBalanceIs DEF Keeps
<1>3. r = transferBalance(s, from, to, v)
  BY DEF transferBalance, m
<1> HIDE DEF r
<1>4. total(s.balance) \in Int
  BY StateIs
<1>5. total(r.balance) = total(s.balance) + 0
  BY <1>1, <1>2, <1>4 DEF Keeps
<1>6. \A x \in Externals : s.nonce[x] <= r.nonce[x]
  BY <1>1, <1>2 DEF Keeps
<1> QED BY <1>1, <1>2, <1>3, <1>5, <1>6 DEF Keeps

LEMMA IncNonceIs ==
  ASSUME NEW s, isState(s), NEW a \in accounts
  PROVE  /\ Keeps(s, incNonce(s, a), 0)
         /\ a # MaxAddress => incNonce(s, a).nonce[a] = s.nonce[a] + 1
<1>1. /\ s.balance \in [accounts -> Int] /\ s.nonce \in [accounts -> Nat] /\ s.cleared \in Int
      /\ s.code \in SUBSET (accounts \ Externals)
      /\ s = [balance |-> s.balance, nonce |-> s.nonce, code |-> s.code, writes |-> s.writes, cleared |-> s.cleared]
      /\ total(s.balance) \in Int
  BY StateIs
<1>2. \A x \in Externals : s.nonce[x] \in Int
  BY <1>1, ExternalsAre
<1>3. CASE a = MaxAddress
  BY <1>1, <1>2, <1>3 DEF incNonce, Keeps
<1>4. CASE a # MaxAddress
  <2> DEFINE n == [s.nonce EXCEPT ![a] = @ + 1]
             r == [balance |-> s.balance, nonce |-> n, code |-> s.code, writes |-> s.writes, cleared |-> s.cleared]
  <2>1. incNonce(s, a) = r
    BY <1>1, <1>4 DEF incNonce
  <2>2. n \in [accounts -> Nat] /\ n[a] = s.nonce[a] + 1 /\ \A x \in accounts : n[x] = s.nonce[x] \/ n[x] = s.nonce[x] + 1
    BY <1>1
  <2> HIDE DEF n
  <2>3. isState(r)
    BY <1>1, <2>2, StateOf
  <2>4. \A x \in Externals : s.nonce[x] <= n[x]
    BY <1>2, <2>2, ExternalsAre
  <2> QED BY <1>1, <2>1, <2>2, <2>3, <2>4 DEF Keeps
<1> QED BY <1>3, <1>4

\* Ether on killed accounts is gone.
LEMMA KillIs ==
  ASSUME NEW s, isState(s), NEW dead \in SUBSET (accounts \ Externals)
  PROVE  /\ sum(dead, s.balance) \in Int
         /\ Keeps(s, kill(s, dead), 0 - sum(dead, s.balance))
<1> DEFINE b == [a \in accounts |-> IF a \in dead THEN 0 ELSE s.balance[a]]
           n == [a \in accounts |-> IF a \in dead THEN 0 ELSE s.nonce[a]]
           r == [balance |-> b, nonce |-> n, code |-> s.code \ dead, writes |-> s.writes, cleared |-> s.cleared]
<1>1. /\ s.balance \in [accounts -> Int] /\ s.nonce \in [accounts -> Nat] /\ s.cleared \in Int
      /\ s.code \in SUBSET (accounts \ Externals)
      /\ s = [balance |-> s.balance, nonce |-> s.nonce, code |-> s.code, writes |-> s.writes, cleared |-> s.cleared]
      /\ total(s.balance) \in Int
  BY StateIs
<1>2. kill(s, dead) = r
  <2> DEFINE c == s.code \ dead
  <2>1. kill(s, dead) = [s EXCEPT !.balance = b, !.nonce = n, !.code = c]
    BY DEF kill
  <2> HIDE DEF b, n, c
  <2>2. [s EXCEPT !.balance = b, !.nonce = n, !.code = c]
           = [balance |-> b, nonce |-> n, code |-> c, writes |-> s.writes, cleared |-> s.cleared]
    <3> DEFINE e == [s EXCEPT !.balance = b, !.nonce = n, !.code = c]
    <3>1. s \in [balance : {s.balance}, nonce : {s.nonce}, code : {s.code}, writes : {s.writes}, cleared : {s.cleared}]
      BY <1>1
    <3>2. e \in [balance : {b}, nonce : {n}, code : {c}, writes : {s.writes}, cleared : {s.cleared}]
      BY <3>1
    <3> HIDE DEF e
    <3>3. e = [balance |-> b, nonce |-> n, code |-> c, writes |-> s.writes, cleared |-> s.cleared]
      BY <3>2
    <3> QED BY <3>3 DEF e
  <2> QED BY <2>1, <2>2 DEF c
<1>3. b \in [accounts -> Int] /\ n \in [accounts -> Nat] /\ s.code \ dead \in SUBSET (accounts \ Externals)
  <2>1. \A x \in accounts : s.balance[x] \in Int /\ s.nonce[x] \in Nat
    BY <1>1
  <2>2. b \in [accounts -> Int]
    <3>1. \A x \in accounts : x \in dead => b[x] = 0
      OBVIOUS
    <3>2. \A x \in accounts : x \notin dead => b[x] = s.balance[x]
      OBVIOUS
    <3>3. \A x \in accounts : b[x] \in Int
      <4> SUFFICES ASSUME NEW x \in accounts
                   PROVE  b[x] \in Int
        OBVIOUS
      <4>1. CASE x \in dead
        <5>1. b[x] = 0
          BY <3>1, <4>1
        <5> QED BY ONLY <5>1
      <4>2. CASE x \notin dead
        <5>1. b[x] = s.balance[x]
          BY <3>2, <4>2
        <5> HIDE DEF b
        <5> QED BY <2>1, <5>1, Zenon
      <4> QED BY <4>1, <4>2
    <3> QED BY <3>3
  <2>3. n \in [accounts -> Nat]
    BY <2>1
  <2> QED BY <1>1, <2>2, <2>3
<1>4. \A x \in Externals : s.nonce[x] <= n[x]
  <2> SUFFICES ASSUME NEW x \in Externals
               PROVE  s.nonce[x] <= n[x]
    OBVIOUS
  <2>1. x \in accounts /\ x \notin dead
    BY ExternalsAre
  <2>2. n[x] = s.nonce[x]
    BY <2>1
  <2>3. s.nonce[x] \in Int
    BY <1>1, <2>1
  <2> HIDE DEF n
  <2> QED BY <2>2, <2>3
<1>5. /\ \A x \in dead : b[x] = 0
      /\ \A x \in accounts \ dead : b[x] = s.balance[x]
  OBVIOUS
<1> HIDE DEF b, n
<1>6. isState(r)
  BY <1>1, <1>3, StateOf
<1>7. IsFiniteSet(dead) /\ IsFiniteSet(accounts \ dead) /\ dead \in SUBSET accounts
  BY AccountsAreFinite, FS_Subset, FS_Difference
<1>8. sum(dead, s.balance) \in Int
  <2>1. \A x \in dead : s.balance[x] \in Int /\ s.balance[x] = s.balance[x]
    BY <1>1, <1>7
  <2> QED BY <1>7, <2>1, SumSame
<1>9. total(b) = total(s.balance) + (0 - sum(dead, s.balance))
  <2>1. (\A x \in accounts : s.balance[x] \in Int) /\ (\A x \in accounts : b[x] \in Int)
    BY <1>1, <1>3
  <2>2. sum(accounts, b) = sum(dead, b) + sum(accounts \ dead, b)
    BY <1>7, <2>1, AccountsAreFinite, SumSplit
  <2>3. sum(accounts, s.balance) = sum(dead, s.balance) + sum(accounts \ dead, s.balance)
    BY <1>7, <2>1, AccountsAreFinite, SumSplit
  <2>4. sum(dead, b) = 0
    BY <1>5, <1>7, SumOfNothings
  <2>5. sum(accounts \ dead, s.balance) \in Int /\ sum(accounts \ dead, b) = sum(accounts \ dead, s.balance)
    <3>1. \A x \in accounts \ dead : s.balance[x] \in Int /\ b[x] = s.balance[x]
      BY <1>5, <2>1
    <3> QED BY <1>7, <3>1, SumSame
  <2>6. total(b) = sum(accounts, b) /\ total(s.balance) = sum(accounts, s.balance)
    BY <1>1, <1>3, TotalIs
  <2> DEFINE lost == sum(dead, s.balance)
             kept == sum(accounts \ dead, s.balance)
  <2>7. total(b) = kept /\ total(s.balance) = lost + kept
    <3>1. total(b) = 0 + kept
      BY <2>2, <2>4, <2>5, <2>6
    <3> QED BY <2>3, <2>5, <2>6, <3>1
  <2>8. lost \in Int /\ kept \in Int
    BY <1>8, <2>5
  <2> HIDE DEF lost, kept
  <2>9. total(b) = total(s.balance) + (0 - lost)
    BY <2>7, <2>8
  <2> QED BY <2>9 DEF lost
<1>10. r.writes = s.writes /\ r.cleared = s.cleared /\ r.balance = b /\ r.nonce = n
  OBVIOUS
<1> HIDE DEF r
<1>11. total(r.balance) = total(s.balance) + (0 - sum(dead, s.balance))
  BY <1>9, <1>10
<1>12. \A x \in Externals : s.nonce[x] <= r.nonce[x]
  BY <1>4, <1>10
<1>13. Keeps(s, r, 0 - sum(dead, s.balance))
  BY <1>6, <1>10, <1>11, <1>12 DEF Keeps
<1> QED BY <1>2, <1>8, <1>13

LEMMA CodeIs ==
  ASSUME NEW s, isState(s), NEW c \in SUBSET (accounts \ Externals)
  PROVE  Keeps(s, [s EXCEPT !.code = c], 0)
<1> DEFINE r == [balance |-> s.balance, nonce |-> s.nonce, code |-> c, writes |-> s.writes, cleared |-> s.cleared]
<1>1. /\ s.balance \in [accounts -> Int] /\ s.nonce \in [accounts -> Nat] /\ s.cleared \in Int
      /\ s.code \in SUBSET (accounts \ Externals)
      /\ s = [balance |-> s.balance, nonce |-> s.nonce, code |-> s.code, writes |-> s.writes, cleared |-> s.cleared]
      /\ total(s.balance) \in Int
  BY StateIs
<1>2. [s EXCEPT !.code = c] = r
  BY <1>1
<1>3. isState(r)
  BY <1>1, StateOf
<1>4. \A x \in Externals : s.nonce[x] <= s.nonce[x]
  <2>1. \A x \in Externals : s.nonce[x] \in Int
    BY <1>1, ExternalsAre
  <2> QED BY <2>1
<1> QED BY <1>1, <1>2, <1>3, <1>4 DEF Keeps

LEMMA RefundsAre ==
  ASSUME NEW n \in Nat, NEW fs, NEW w, \A i \in 1..n : w[i] \in Int /\ fs[i].sub.refunds = w[i]
  PROVE  refundsOf(fs, n) = sum(1..n, w) /\ refundsOf(fs, n) \in Int
<1> DEFINE v == [i \in 1..n |-> fs[i].sub.refunds]
<1>1. refundsOf(fs, n) = total(v)
  BY DEF refundsOf
<1>2. v \in [1..n -> Int] /\ \A i \in 1..n : v[i] = w[i]
  OBVIOUS
<1> HIDE DEF v
<1>3. IsFiniteSet(1..n)
  <2>1. 1 \in Int /\ n \in Int
    OBVIOUS
  <2> QED BY <2>1, FS_Interval
<1>4. total(v) = sum(1..n, v)
  BY <1>2, TotalIs
<1>5. \A i \in 1..n : w[i] \in Int /\ v[i] = w[i]
  BY <1>2
<1>6. sum(1..n, w) \in Int /\ sum(1..n, v) = sum(1..n, w)
  BY <1>3, <1>5, SumSame
<1> QED BY <1>1, <1>4, <1>6

\* The effects of frames that are the same.
LEMMA PrefixSame ==
  ASSUME NEW n \in Nat, NEW fs, NEW gs, \A i \in 1..n : fs[i].sub.refunds \in Int /\ gs[i].sub = fs[i].sub
  PROVE  /\ logsOf(gs, n) = logsOf(fs, n) /\ refundsOf(gs, n) = refundsOf(fs, n)
         /\ refundsOf(fs, n) \in Int
<1>1. logsOf(gs, n) = logsOf(fs, n)
  <2>1. \A i \in 1..n : gs[i].sub.logs = fs[i].sub.logs
    OBVIOUS
  <2> QED BY <2>1 DEF logsOf
<1> DEFINE w == [i \in 1..n |-> fs[i].sub.refunds]
<1>2. \A i \in 1..n : w[i] \in Int /\ fs[i].sub.refunds = w[i] /\ gs[i].sub.refunds = w[i]
  OBVIOUS
<1> HIDE DEF w
<1>3. refundsOf(fs, n) = sum(1..n, w) /\ refundsOf(fs, n) \in Int
  BY <1>2, RefundsAre
<1>4. refundsOf(gs, n) = sum(1..n, w)
  BY <1>2, RefundsAre
<1> QED BY <1>1, <1>3, <1>4

\* The effects of one frame more.
LEMMA OneFrameMore ==
  ASSUME NEW n \in Nat, NEW fs, \A i \in 1..(n + 1) : fs[i].sub.refunds \in Int
  PROVE  /\ logsOf(fs, n + 1) = logsOf(fs, n) \union fs[n + 1].sub.logs
         /\ refundsOf(fs, n + 1) = refundsOf(fs, n) + fs[n + 1].sub.refunds
         /\ refundsOf(fs, n) \in Int
<1>1. 1..(n + 1) = (1..n) \union {n + 1} /\ (1..(n + 1)) \ {n + 1} = 1..n /\ n + 1 \in 1..(n + 1)
  OBVIOUS
<1>2. logsOf(fs, n + 1) = logsOf(fs, n) \union fs[n + 1].sub.logs
  BY <1>1 DEF logsOf
<1> DEFINE w == [i \in 1..(n + 1) |-> fs[i].sub.refunds]
<1>3. \A i \in 1..(n + 1) : w[i] \in Int /\ fs[i].sub.refunds = w[i]
  OBVIOUS
<1> HIDE DEF w
<1>4. refundsOf(fs, n + 1) = sum(1..(n + 1), w)
  <2> DEFINE m == n + 1
  <2>1. m \in Nat /\ \A i \in 1..m : w[i] \in Int /\ fs[i].sub.refunds = w[i]
    BY <1>3
  <2> HIDE DEF m
  <2>2. refundsOf(fs, m) = sum(1..m, w)
    BY <2>1, RefundsAre
  <2> QED BY <2>2 DEF m
<1>5. refundsOf(fs, n) = sum(1..n, w) /\ refundsOf(fs, n) \in Int
  <2>1. \A i \in 1..n : w[i] \in Int /\ fs[i].sub.refunds = w[i]
    BY <1>3
  <2> QED BY <2>1, RefundsAre
<1>6. IsFiniteSet(1..(n + 1))
  <2> DEFINE m == n + 1
  <2>1. 1 \in Int /\ m \in Int
    OBVIOUS
  <2> HIDE DEF m
  <2>2. IsFiniteSet(1..m)
    BY <2>1, FS_Interval
  <2> QED BY <2>2 DEF m
<1>7. sum(1..(n + 1), w) = w[n + 1] + sum((1..(n + 1)) \ {n + 1}, w)
  <2> DEFINE S == 1..(n + 1)
             x == n + 1
  <2>1. IsFiniteSet(S) /\ (\A i \in S : w[i] \in Int) /\ x \in S
    BY <1>1, <1>3, <1>6
  <2> HIDE DEF S, x
  <2>2. sum(S, w) = w[x] + sum(S \ {x}, w)
    BY <2>1, SumMore
  <2> QED BY <2>2 DEF S, x
<1>8. w[n + 1] \in Int /\ w[n + 1] = fs[n + 1].sub.refunds
  BY <1>1, <1>3
<1>9. refundsOf(fs, n + 1) = refundsOf(fs, n) + fs[n + 1].sub.refunds
  <2>1. refundsOf(fs, n + 1) = w[n + 1] + sum(1..n, w)
    BY <1>1, <1>4, <1>7, Zenon
  <2> DEFINE a == w[n + 1]
             b == refundsOf(fs, n)
  <2>2. a \in Int /\ b \in Int /\ refundsOf(fs, n + 1) = a + b
    BY <1>5, <1>8, <2>1, Zenon
  <2>3. a + b = b + a
    <3> HIDE DEF a, b
    <3> QED BY <2>2
  <2> QED BY <1>8, <2>2, <2>3, Zenon
<1> QED BY <1>2, <1>5, <1>9

LEMMA SubIs ==
  ASSUME NEW sub, isSub(sub)
  PROVE  /\ sub = [logs |-> sub.logs, refunds |-> sub.refunds, suicides |-> sub.suicides]
         /\ sub.refunds \in Int /\ sub.suicides \in SUBSET (accounts \ Externals)
BY DEF isSub

LEMMA SubOf ==
  ASSUME NEW logs, NEW owedBack \in Int, NEW suicides \in SUBSET (accounts \ Externals)
  PROVE  isSub([logs |-> logs, refunds |-> owedBack, suicides |-> suicides])
BY DEF isSub

LEMMA NoSubIs == isSub(NoSub) /\ NoSub.logs = {} /\ NoSub.refunds = 0
<1>1. isSub(NoSub)
  <2>1. 0 \in Int /\ {} \in SUBSET (accounts \ Externals)
    OBVIOUS
  <2> QED BY <2>1, SubOf DEF NoSub
<1> QED BY <1>1 DEF NoSub

LEMMA FrameIs ==
  ASSUME NEW f, isFrame(f)
  PROVE  /\ f = [self |-> f.self, gas |-> f.gas, savepoint |-> f.savepoint, creation |-> f.creation, sub |-> f.sub]
         /\ f.self \in accounts \ Externals /\ f.gas \in Int
         /\ isState(f.savepoint) /\ isSub(f.sub)
BY DEF isFrame

LEMMA FrameOf ==
  ASSUME NEW self \in accounts \ Externals, NEW gas \in Int, NEW savepoint, isState(savepoint), NEW creation, NEW sub, isSub(sub)
  PROVE  isFrame([self |-> self, gas |-> gas, savepoint |-> savepoint, creation |-> creation, sub |-> sub])
BY DEF isFrame

\* Frames, and the effects of each
LEMMA StackIs ==
  ASSUME NEW fs, NEW past, NEW owed, Stacked(fs, past, owed)
  PROVE  /\ Len(fs) \in Nat /\ DOMAIN fs = 1..Len(fs) /\ fs \in Seq(Range(fs))
         /\ \A i \in 1..Len(fs) : isFrame(fs[i]) /\ fs[i].sub.refunds \in Int
<1>1. fs \in Seq(Range(fs)) /\ \A i \in 1..Len(fs) : isFrame(fs[i])
  BY DEF Stacked
<1>2. Len(fs) \in Nat /\ DOMAIN fs = 1..Len(fs)
  BY <1>1
<1>3. \A i \in 1..Len(fs) : fs[i].sub.refunds \in Int
  BY <1>1, FrameIs, SubIs
<1> QED BY <1>1, <1>2, <1>3

\* The innermost frame is replaced by one with the same savepoint.
LEMMA ReplaceTop ==
  ASSUME NEW fs, NEW past, NEW owed, Stacked(fs, past, owed), fs # << >>,
         NEW f, isFrame(f), f.savepoint = fs[Len(fs)].savepoint
  PROVE  LET gs == [fs EXCEPT ![Len(fs)] = f]
         IN  /\ Stacked(gs, past, owed) /\ Len(gs) = Len(fs)
             /\ logsOf(gs, Len(gs)) = logsOf(fs, Len(fs) - 1) \union f.sub.logs
             /\ refundsOf(gs, Len(gs)) = refundsOf(fs, Len(fs) - 1) + f.sub.refunds
<1> DEFINE n == Len(fs)
           gs == [fs EXCEPT ![n] = f]
<1>1. /\ n \in Nat /\ DOMAIN fs = 1..n /\ fs \in Seq(Range(fs))
      /\ \A i \in 1..n : isFrame(fs[i]) /\ fs[i].sub.refunds \in Int
  BY StackIs
<1>2. n - 1 \in Nat /\ n \in 1..n /\ (n - 1) + 1 = n
  <2>1. n # 0
    BY <1>1
  <2> HIDE DEF n
  <2> QED BY <1>1, <2>1
<1>3. DOMAIN gs = 1..n /\ gs[n] = f /\ \A i \in 1..n : i # n => gs[i] = fs[i]
  <2>1. DOMAIN gs = 1..n
    BY <1>1
  <2> QED BY <1>1, <1>2
<1>4. gs \in Seq(Range(gs)) /\ Len(gs) = n
  <2>1. Range(gs) = {gs[i] : i \in 1..n}
    BY <1>3 DEF Range
  <2>2. gs = [i \in 1..n |-> gs[i]]
    BY <1>3
  <2> HIDE DEF gs
  <2>3. gs \in [1..n -> Range(gs)]
    BY <2>1, <2>2
  <2> HIDE DEF n
  <2>4. gs \in Seq(Range(gs))
    BY <1>1, <2>3
  <2>5. Len(gs) = n
    BY <1>1, <1>3, <2>4
  <2> QED BY <2>4, <2>5
<1>5. f.sub.refunds \in Int
  BY FrameIs, SubIs
<1> HIDE DEF gs, n
<1>6. \A i \in 1..n : gs[i].sub.refunds \in Int /\ isFrame(gs[i])
  BY <1>1, <1>3, <1>5
<1>7. \A k \in 0..(n - 1) : logsOf(gs, k) = logsOf(fs, k) /\ refundsOf(gs, k) = refundsOf(fs, k)
  <2> SUFFICES ASSUME NEW k \in 0..(n - 1)
               PROVE  logsOf(gs, k) = logsOf(fs, k) /\ refundsOf(gs, k) = refundsOf(fs, k)
    OBVIOUS
  <2>1. k \in Nat /\ \A i \in 1..k : i \in 1..n /\ i # n
    BY <1>1
  <2>2. \A i \in 1..k : fs[i].sub.refunds \in Int /\ gs[i].sub = fs[i].sub
    BY <1>1, <1>3, <2>1
  <2> QED BY <2>1, <2>2, PrefixSame
<1>8. Stacked(gs, past, owed)
  <2>1. ASSUME NEW i \in 1..n
        PROVE  /\ isFrame(gs[i]) /\ Sound(gs[i].savepoint, past, owed)
               /\ gs[i].savepoint.writes = logsOf(gs, i - 1) /\ gs[i].savepoint.cleared = refundsOf(gs, i - 1)
    <3>1. gs[i].savepoint = fs[i].savepoint
      BY <1>3 DEF n
    <3>2. /\ Sound(fs[i].savepoint, past, owed)
          /\ fs[i].savepoint.writes = logsOf(fs, i - 1) /\ fs[i].savepoint.cleared = refundsOf(fs, i - 1)
      BY DEF Stacked, n
    <3>3. i - 1 \in 0..(n - 1)
      BY <1>1
    <3> QED BY <1>6, <1>7, <3>1, <3>2, <3>3
  <2> QED BY <1>4, <2>1 DEF Stacked
<1>9. /\ logsOf(gs, n) = logsOf(gs, n - 1) \union gs[n].sub.logs
      /\ refundsOf(gs, n) = refundsOf(gs, n - 1) + gs[n].sub.refunds
  <2> DEFINE m == n - 1
  <2>1. m \in Nat /\ m + 1 = n
    BY <1>2
  <2> HIDE DEF m
  <2>2. \A i \in 1..(m + 1) : gs[i].sub.refunds \in Int
    BY <1>6, <2>1
  <2>3. /\ logsOf(gs, m + 1) = logsOf(gs, m) \union gs[m + 1].sub.logs
        /\ refundsOf(gs, m + 1) = refundsOf(gs, m) + gs[m + 1].sub.refunds
    BY <2>1, <2>2, OneFrameMore
  <2> QED BY <2>1, <2>3 DEF m
<1>10. /\ logsOf(gs, n) = logsOf(fs, n - 1) \union f.sub.logs
       /\ refundsOf(gs, n) = refundsOf(fs, n - 1) + f.sub.refunds
  <2>1. n - 1 \in 0..(n - 1)
    BY <1>2
  <2> QED BY <1>3, <1>7, <1>9, <2>1
<1> QED BY <1>4, <1>8, <1>10 DEF n, gs

LEMMA TopIs ==
  ASSUME NEW fs, NEW past, NEW owed, Stacked(fs, past, owed), fs # << >>
  PROVE  /\ Len(fs) - 1 \in Nat /\ Len(fs) \in 1..Len(fs)
         /\ isFrame(fs[Len(fs)]) /\ Sound(fs[Len(fs)].savepoint, past, owed)
         /\ logsOf(fs, Len(fs)) = logsOf(fs, Len(fs) - 1) \union fs[Len(fs)].sub.logs
         /\ refundsOf(fs, Len(fs)) = refundsOf(fs, Len(fs) - 1) + fs[Len(fs)].sub.refunds
         /\ refundsOf(fs, Len(fs) - 1) \in Int
         /\ fs[Len(fs)].savepoint.writes = logsOf(fs, Len(fs) - 1)
         /\ fs[Len(fs)].savepoint.cleared = refundsOf(fs, Len(fs) - 1)
<1> DEFINE n == Len(fs)
           m == n - 1
<1>1. /\ n \in Nat /\ DOMAIN fs = 1..n /\ fs \in Seq(Range(fs))
      /\ \A i \in 1..n : isFrame(fs[i]) /\ fs[i].sub.refunds \in Int
  BY StackIs
<1>2. m \in Nat /\ n \in 1..n /\ m + 1 = n
  <2>1. n # 0
    BY <1>1
  <2> HIDE DEF n
  <2> QED BY <1>1, <2>1
<1>3. /\ isFrame(fs[n]) /\ Sound(fs[n].savepoint, past, owed)
      /\ fs[n].savepoint.writes = logsOf(fs, n - 1) /\ fs[n].savepoint.cleared = refundsOf(fs, n - 1)
  BY <1>2 DEF Stacked
<1> HIDE DEF n, m
<1>4. \A i \in 1..(m + 1) : fs[i].sub.refunds \in Int
  BY <1>1, <1>2
<1>5. /\ logsOf(fs, m + 1) = logsOf(fs, m) \union fs[m + 1].sub.logs
      /\ refundsOf(fs, m + 1) = refundsOf(fs, m) + fs[m + 1].sub.refunds
      /\ refundsOf(fs, m) \in Int
  BY <1>2, <1>4, OneFrameMore
<1> QED BY <1>2, <1>3, <1>5, Zenon DEF n, m

\* The frames outside the innermost.
LEMMA FrontIs ==
  ASSUME NEW fs, NEW past, NEW owed, Stacked(fs, past, owed), fs # << >>
  PROVE  LET gs == Front(fs)
         IN  /\ Stacked(gs, past, owed) /\ Len(gs) = Len(fs) - 1
             /\ logsOf(gs, Len(gs)) = logsOf(fs, Len(fs) - 1)
             /\ refundsOf(gs, Len(gs)) = refundsOf(fs, Len(fs) - 1)
<1> DEFINE n == Len(fs)
           m == n - 1
           gs == Front(fs)
<1>1. /\ n \in Nat /\ DOMAIN fs = 1..n /\ fs \in Seq(Range(fs))
      /\ \A i \in 1..n : isFrame(fs[i]) /\ fs[i].sub.refunds \in Int
  BY StackIs
<1>2. m \in Nat /\ n \in 1..n /\ m + 1 = n
  BY TopIs
<1>3. Len(gs) = m /\ DOMAIN gs = 1..m /\ \A i \in 1..m : gs[i] = fs[i]
  BY <1>1, <1>2 DEF Front
<1> HIDE DEF n, m, gs
<1>4. gs \in Seq(Range(gs))
  <2>1. gs \in Seq(Range(fs))
    BY <1>1, <1>2 DEF Front, gs, n, m
  <2>2. Range(gs) = {gs[i] : i \in 1..m} /\ gs = [i \in 1..m |-> gs[i]]
    BY <1>3, <2>1 DEF Range
  <2>3. gs \in [1..m -> Range(gs)]
    BY <2>2
  <2> QED BY <1>2, <2>3
<1>5. \A k \in 0..m : logsOf(gs, k) = logsOf(fs, k) /\ refundsOf(gs, k) = refundsOf(fs, k)
  <2> SUFFICES ASSUME NEW k \in 0..m
               PROVE  logsOf(gs, k) = logsOf(fs, k) /\ refundsOf(gs, k) = refundsOf(fs, k)
    OBVIOUS
  <2>1. k \in Nat /\ \A i \in 1..k : i \in 1..m /\ i \in 1..n
    BY <1>2
  <2>2. \A i \in 1..k : fs[i].sub.refunds \in Int /\ gs[i].sub = fs[i].sub
    BY <1>1, <1>3, <2>1
  <2> QED BY <2>1, <2>2, PrefixSame
<1>6. Stacked(gs, past, owed)
  <2>1. ASSUME NEW i \in 1..m
        PROVE  /\ isFrame(gs[i]) /\ Sound(gs[i].savepoint, past, owed)
               /\ gs[i].savepoint.writes = logsOf(gs, i - 1) /\ gs[i].savepoint.cleared = refundsOf(gs, i - 1)
    <3>1. i \in 1..n /\ i - 1 \in 0..m
      BY <1>2
    <3>2. /\ isFrame(fs[i]) /\ Sound(fs[i].savepoint, past, owed)
          /\ fs[i].savepoint.writes = logsOf(fs, i - 1) /\ fs[i].savepoint.cleared = refundsOf(fs, i - 1)
      BY <3>1 DEF Stacked, n
    <3> QED BY <1>3, <1>5, <3>1, <3>2
  <2> QED BY <1>3, <1>4, <2>1 DEF Stacked
<1>7. m \in 0..m
  BY <1>2
<1>8. logsOf(gs, m) = logsOf(fs, m) /\ refundsOf(gs, m) = refundsOf(fs, m)
  BY <1>5, <1>7
<1> QED BY <1>3, <1>6, <1>8, Zenon DEF n, m, gs

\* A frame is pushed whose savepoint has the effects of the frames there are.
LEMMA AppendIs ==
  ASSUME NEW fs, NEW past, NEW owed, Stacked(fs, past, owed),
         NEW f, isFrame(f), Sound(f.savepoint, past, owed),
         f.savepoint.writes = logsOf(fs, Len(fs)), f.savepoint.cleared = refundsOf(fs, Len(fs))
  PROVE  LET gs == Append(fs, f)
         IN  /\ Stacked(gs, past, owed) /\ gs # << >>
             /\ logsOf(gs, Len(gs)) = logsOf(fs, Len(fs)) \union f.sub.logs
             /\ refundsOf(gs, Len(gs)) = refundsOf(fs, Len(fs)) + f.sub.refunds
<1> DEFINE n == Len(fs)
           gs == Append(fs, f)
<1>1. /\ n \in Nat /\ DOMAIN fs = 1..n /\ fs \in Seq(Range(fs))
      /\ \A i \in 1..n : isFrame(fs[i]) /\ fs[i].sub.refunds \in Int
  BY StackIs
<1>2. Len(gs) = n + 1 /\ DOMAIN gs = 1..(n + 1) /\ gs[n + 1] = f /\ \A i \in 1..n : gs[i] = fs[i]
  BY <1>1
<1>3. f.sub.refunds \in Int
  BY FrameIs, SubIs
<1>4. gs \in Seq(Range(gs)) /\ gs # << >>
  <2>1. gs \in Seq(Range(fs) \union {f})
    BY <1>1
  <2> HIDE DEF gs
  <2>2. Range(gs) = {gs[i] : i \in 1..(n + 1)} /\ gs = [i \in 1..(n + 1) |-> gs[i]]
    BY <1>2, <2>1 DEF Range
  <2>3. gs \in [1..(n + 1) -> Range(gs)]
    BY <2>2
  <2> HIDE DEF n
  <2>4. n + 1 \in Nat /\ n + 1 # 0
    BY <1>1
  <2> QED BY <1>2, <2>3, <2>4
<1> HIDE DEF n, gs
<1>5. \A k \in 0..n : logsOf(gs, k) = logsOf(fs, k) /\ refundsOf(gs, k) = refundsOf(fs, k)
  <2> SUFFICES ASSUME NEW k \in 0..n
               PROVE  logsOf(gs, k) = logsOf(fs, k) /\ refundsOf(gs, k) = refundsOf(fs, k)
    OBVIOUS
  <2>1. k \in Nat /\ \A i \in 1..k : i \in 1..n
    BY <1>1
  <2>2. \A i \in 1..k : fs[i].sub.refunds \in Int /\ gs[i].sub = fs[i].sub
    BY <1>1, <1>2, <2>1
  <2> QED BY <2>1, <2>2, PrefixSame
<1>6. n \in 0..n
  BY <1>1
<1>7. Stacked(gs, past, owed)
  <2>1. ASSUME NEW i \in 1..n
        PROVE  /\ isFrame(gs[i]) /\ Sound(gs[i].savepoint, past, owed)
               /\ gs[i].savepoint.writes = logsOf(gs, i - 1) /\ gs[i].savepoint.cleared = refundsOf(gs, i - 1)
    <3>1. i - 1 \in 0..n
      BY <1>1
    <3>2. /\ isFrame(fs[i]) /\ Sound(fs[i].savepoint, past, owed)
          /\ fs[i].savepoint.writes = logsOf(fs, i - 1) /\ fs[i].savepoint.cleared = refundsOf(fs, i - 1)
      BY DEF Stacked, n
    <3> QED BY <1>2, <1>5, <3>1, <3>2
  <2>2. /\ isFrame(gs[n + 1]) /\ Sound(gs[n + 1].savepoint, past, owed)
        /\ gs[n + 1].savepoint.writes = logsOf(gs, n) /\ gs[n + 1].savepoint.cleared = refundsOf(gs, n)
    BY <1>2, <1>5, <1>6 DEF n
  <2>3. ASSUME NEW i \in 1..(n + 1)
        PROVE  /\ isFrame(gs[i]) /\ Sound(gs[i].savepoint, past, owed)
               /\ gs[i].savepoint.writes = logsOf(gs, i - 1) /\ gs[i].savepoint.cleared = refundsOf(gs, i - 1)
    <3>1. CASE i = n + 1
      <4>1. i - 1 = n
        BY <1>1, <3>1
      <4> QED BY <2>2, <3>1, <4>1
    <3>2. CASE i # n + 1
      <4>1. i \in 1..n
        BY <1>1, <3>2
      <4> QED BY <2>1, <4>1
    <3> QED BY <3>1, <3>2
  <2> QED BY <1>2, <1>4, <2>3 DEF Stacked
<1>8. /\ logsOf(gs, n + 1) = logsOf(gs, n) \union gs[n + 1].sub.logs
      /\ refundsOf(gs, n + 1) = refundsOf(gs, n) + gs[n + 1].sub.refunds
  <2>1. \A i \in 1..(n + 1) : gs[i].sub.refunds \in Int
    <3> SUFFICES ASSUME NEW i \in 1..(n + 1)
                 PROVE  gs[i].sub.refunds \in Int
      OBVIOUS
    <3>1. i = n + 1 \/ i \in 1..n
      BY <1>1
    <3> QED BY <1>1, <1>2, <1>3, <3>1
  <2> QED BY <1>1, <2>1, OneFrameMore
<1>9. /\ logsOf(gs, n + 1) = logsOf(fs, n) \union f.sub.logs
      /\ refundsOf(gs, n + 1) = refundsOf(fs, n) + f.sub.refunds
  BY <1>2, <1>5, <1>6, <1>8
<1> QED BY <1>2, <1>4, <1>7, <1>9 DEF n, gs

owing(t) == burnt - unbought + m_gasCost(t)

\* The state s, reached with the frames fs, has their effects.
Reached(s, fs, past, owed) ==
    /\ Sound(s, past, owed) /\ Stacked(fs, past, owed)
    /\ s.writes = logsOf(fs, Len(fs)) /\ s.cleared = refundsOf(fs, Len(fs))

LEMMA TransactionIs ==
  ASSUME NEW t \in Transactions
  PROVE  /\ t # NoTx
         /\ t.from \in accounts /\ t.to \in accounts /\ t.from \in Externals \union {MaxAddress}
         /\ t.nonce \in Nat /\ t.gas \in Nat /\ t.price \in Nat /\ t.value \in Nat
         /\ m_gasCost(t) \in Nat /\ m_baseGasRequired(t) \in Nat
<1>1. t.id # 0 /\ t.from \in Externals \cup {MaxAddress} /\ t.to \in accounts
      /\ {t.nonce, t.gas, t.price, t.value} \subseteq Nat
  BY ExecutiveAssumption
<1>2. t # NoTx
  BY <1>1 DEF NoTx
<1>3. t.from \in accounts
  BY <1>1, ExternalsAre DEF accounts
<1>4. t.nonce \in Nat /\ t.gas \in Nat /\ t.price \in Nat /\ t.value \in Nat
  BY <1>1
<1>5. m_gasCost(t) \in Nat
  BY <1>4 DEF m_gasCost
<1>6. m_baseGasRequired(t) \in Nat
  <2>1. baseGas \in Nat
    BY ExecutiveAssumption
  <2> QED BY <2>1 DEF m_baseGasRequired
<1> QED BY <1>1, <1>2, <1>3, <1>4, <1>5, <1>6

\* What a change of nonces, code and ownership leaves sound.
LEMMA KeepsSound ==
  ASSUME NEW s, NEW r, NEW past \in SUBSET Transactions, NEW owed, Sound(s, past, owed), Keeps(s, r, 0)
  PROVE  Sound(r, past, owed) /\ r.writes = s.writes /\ r.cleared = s.cleared
<1>1. isState(r) /\ r.writes = s.writes /\ r.cleared = s.cleared
      /\ total(r.balance) = total(s.balance) + 0
      /\ \A a \in Externals : s.nonce[a] <= r.nonce[a]
  BY DEF Keeps
<1>2. isState(s) /\ total(s.balance) + owed = total(InitialBalance)
      /\ \A t \in past : signed(t) => s.nonce[t.from] > t.nonce
  BY DEF Sound
<1>3. total(r.balance) = total(s.balance)
  BY <1>1, <1>2, StateIs
<1>4. ASSUME NEW t \in past, signed(t)
      PROVE  r.nonce[t.from] > t.nonce
  <2>1. t.from \in Externals /\ t.nonce \in Nat /\ t.from \in accounts
    BY <1>4, TransactionIs DEF signed
  <2>2. s.nonce[t.from] \in Nat /\ r.nonce[t.from] \in Nat
    BY <1>1, <1>2, <2>1, StateIs
  <2>3. s.nonce[t.from] > t.nonce /\ s.nonce[t.from] <= r.nonce[t.from]
    BY <1>1, <1>2, <1>4, <2>1
  <2> QED BY <2>1, <2>2, <2>3
<1> QED BY <1>1, <1>2, <1>3, <1>4 DEF Sound

\* An Executive is done: its caller goes on, or finalize.
LEMMA DoneKeeps ==
  ASSUME NEW s, NEW fs, NEW past \in SUBSET Transactions, NEW t \in Transactions,
         burnt \in Int /\ unbought \in Int, Sound(s, past, owing(t)), Stacked(fs, past, owing(t)),
         NEW gas \in Int, NEW sub, isSub(sub),
         s.writes = logsOf(fs, Len(fs)) \union sub.logs, s.cleared = refundsOf(fs, Len(fs)) + sub.refunds,
         outcome = Running, done(fs, gas, sub),
         st' = s, m_t' = t, executed' = past, burnt' = burnt /\ unbought' = unbought
  PROVE  ExecInv'
<1>1. t # NoTx /\ aside' = owing(t)
  BY TransactionIs DEF aside, owing
<1>2. /\ m_t' \in Transactions \cup {NoTx} /\ executed' \subseteq Transactions /\ burnt' \in Int /\ unbought' \in Int
      /\ m_t' # NoTx
      /\ Sound(st', executed', aside')
  BY <1>1
<1>3. sub.refunds \in Int
  BY SubIs
<1>4. CASE fs = << >>
  <2>1. frames' = << >> /\ outcome' = [gas |-> gas, sub |-> sub]
    BY <1>4 DEF done
  <2>2. Stacked(frames', executed', aside')
    BY <1>1, <1>4, <2>1
  <2>3. outcome' \in [gas : Int, sub : {outcome'.sub}] /\ isSub(outcome'.sub)
    BY <2>1
  <2>4. /\ st'.writes = logsOf(frames', Len(frames')) \union outcome'.sub.logs
        /\ st'.cleared = refundsOf(frames', Len(frames')) + outcome'.sub.refunds
    BY <1>4, <2>1
  <2> QED BY <1>2, <2>1, <2>2, <2>3, <2>4 DEF ExecInv
<1>5. CASE fs # << >>
  <2> DEFINE up == Len(fs)
             old == fs[up]
             added == [logs |-> old.sub.logs \cup sub.logs, refunds |-> old.sub.refunds + sub.refunds,
                      suicides |-> old.sub.suicides \cup sub.suicides]
             f == [self |-> old.self, gas |-> old.gas + gas, savepoint |-> old.savepoint,
                   creation |-> old.creation, sub |-> added]
             gs == [fs EXCEPT ![up] = f]
  <2>1. up \in DOMAIN fs /\ isFrame(old)
    BY <1>5, StackIs, TopIs
  <2>2. /\ old = [self |-> old.self, gas |-> old.gas, savepoint |-> old.savepoint, creation |-> old.creation, sub |-> old.sub]
        /\ old.self \in accounts \ Externals /\ old.gas \in Int /\ isState(old.savepoint)
        /\ old.sub = [logs |-> old.sub.logs, refunds |-> old.sub.refunds, suicides |-> old.sub.suicides]
        /\ old.sub.refunds \in Int /\ old.sub.suicides \in SUBSET (accounts \ Externals)
        /\ sub.suicides \in SUBSET (accounts \ Externals)
    <3> HIDE DEF old
    <3>1. isSub(old.sub)
      BY <2>1, FrameIs
    <3> QED BY <2>1, <3>1, FrameIs, SubIs
  <2>3. isSub(added)
    <3>1. old.sub.refunds + sub.refunds \in Int /\ old.sub.suicides \cup sub.suicides \in SUBSET (accounts \ Externals)
      <4> HIDE DEF old
      <4> QED BY <1>3, <2>2
    <3> HIDE DEF old
    <3> QED BY <3>1, SubOf
  <2>4. isFrame(f) /\ f.savepoint = old.savepoint /\ f.sub = added
    <3> HIDE DEF added, old
    <3>1. old.gas + gas \in Int
      BY <2>2
    <3> QED BY <2>2, <2>3, <3>1, FrameOf
  <2>5. frames' = gs /\ outcome' = Running
    <3> DEFINE new == [old EXCEPT !.gas = @ + gas, !.sub.logs = @ \cup sub.logs,
                                  !.sub.refunds = @ + sub.refunds, !.sub.suicides = @ \cup sub.suicides]
    <3>1. frames' = [fs EXCEPT ![up] = new] /\ outcome' = outcome
      BY <1>5, <2>1 DEF done
    <3>2. new = f
      <4> DEFINE g == old.gas + gas
                 l == old.sub.logs \cup sub.logs
                 n == old.sub.refunds + sub.refunds
                 d == old.sub.suicides \cup sub.suicides
      <4>1. old \in [self : {old.self}, gas : {old.gas}, savepoint : {old.savepoint}, creation : {old.creation},
                     sub : [logs : {old.sub.logs}, refunds : {old.sub.refunds}, suicides : {old.sub.suicides}]]
        <5> HIDE DEF old
        <5> QED BY <2>2
      <4>2. new = [old EXCEPT !.gas = g, !.sub.logs = l, !.sub.refunds = n, !.sub.suicides = d]
        OBVIOUS
      <4> HIDE DEF old, g, l, n, d, new
      <4>3. new \in [self : {old.self}, gas : {g}, savepoint : {old.savepoint}, creation : {old.creation},
                     sub : [logs : {l}, refunds : {n}, suicides : {d}]]
        BY <4>1, <4>2
      <4>4. new = [self |-> old.self, gas |-> g, savepoint |-> old.savepoint, creation |-> old.creation,
                   sub |-> [logs |-> l, refunds |-> n, suicides |-> d]]
        BY <4>3
      <4> QED BY <4>4 DEF f, added, g, l, n, d
    <3> HIDE DEF new, f
    <3> QED BY <3>1, <3>2
  <2> HIDE DEF f, added
  <2>6. /\ Stacked(gs, past, owing(t)) /\ Len(gs) = Len(fs)
        /\ logsOf(gs, Len(gs)) = logsOf(fs, up - 1) \union f.sub.logs
        /\ refundsOf(gs, Len(gs)) = refundsOf(fs, up - 1) + f.sub.refunds
    BY <1>5, <2>4, ReplaceTop
  <2> HIDE DEF gs
  <2>7. /\ logsOf(fs, up) = logsOf(fs, up - 1) \union old.sub.logs
        /\ refundsOf(fs, up) = refundsOf(fs, up - 1) + old.sub.refunds
        /\ refundsOf(fs, up - 1) \in Int
    BY <1>5, TopIs
  <2>8. s.writes = logsOf(gs, Len(gs)) /\ s.cleared = refundsOf(gs, Len(gs))
    <3>1. f.sub.logs = old.sub.logs \cup sub.logs /\ f.sub.refunds = old.sub.refunds + sub.refunds
      BY <2>4 DEF added
    <3> HIDE DEF up, old
    <3>2. s.writes = logsOf(gs, Len(gs))
      BY <2>6, <2>7, <3>1 DEF up
    <3>3. s.cleared = refundsOf(gs, Len(gs))
      BY <1>3, <2>2, <2>6, <2>7, <3>1 DEF up
    <3> QED BY <3>2, <3>3
  <2>9. Stacked(frames', executed', aside')
    BY <1>1, <2>5, <2>6
  <2>10. outcome' \in [gas : Int, sub : {outcome'.sub}] /\ isSub(outcome'.sub)
         /\ outcome'.sub.logs = {} /\ outcome'.sub.refunds = 0
    BY <2>5, NoSubIs DEF Running
  <2>11. refundsOf(gs, Len(gs)) \in Int
    <3>1. \A i \in 1..Len(gs) : gs[i].sub.refunds \in Int /\ gs[i].sub = gs[i].sub
      BY <2>6, StackIs
    <3>2. Len(gs) \in Nat
      BY <2>6, StackIs
    <3> QED BY <3>1, <3>2, PrefixSame
  <2>12. /\ st'.writes = logsOf(frames', Len(frames')) \union outcome'.sub.logs
         /\ st'.cleared = refundsOf(frames', Len(frames')) + outcome'.sub.refunds
    BY <2>5, <2>8, <2>10, <2>11
  <2> QED BY <1>2, <2>5, <2>9, <2>10, <2>12 DEF ExecInv
<1> QED BY <1>4, <1>5

\* The frame of a VM is pushed.
LEMMA PushKeeps ==
  ASSUME NEW s, NEW fs, NEW past \in SUBSET Transactions, NEW t \in Transactions,
         burnt \in Int /\ unbought \in Int, NEW savepoint, Reached(savepoint, fs, past, owing(t)),
         Sound(s, past, owing(t)), s.writes = savepoint.writes, s.cleared = savepoint.cleared,
         NEW self \in accounts \ Externals, NEW gas \in Int, NEW creation,
         frames' = Append(fs, Frame(self, gas, savepoint, creation)),
         outcome = Running, outcome' = outcome, st' = s, m_t' = t, executed' = past, burnt' = burnt /\ unbought' = unbought
  PROVE  ExecInv'
<1> DEFINE f == Frame(self, gas, savepoint, creation)
           gs == Append(fs, f)
<1>1. t # NoTx /\ aside' = owing(t)
  BY TransactionIs DEF aside, owing
<1>2. /\ m_t' \in Transactions \cup {NoTx} /\ executed' \subseteq Transactions /\ burnt' \in Int /\ unbought' \in Int
      /\ m_t' # NoTx
      /\ Sound(st', executed', aside')
  BY <1>1
<1>3. isFrame(f) /\ f.savepoint = savepoint /\ f.sub = NoSub
  <2>1. isState(savepoint)
    BY DEF Reached, Sound
  <2> QED BY <2>1, NoSubIs, FrameOf DEF Frame
<1> HIDE DEF f
<1>4. /\ Sound(savepoint, past, owing(t)) /\ Stacked(fs, past, owing(t))
      /\ savepoint.writes = logsOf(fs, Len(fs)) /\ savepoint.cleared = refundsOf(fs, Len(fs))
  BY DEF Reached
<1>5. /\ Stacked(gs, past, owing(t)) /\ gs # << >>
      /\ logsOf(gs, Len(gs)) = logsOf(fs, Len(fs)) \union f.sub.logs
      /\ refundsOf(gs, Len(gs)) = refundsOf(fs, Len(fs)) + f.sub.refunds
  BY <1>3, <1>4, AppendIs
<1>6. frames' = gs
  BY DEF f
<1> HIDE DEF gs
<1>7. s.cleared \in Int
  BY StateIs DEF Sound
<1>8. outcome' \in [gas : Int, sub : {outcome'.sub}] /\ isSub(outcome'.sub)
      /\ outcome'.sub.logs = {} /\ outcome'.sub.refunds = 0
  BY NoSubIs DEF Running
<1>9. /\ st'.writes = logsOf(frames', Len(frames')) \union outcome'.sub.logs
      /\ st'.cleared = refundsOf(frames', Len(frames')) + outcome'.sub.refunds
  <2>1. f.sub.logs = {} /\ f.sub.refunds = 0
    BY <1>3, NoSubIs
  <2>2. s.writes = logsOf(gs, Len(gs))
    BY <1>4, <1>5, <2>1
  <2>3. s.cleared = refundsOf(gs, Len(gs))
    BY <1>4, <1>5, <1>7, <2>1
  <2> QED BY <1>6, <1>7, <1>8, <2>2, <2>3
<1>10. Stacked(frames', executed', aside')
  BY <1>1, <1>5, <1>6
<1> QED BY <1>2, <1>8, <1>9, <1>10 DEF ExecInv

LEMMA ReachedOn ==
  ASSUME NEW s, NEW r, NEW fs, NEW past \in SUBSET Transactions, NEW owed, Reached(s, fs, past, owed), Keeps(s, r, 0)
  PROVE  Reached(r, fs, past, owed)
BY KeepsSound DEF Reached

\* A call, from a state that has been entered.
LEMMA CallKeeps ==
  ASSUME NEW s, NEW fs, NEW past \in SUBSET Transactions, NEW t \in Transactions,
         burnt \in Int /\ unbought \in Int, st.code \in SUBSET (accounts \ Externals),
         NEW sender \in accounts, NEW to \in accounts, NEW value \in Int, NEW gas \in Int,
         Reached(entered(s, fs = << >>, sender).state, fs, past, owing(t)),
         call(s, fs, sender, to, value, gas),
         outcome = Running, m_t' = t, executed' = past, burnt' = burnt /\ unbought' = unbought
  PROVE  ExecInv'
<1> DEFINE e == entered(s, fs = << >>, sender)
           in == e.state
           paid == transferBalance(in, sender, to, value)
<1>1. Reached(in, fs, past, owing(t)) /\ e.savepoint = in
  BY DEF entered
<1>2. isState(in)
  BY <1>1 DEF Reached, Sound
<1>3. Keeps(in, paid, 0)
  BY <1>2, TransferIs
<1>4. Reached(paid, fs, past, owing(t))
  BY <1>1, <1>3, ReachedOn
<1>5. precompiledGas \in Nat
  BY ExecutiveAssumption
<1>6. \/ done(fs, 0, NoSub) /\ st' = in
      \/ done(fs, gas - precompiledGas, NoSub) /\ st' = paid
      \/ done(fs, gas, NoSub) /\ st' = paid
      \/ to \in st.code /\ frames' = Append(fs, Frame(to, gas, e.savepoint, FALSE)) /\ st' = paid /\ UNCHANGED outcome
  <2> DEFINE D(g) == done(fs, g, NoSub)
             F == Frame(to, gas, e.savepoint, FALSE)
  <2>1. CASE to \in Precompiled /\ gas < precompiledGas /\ D(0) /\ st' = in
    BY <2>1
  <2>2. CASE to \in Precompiled /\ gas >= precompiledGas /\ D(gas - precompiledGas) /\ st' = paid
    BY <2>2
  <2>3. CASE to \in st.code /\ frames' = Append(fs, F) /\ st' = paid /\ UNCHANGED outcome
    BY <2>3
  <2>4. CASE D(gas) /\ st' = paid
    BY <2>4
  <2> QED BY <2>1, <2>2, <2>3, <2>4 DEF call
<1> HIDE DEF e, in, paid
<1>7. isSub(NoSub) /\ NoSub.logs = {} /\ NoSub.refunds = 0
  BY NoSubIs
<1>8. ASSUME NEW r, Reached(r, fs, past, owing(t)), NEW g \in Int, done(fs, g, NoSub), st' = r
      PROVE  ExecInv'
  <2>1. /\ Sound(r, past, owing(t)) /\ Stacked(fs, past, owing(t))
        /\ r.writes = logsOf(fs, Len(fs)) \union NoSub.logs
        /\ r.cleared = refundsOf(fs, Len(fs)) + NoSub.refunds
    <3>1. r.cleared \in Int
      BY <1>8, StateIs DEF Reached, Sound
    <3> QED BY <1>7, <1>8, <3>1 DEF Reached
  <2> QED BY <1>7, <1>8, <2>1, DoneKeeps
<1>9. CASE done(fs, 0, NoSub) /\ st' = in
  <2>1. 0 \in Int
    OBVIOUS
  <2> QED BY <1>1, <1>8, <1>9, <2>1
<1>10. CASE done(fs, gas - precompiledGas, NoSub) /\ st' = paid
  <2>1. gas - precompiledGas \in Int
    BY <1>5
  <2> QED BY <1>4, <1>8, <1>10, <2>1
<1>11. CASE done(fs, gas, NoSub) /\ st' = paid
  BY <1>4, <1>8, <1>11
<1>12. CASE to \in st.code /\ frames' = Append(fs, Frame(to, gas, e.savepoint, FALSE)) /\ st' = paid /\ UNCHANGED outcome
  <2>1. to \in accounts \ Externals
    BY <1>12
  <2>2. Sound(paid, past, owing(t)) /\ paid.writes = in.writes /\ paid.cleared = in.cleared
    BY <1>1, <1>3, KeepsSound DEF Reached
  <2>3. frames' = Append(fs, Frame(to, gas, in, FALSE)) /\ outcome' = outcome
    BY <1>1, <1>12
  <2> QED BY <1>1, <1>12, <2>1, <2>2, <2>3, PushKeeps
<1> QED BY <1>6, <1>9, <1>10, <1>11, <1>12

\* A creation, from a state in which the creator's nonce has been raised.
LEMMA CreateKeeps ==
  ASSUME NEW s, isState(s), NEW fs, NEW past \in SUBSET Transactions, NEW t \in Transactions,
         burnt \in Int /\ unbought \in Int,
         NEW sender \in creators, s.nonce[sender] <= MaxNonce, NEW endowment \in Int, NEW gas \in Int, NEW init,
         Reached(incNonce(s, sender), fs, past, owing(t)),
         create(s, fs, sender, endowment, gas, init),
         outcome = Running, m_t' = t, executed' = past, burnt' = burnt /\ unbought' = unbought
  PROVE  ExecInv'
<1> DEFINE savepoint == incNonce(s, sender)
           new == newAddress(s, sender)
           moved == transferBalance(savepoint, sender, new, endowment)
           made == incNonce(moved, new)
           rest == [made EXCEPT !.code = @ \ {new}]
<1>1. new \in accounts \ Externals
  <2>1. s.nonce[sender] \in 0..MaxNonce
    <3>1. s.nonce[sender] \in Nat
      BY StateIs, ExternalsAre
    <3> QED BY <3>1, ExecutiveAssumption
  <2>2. new \in newAddresses
    BY <2>1 DEF newAddress, newAddresses
  <2> QED BY <2>2, ExternalsAre
<1>2. sender \in accounts /\ new \in accounts
  BY <1>1, ExternalsAre
<1>3. Reached(savepoint, fs, past, owing(t)) /\ isState(savepoint)
  BY DEF Reached, Sound
<1>4. \/ frames' = Append(fs, Frame(new, gas, savepoint, TRUE)) /\ st' = made /\ UNCHANGED outcome
      \/ done(fs, gas, NoSub) /\ st' = rest
  BY DEF create
<1> HIDE DEF savepoint, new
<1>5. Keeps(savepoint, moved, 0)
  BY <1>2, <1>3, TransferIs
<1>6. Reached(moved, fs, past, owing(t)) /\ isState(moved)
  <2> HIDE DEF moved
  <2> QED BY <1>3, <1>5, ReachedOn DEF Keeps
<1> HIDE DEF moved
<1>7. Keeps(moved, made, 0)
  BY <1>2, <1>6, IncNonceIs
<1>8. Reached(made, fs, past, owing(t)) /\ isState(made) /\ made.writes = moved.writes /\ made.cleared = moved.cleared
  <2> HIDE DEF made
  <2> QED BY <1>6, <1>7, ReachedOn DEF Keeps
<1> HIDE DEF made
<1>9. CASE frames' = Append(fs, Frame(new, gas, savepoint, TRUE)) /\ st' = made /\ UNCHANGED outcome
  <2>1. made.writes = savepoint.writes /\ made.cleared = savepoint.cleared /\ Sound(made, past, owing(t))
    BY <1>5, <1>8 DEF Keeps, Reached
  <2> QED BY <1>1, <1>3, <1>9, <2>1, PushKeeps
<1>10. CASE done(fs, gas, NoSub) /\ st' = rest
  <2>1. made.code \ {new} \in SUBSET (accounts \ Externals)
    BY <1>8, StateIs
  <2>2. Keeps(made, rest, 0)
    BY <1>8, <2>1, CodeIs
  <2> HIDE DEF rest
  <2>3. Reached(rest, fs, past, owing(t))
    BY <1>8, <2>2, ReachedOn
  <2>4. isSub(NoSub) /\ NoSub.logs = {} /\ NoSub.refunds = 0
    BY NoSubIs
  <2>5. rest.cleared \in Int
    BY <2>2, StateIs DEF Keeps
  <2>6. /\ Sound(rest, past, owing(t)) /\ Stacked(fs, past, owing(t))
        /\ rest.writes = logsOf(fs, Len(fs)) \union NoSub.logs
        /\ rest.cleared = refundsOf(fs, Len(fs)) + NoSub.refunds
    BY <2>3, <2>4, <2>5 DEF Reached
  <2> QED BY <1>10, <2>4, <2>6, DoneKeeps
<1> QED BY <1>4, <1>9, <1>10

\* The nonce of a transaction's sender is raised: the transaction is past.
LEMMA NonceUsedUp ==
  ASSUME NEW s, NEW past \in SUBSET Transactions, NEW owed, Reached(s, << >>, past, owed),
         NEW t \in Transactions, signed(t) => t.nonce = s.nonce[t.from]
  PROVE  Reached(incNonce(s, t.from), << >>, past \union {t}, owed)
<1> DEFINE r == incNonce(s, t.from)
<1>1. t.from \in accounts /\ isState(s) /\ t.nonce \in Nat
  BY TransactionIs DEF Reached, Sound
<1>2. Keeps(s, r, 0) /\ (t.from # MaxAddress => r.nonce[t.from] = s.nonce[t.from] + 1)
  BY <1>1, IncNonceIs
<1> HIDE DEF r
<1>3. Reached(r, << >>, past, owed)
  BY <1>2, ReachedOn
<1>4. signed(t) => r.nonce[t.from] > t.nonce
  <2> SUFFICES ASSUME signed(t)
               PROVE  r.nonce[t.from] > t.nonce
    OBVIOUS
  <2>1. r.nonce[t.from] = t.nonce + 1
    BY <1>2 DEF signed
  <2> QED BY <1>1, <2>1
<1>5. Sound(r, past \union {t}, owed)
  BY <1>3, <1>4 DEF Reached, Sound
<1>6. Stacked(<< >>, past \union {t}, owed)
  BY <1>3 DEF Reached, Stacked
<1> QED BY <1>3, <1>5, <1>6 DEF Reached, r

LEMMA NoFrames ==
  ASSUME NEW past, NEW owed
  PROVE  Stacked(<< >>, past, owed) /\ Len(<< >>) = 0 /\ logsOf(<< >>, 0) = {} /\ refundsOf(<< >>, 0) = 0
<1>1. 1..0 = {}
  OBVIOUS
<1>2. logsOf(<< >>, 0) = {}
  BY <1>1 DEF logsOf
<1>3. refundsOf(<< >>, 0) = 0
  <2> DEFINE w == [i \in 1..0 |-> 0]
  <2>1. \A i \in 1..0 : w[i] \in Int /\ << >>[i].sub.refunds = w[i]
    BY <1>1
  <2> HIDE DEF w
  <2>2. 0 \in Nat
    OBVIOUS
  <2>3. refundsOf(<< >>, 0) = sum(1..0, w)
    BY <2>1, <2>2, RefundsAre
  <2> QED BY <1>1, <2>3, SumOfNone
<1>4. Stacked(<< >>, past, owed)
  BY DEF Stacked
<1> QED BY <1>2, <1>3, <1>4

LEMMA InvInitial == ExecInit => ExecInv
<1> SUFFICES ASSUME ExecInit
             PROVE  ExecInv
  OBVIOUS
<1> DEFINE D == DOMAIN InitialBalance
           b == [a \in accounts |-> IF a \in D THEN InitialBalance[a] ELSE 0]
           n == [a \in accounts |-> 0]
           s == [balance |-> b, nonce |-> n, code |-> Contracts, writes |-> {}, cleared |-> 0]
<1>1. InitialBalance \in [D -> Nat] /\ D \subseteq accounts /\ D \in SUBSET accounts
  BY ExecutiveAssumption
<1>2. \A a \in D : b[a] = InitialBalance[a] /\ b[a] \in Int
  BY <1>1
<1>3. \A a \in accounts \ D : b[a] = 0
  OBVIOUS
<1>4. \A a \in accounts : b[a] \in Int
  <2> SUFFICES ASSUME NEW a \in accounts
               PROVE  b[a] \in Int
    OBVIOUS
  <2>1. CASE a \in D
    BY <1>2, <2>1
  <2>2. CASE a \notin D
    <3>1. b[a] = 0
      BY <1>3, <2>2
    <3> QED BY ONLY <3>1
  <2> QED BY <2>1, <2>2
<1>5. b \in [accounts -> Int]
  BY <1>4
<1>6. n \in [accounts -> Nat]
  OBVIOUS
<1>7. st = s
  BY DEF ExecInit
<1> HIDE DEF b, n, D
<1>8. isState(s)
  <2>1. Contracts \in SUBSET (accounts \ Externals)
    BY ExecutiveAssumption DEF accounts, creators
  <2>2. 0 \in Int
    OBVIOUS
  <2> QED BY <1>5, <1>6, <2>1, <2>2, StateOf
<1>9. total(b) = total(InitialBalance) /\ total(b) \in Int
  <2>1. IsFiniteSet(D) /\ IsFiniteSet(accounts \ D)
    BY <1>1, AccountsAreFinite, FS_Subset, FS_Difference
  <2>2. sum(accounts, b) = sum(D, b) + sum(accounts \ D, b)
    BY <1>1, <1>4, AccountsAreFinite, SumSplit
  <2>3. sum(accounts \ D, b) = 0
    BY <1>3, <2>1, SumOfNothings
  <2>4. sum(D, b) \in Int /\ sum(D, InitialBalance) = sum(D, b)
    <3>1. \A a \in D : b[a] \in Int /\ InitialBalance[a] = b[a]
      BY <1>2
    <3> QED BY <2>1, <3>1, SumSame
  <2>5. total(b) = sum(accounts, b)
    BY <1>5, TotalIs
  <2>6. total(InitialBalance) = sum(D, InitialBalance)
    <3>1. InitialBalance \in [D -> Int]
      BY <1>1
    <3> QED BY <3>1, TotalIs
  <2> QED BY <2>2, <2>3, <2>4, <2>5, <2>6
<1>10. m_t = NoTx /\ frames = << >> /\ outcome = Running /\ executed = {} /\ burnt = 0 /\ unbought = 0
  BY DEF ExecInit
<1>11. aside = 0
  BY <1>10 DEF aside
<1>12. Sound(st, executed, aside)
  <2>1. st.balance = b
    BY <1>7
  <2>2. total(st.balance) + aside = total(InitialBalance)
    BY <1>9, <1>11, <2>1
  <2> QED BY <1>7, <1>8, <1>10, <2>2 DEF Sound
<1>13. outcome \in [gas : Int, sub : {outcome.sub}] /\ isSub(outcome.sub)
  BY <1>10, NoSubIs DEF Running
<1> QED BY <1>10, <1>12, <1>13, NoFrames DEF ExecInv

\* While a VM runs
LEMMA Underway ==
  ASSUME ExecInv, Active
  PROVE  /\ m_t \in Transactions /\ executed \in SUBSET Transactions /\ burnt \in Int /\ unbought \in Int
         /\ outcome = Running /\ aside = owing(m_t)
         /\ Reached(st, frames, executed, owing(m_t)) /\ isState(st) /\ frames # << >>
<1>1. m_t \in Transactions /\ m_t # NoTx /\ executed \in SUBSET Transactions /\ burnt \in Int /\ unbought \in Int
      /\ outcome = Running /\ frames # << >>
  BY DEF ExecInv, Active
<1>2. aside = owing(m_t)
  BY <1>1 DEF aside, owing
<1>3. Sound(st, executed, owing(m_t)) /\ Stacked(frames, executed, owing(m_t)) /\ isState(st)
  BY <1>2 DEF ExecInv, Sound
<1>4. st.writes = logsOf(frames, Len(frames)) /\ st.cleared = refundsOf(frames, Len(frames))
  <2>1. /\ st.writes = logsOf(frames, Len(frames)) \union outcome.sub.logs
        /\ st.cleared = refundsOf(frames, Len(frames)) + outcome.sub.refunds
    BY <1>1 DEF ExecInv
  <2>2. outcome.sub.logs = {} /\ outcome.sub.refunds = 0
    BY <1>1, NoSubIs DEF Running
  <2>3. refundsOf(frames, Len(frames)) \in Int
    <3>1. Len(frames) \in Nat /\ \A i \in 1..Len(frames) : frames[i].sub.refunds \in Int /\ frames[i].sub = frames[i].sub
      BY <1>3, StackIs
    <3> QED BY <3>1, PrefixSame
  <2> QED BY <2>1, <2>2, <2>3
<1> QED BY <1>1, <1>2, <1>3, <1>4 DEF Reached

\* The VM pays for what it does.
LEMMA SpendIs ==
  ASSUME ExecInv, Active, NEW g \in Int
  PROVE  Reached(st, spend(g), executed, owing(m_t)) /\ spend(g) # << >>
<1> DEFINE n == Len(frames)
           f == [self |-> top.self, gas |-> top.gas - g, savepoint |-> top.savepoint,
                 creation |-> top.creation, sub |-> top.sub]
           gs == [frames EXCEPT ![n] = f]
<1>1. Reached(st, frames, executed, owing(m_t)) /\ frames # << >>
  BY Underway
<1>2. Stacked(frames, executed, owing(m_t))
  BY <1>1 DEF Reached
<1>3. n \in DOMAIN frames /\ isFrame(top) /\ top = frames[n]
  BY <1>1, <1>2, StackIs, TopIs DEF top, depth
<1>4. /\ top = [self |-> top.self, gas |-> top.gas, savepoint |-> top.savepoint, creation |-> top.creation, sub |-> top.sub]
      /\ top.self \in accounts \ Externals /\ top.gas \in Int /\ isState(top.savepoint) /\ isSub(top.sub)
  BY <1>3, FrameIs
<1>5. isFrame(f) /\ f.savepoint = frames[n].savepoint /\ f.sub = top.sub
  BY <1>3, <1>4, FrameOf
<1>6. spend(g) = gs
  <2>1. spend(g) = [frames EXCEPT ![n] = [frames[n] EXCEPT !.gas = @ - g]]
    BY <1>3 DEF spend, depth
  <2>2. [top EXCEPT !.gas = @ - g] = f
    BY <1>4
  <2> HIDE DEF f
  <2> QED BY <1>3, <2>1, <2>2
<1> HIDE DEF f
<1>7. /\ Stacked(gs, executed, owing(m_t)) /\ Len(gs) = n
      /\ logsOf(gs, Len(gs)) = logsOf(frames, n - 1) \union f.sub.logs
      /\ refundsOf(gs, Len(gs)) = refundsOf(frames, n - 1) + f.sub.refunds
  BY <1>1, <1>2, <1>5, ReplaceTop
<1>8. /\ logsOf(frames, n) = logsOf(frames, n - 1) \union frames[n].sub.logs
      /\ refundsOf(frames, n) = refundsOf(frames, n - 1) + frames[n].sub.refunds
      /\ n - 1 \in Nat
  BY <1>1, <1>2, TopIs
<1> HIDE DEF gs, n
<1>9. logsOf(gs, Len(gs)) = logsOf(frames, n) /\ refundsOf(gs, Len(gs)) = refundsOf(frames, n)
  BY <1>3, <1>5, <1>7, <1>8
<1>10. gs # << >>
  <2>1. n # 0
    BY <1>1, <1>2, StackIs DEF n
  <2> QED BY <1>7, <2>1
<1> QED BY <1>1, <1>6, <1>7, <1>9, <1>10 DEF Reached, n

\* The innermost frame ends with its effects.
LEMMA EndedKeeps ==
  ASSUME ExecInv, Active, NEW r, Keeps(st, r, 0), NEW gas \in Int,
         NEW sub, isSub(sub), sub.logs = top.sub.logs, sub.refunds = top.sub.refunds,
         done(below, gas, sub), st' = r, m_t' = m_t, executed' = executed, burnt' = burnt /\ unbought' = unbought
  PROVE  ExecInv'
<1> DEFINE n == Len(frames)
           gs == Front(frames)
<1>1. /\ m_t \in Transactions /\ executed \in SUBSET Transactions /\ burnt \in Int /\ unbought \in Int
      /\ outcome = Running
      /\ Reached(st, frames, executed, owing(m_t)) /\ frames # << >>
  BY Underway
<1>2. Reached(r, frames, executed, owing(m_t))
  BY <1>1, ReachedOn
<1>3. Sound(r, executed, owing(m_t)) /\ Stacked(frames, executed, owing(m_t))
      /\ r.writes = logsOf(frames, n) /\ r.cleared = refundsOf(frames, n)
  BY <1>2 DEF Reached
<1>4. /\ Stacked(gs, executed, owing(m_t))
      /\ logsOf(gs, Len(gs)) = logsOf(frames, n - 1)
      /\ refundsOf(gs, Len(gs)) = refundsOf(frames, n - 1)
  BY <1>1, <1>3, FrontIs
<1>5. /\ logsOf(frames, n) = logsOf(frames, n - 1) \union frames[n].sub.logs
      /\ refundsOf(frames, n) = refundsOf(frames, n - 1) + frames[n].sub.refunds
  BY <1>1, <1>3, TopIs
<1>6. top = frames[n] /\ below = gs
  BY DEF top, depth, below
<1> HIDE DEF n, gs
<1>7. r.writes = logsOf(gs, Len(gs)) \union sub.logs /\ r.cleared = refundsOf(gs, Len(gs)) + sub.refunds
  BY <1>3, <1>4, <1>5, <1>6
<1> QED BY <1>1, <1>3, <1>4, <1>6, <1>7, DoneKeeps

\* The innermost frame fails: its savepoint has the effects of the others.
LEMMA FailedKeeps ==
  ASSUME ExecInv, Active, NEW gas \in Int, failed(gas), m_t' = m_t, executed' = executed, burnt' = burnt /\ unbought' = unbought
  PROVE  ExecInv'
<1> DEFINE n == Len(frames)
           gs == Front(frames)
           r == top.savepoint
           f == [top EXCEPT !.sub = NoSub]
<1>1. /\ m_t \in Transactions /\ executed \in SUBSET Transactions /\ burnt \in Int /\ unbought \in Int
      /\ outcome = Running
      /\ Reached(st, frames, executed, owing(m_t)) /\ frames # << >>
  BY Underway
<1>2. Stacked(frames, executed, owing(m_t))
  BY <1>1 DEF Reached
<1>3. /\ Stacked(gs, executed, owing(m_t))
      /\ logsOf(gs, Len(gs)) = logsOf(frames, n - 1)
      /\ refundsOf(gs, Len(gs)) = refundsOf(frames, n - 1)
  BY <1>1, <1>2, FrontIs
<1>4. top = frames[n] /\ below = gs
  BY DEF top, depth, below
<1>5. /\ isFrame(frames[n]) /\ Sound(r, executed, owing(m_t))
      /\ r.writes = logsOf(frames, n - 1) /\ r.cleared = refundsOf(frames, n - 1)
  BY <1>1, <1>2, <1>4, TopIs
<1>6. f.sub = NoSub
  <2>1. top = [self |-> top.self, gas |-> top.gas, savepoint |-> top.savepoint, creation |-> top.creation, sub |-> top.sub]
    BY <1>4, <1>5, FrameIs
  <2> QED BY <2>1
<1>7. done(below, gas, NoSub) /\ st' = r
  <2>1. failed(gas) = ended(f, r, gas)
    BY DEF failed, revert
  <2> HIDE DEF f
  <2> QED BY <1>6, <2>1 DEF ended
<1>8. isSub(NoSub) /\ NoSub.logs = {} /\ NoSub.refunds = 0
  BY NoSubIs
<1> HIDE DEF n, gs, r
<1>9. r.cleared \in Int
  BY <1>5, StateIs DEF Sound
<1>10. r.writes = logsOf(gs, Len(gs)) \union NoSub.logs /\ r.cleared = refundsOf(gs, Len(gs)) + NoSub.refunds
  BY <1>3, <1>5, <1>8, <1>9
<1> QED BY <1>1, <1>3, <1>4, <1>5, <1>7, <1>8, <1>10, DoneKeeps

LEMMA ReturnKeeps == ExecInv /\ VMReturn => ExecInv'
<1> SUFFICES ASSUME ExecInv, VMReturn
             PROVE  ExecInv'
  OBVIOUS
<1>1. Active /\ done(below, top.gas, top.sub) /\ st' = st /\ m_t' = m_t /\ executed' = executed /\ burnt' = burnt /\ unbought' = unbought
  BY DEF VMReturn, ended
<1>2. isFrame(top) /\ Keeps(st, st, 0)
  <2>1. isState(st) /\ Stacked(frames, executed, owing(m_t)) /\ frames # << >>
    BY <1>1, Underway DEF Reached
  <2>2. isFrame(top)
    BY <2>1, TopIs DEF top, depth
  <2>3. st.code \in SUBSET (accounts \ Externals) /\ [st EXCEPT !.code = st.code] = st
    BY <2>1, StateIs
  <2> QED BY <2>1, <2>2, <2>3, CodeIs
<1>3. isSub(top.sub) /\ top.gas \in Int
  BY <1>2, FrameIs
<1> QED BY <1>1, <1>2, <1>3, EndedKeeps

LEMMA ExceptionKeeps == ExecInv /\ VMException => ExecInv'
<1> SUFFICES ASSUME ExecInv, VMException
             PROVE  ExecInv'
  OBVIOUS
<1>1. Active /\ failed(0) /\ m_t' = m_t /\ executed' = executed /\ burnt' = burnt /\ unbought' = unbought /\ 0 \in Int
  BY DEF VMException
<1> QED BY <1>1, FailedKeeps

LEMMA TopFrame ==
  ASSUME ExecInv, Active
  PROVE  isFrame(top) /\ top.self \in accounts \ Externals /\ top.gas \in Int /\ isSub(top.sub)
<1>1. Stacked(frames, executed, owing(m_t)) /\ frames # << >>
  BY Underway DEF Reached
<1>2. isFrame(top)
  BY <1>1, TopIs DEF top, depth
<1> QED BY <1>2, FrameIs

LEMMA RevertKeeps == ExecInv /\ VMRevert => ExecInv'
<1> SUFFICES ASSUME ExecInv, VMRevert
             PROVE  ExecInv'
  OBVIOUS
<1>1. Active /\ failed(top.gas) /\ m_t' = m_t /\ executed' = executed /\ burnt' = burnt /\ unbought' = unbought
  BY DEF VMRevert
<1> QED BY <1>1, TopFrame, FailedKeeps

LEMMA DepositKeeps ==
  ASSUME ExecInv, NEW size \in {0, maxCodeSize, maxCodeSize + 1}, VMDeposit(size)
  PROVE  ExecInv'
<1> DEFINE cost == size * createDataGas
           kept == [st EXCEPT !.code = IF size > 0 THEN @ \cup {top.self} ELSE @ \ {top.self}]
           dropped == [st EXCEPT !.code = @ \ {top.self}]
<1>1. Active /\ m_t' = m_t /\ executed' = executed /\ burnt' = burnt /\ unbought' = unbought
  BY DEF VMDeposit
<1>2. \/ failed(0)
      \/ ended(top, kept, top.gas - cost)
      \/ ended(top, dropped, top.gas)
  <2> DEFINE F == failed(0)
             K == ended(top, kept, top.gas - cost)
             L == ended(top, dropped, top.gas)
  <2>1. CASE size > maxCodeSize /\ F
    BY <2>1
  <2>2. CASE size <= maxCodeSize /\ cost <= top.gas /\ K
    BY <2>2
  <2>3. CASE size <= maxCodeSize /\ cost > top.gas /\ (IF exceptionalFailedCodeDeposit THEN F ELSE L)
    BY <2>3
  <2>4. \/ size > maxCodeSize /\ F
        \/ size <= maxCodeSize /\ cost <= top.gas /\ K
        \/ size <= maxCodeSize /\ cost > top.gas /\ (IF exceptionalFailedCodeDeposit THEN F ELSE L)
    <3>1. size \in Int /\ maxCodeSize \in Int /\ cost \in Int /\ top.gas \in Int
      <4>1. maxCodeSize \in Nat /\ createDataGas \in Nat
        BY ExecutiveAssumption
      <4>2. size \in Int
        BY <4>1
      <4> QED BY <1>1, <4>1, <4>2, TopFrame
    <3> HIDE DEF cost, F, K, L
    <3>2. size > maxCodeSize \/ (size <= maxCodeSize /\ cost <= top.gas) \/ (size <= maxCodeSize /\ cost > top.gas)
      BY <3>1
    <3>3. CASE  /\ size > maxCodeSize => F
                /\ (size <= maxCodeSize /\ cost <= top.gas) => K
                /\ (size <= maxCodeSize /\ cost > top.gas) => (IF exceptionalFailedCodeDeposit THEN F ELSE L)
      BY <3>2, <3>3
    <3> QED BY <3>2, <3>3, <3>1 DEF VMDeposit, F, K, L, cost
  <2> QED BY <2>1, <2>2, <2>3, <2>4
<1>3. isState(st) /\ top.self \in accounts \ Externals /\ top.gas \in Int /\ isSub(top.sub)
  BY <1>1, Underway, TopFrame
<1>4. CASE failed(0)
  <2>1. 0 \in Int
    OBVIOUS
  <2> QED BY <1>1, <1>4, <2>1, FailedKeeps
<1>5. CASE ended(top, kept, top.gas - cost)
  <2> DEFINE c == IF size > 0 THEN st.code \cup {top.self} ELSE st.code \ {top.self}
  <2>1. kept = [st EXCEPT !.code = c]
    OBVIOUS
  <2>2. c \in SUBSET (accounts \ Externals)
    BY <1>3, StateIs
  <2> HIDE DEF c
  <2>3. Keeps(st, kept, 0)
    BY <1>3, <2>1, <2>2, CodeIs
  <2>4. top.gas - cost \in Int
    <3>1. maxCodeSize \in Nat /\ createDataGas \in Nat
      BY ExecutiveAssumption
    <3>2. size \in Int
      BY <3>1
    <3>3. cost \in Int
      BY <3>1, <3>2
    <3> HIDE DEF cost
    <3> QED BY <1>3, <3>3
  <2> HIDE DEF kept, cost
  <2>5. done(below, top.gas - cost, top.sub) /\ st' = kept
    BY <1>5 DEF ended
  <2> QED BY <1>1, <1>3, <2>3, <2>4, <2>5, EndedKeeps
<1>6. CASE ended(top, dropped, top.gas)
  <2>1. st.code \ {top.self} \in SUBSET (accounts \ Externals)
    BY <1>3, StateIs
  <2>2. Keeps(st, dropped, 0)
    BY <1>3, <2>1, CodeIs
  <2> HIDE DEF dropped
  <2>3. done(below, top.gas, top.sub) /\ st' = dropped
    BY <1>6 DEF ended
  <2> QED BY <1>1, <1>3, <2>2, <2>3, EndedKeeps
<1> QED BY <1>2, <1>4, <1>5, <1>6

LEMMA SuicideKeeps ==
  ASSUME ExecInv, NEW to \in Externals, VMSuicide(to)
  PROVE  ExecInv'
<1> DEFINE r == transferBalance(st, top.self, to, st.balance[top.self])
           dead == top.sub.suicides \cup {top.self}
           sub == [logs |-> top.sub.logs, refunds |-> top.sub.refunds, suicides |-> dead]
           f == [top EXCEPT !.sub.suicides = @ \cup {top.self}]
<1>1. Active /\ m_t' = m_t /\ executed' = executed /\ burnt' = burnt /\ unbought' = unbought /\ ended(f, r, top.gas)
  BY DEF VMSuicide
<1>2. isState(st) /\ isFrame(top) /\ top.self \in accounts \ Externals /\ top.gas \in Int /\ isSub(top.sub)
  BY <1>1, Underway, TopFrame
<1>3. Keeps(st, r, 0)
  <2>1. st.balance[top.self] \in Int /\ to \in accounts
    BY <1>2, StateIs, ExternalsAre
  <2> QED BY <1>2, <2>1, TransferIs
<1>4. isSub(sub) /\ sub.logs = top.sub.logs /\ sub.refunds = top.sub.refunds
  <2>1. top.sub.refunds \in Int /\ dead \in SUBSET (accounts \ Externals)
    BY <1>2, SubIs
  <2> HIDE DEF dead
  <2> QED BY <2>1, SubOf
<1>5. f.sub = sub
  <2>1. top = [self |-> top.self, gas |-> top.gas, savepoint |-> top.savepoint, creation |-> top.creation, sub |-> top.sub]
    BY <1>2, FrameIs
  <2>2. top.sub = [logs |-> top.sub.logs, refunds |-> top.sub.refunds, suicides |-> top.sub.suicides]
    BY <1>2, SubIs
  <2>3. f.sub = [top.sub EXCEPT !.suicides = dead]
    BY <2>1
  <2> HIDE DEF f, dead
  <2> QED BY <2>2, <2>3
<1>6. done(below, top.gas, sub) /\ st' = r
  <2> HIDE DEF f, r, sub
  <2> QED BY <1>1, <1>5 DEF ended
<1> HIDE DEF r, sub
<1> QED BY <1>1, <1>2, <1>3, <1>4, <1>6, EndedKeeps

LEMMA VMCallKeeps ==
  ASSUME ExecInv, NEW to \in Contracts \cup Precompiled \cup Externals, NEW value \in 0..1, NEW g \in {0, 2},
         VMCall(to, value, g)
  PROVE  ExecInv'
<1> DEFINE fs == spend(1 + g)
<1>1. Active /\ m_t' = m_t /\ executed' = executed /\ burnt' = burnt /\ unbought' = unbought /\ call(st, fs, top.self, to, value, g)
  BY DEF VMCall
<1>2. /\ m_t \in Transactions /\ executed \in SUBSET Transactions /\ burnt \in Int /\ unbought \in Int
      /\ outcome = Running /\ isState(st)
  BY <1>1, Underway
<1>3. Reached(st, fs, executed, owing(m_t)) /\ fs # << >>
  <2>1. 1 + g \in Int
    OBVIOUS
  <2> QED BY <1>1, <2>1, SpendIs
<1>4. top.self \in accounts /\ to \in accounts /\ value \in Int /\ g \in Int /\ st.code \in SUBSET (accounts \ Externals)
  <2>1. top.self \in accounts
    BY <1>1, TopFrame
  <2>2. to \in accounts
    BY DEF accounts, creators
  <2> QED BY <1>2, <2>1, <2>2, StateIs
<1> HIDE DEF fs
<1>5. Reached(entered(st, fs = << >>, top.self).state, fs, executed, owing(m_t))
  BY <1>3 DEF entered
<1> QED BY <1>1, <1>2, <1>4, <1>5, CallKeeps

LEMMA VMCreateKeeps ==
  ASSUME ExecInv, NEW value \in 0..1, NEW init, VMCreate(value, init)
  PROVE  ExecInv'
<1> DEFINE fs == spend(top.gas)
<1>1. Active /\ m_t' = m_t /\ executed' = executed /\ burnt' = burnt /\ unbought' = unbought /\ canCreate(top.self)
      /\ create(st, fs, top.self, value, top.gas - 1, init)
  BY DEF VMCreate
<1>2. /\ m_t \in Transactions /\ executed \in SUBSET Transactions /\ burnt \in Int /\ unbought \in Int
      /\ outcome = Running /\ isState(st) /\ top.gas \in Int
  BY <1>1, Underway, TopFrame
<1>3. Reached(st, fs, executed, owing(m_t))
  BY <1>1, <1>2, SpendIs
<1>4. top.self \in creators /\ top.self \in accounts /\ st.nonce[top.self] <= MaxNonce
      /\ value \in Int /\ top.gas - 1 \in Int
  <2>1. top.self \in creators /\ st.nonce[top.self] < MaxNonce /\ top.self \in accounts
    BY <1>1, ExternalsAre DEF canCreate
  <2>2. st.nonce[top.self] \in Nat
    BY <1>2, <2>1, StateIs
  <2>3. MaxNonce \in Nat
    BY ExecutiveAssumption
  <2> QED BY <1>2, <2>1, <2>2, <2>3
<1> HIDE DEF fs
<1>5. Reached(incNonce(st, top.self), fs, executed, owing(m_t))
  <2>1. Keeps(st, incNonce(st, top.self), 0)
    BY <1>2, <1>4, IncNonceIs
  <2> QED BY <1>2, <1>3, <2>1, ReachedOn
<1> QED BY <1>1, <1>2, <1>4, <1>5, CreateKeeps

LEMMA WriteKeeps ==
  ASSUME ExecInv, NEW clears \in BOOLEAN, Write(clears)
  PROVE  ExecInv'
<1> DEFINE n == Len(frames)
           id == Cardinality(st.writes) + 1
           d == IF clears THEN 1 ELSE 0
           logs == top.sub.logs \cup {id}
           owedBack == top.sub.refunds + d
           sub == [logs |-> logs, refunds |-> owedBack, suicides |-> top.sub.suicides]
           f == [self |-> top.self, gas |-> top.gas - 1, savepoint |-> top.savepoint,
                 creation |-> top.creation, sub |-> sub]
           gs == [frames EXCEPT ![n] = f]
           writes == st.writes \cup {id}
           cleared == st.cleared + d
           r == [balance |-> st.balance, nonce |-> st.nonce, code |-> st.code, writes |-> writes, cleared |-> cleared]
<1>1. Active /\ m_t' = m_t /\ executed' = executed /\ burnt' = burnt /\ unbought' = unbought /\ outcome' = outcome
  BY DEF Write
<1>2. /\ m_t \in Transactions /\ executed \in SUBSET Transactions /\ burnt \in Int /\ unbought \in Int
      /\ outcome = Running /\ isState(st) /\ aside = owing(m_t)
      /\ Reached(st, frames, executed, owing(m_t)) /\ frames # << >>
  BY <1>1, Underway
<1>3. Sound(st, executed, owing(m_t)) /\ Stacked(frames, executed, owing(m_t))
      /\ st.writes = logsOf(frames, n) /\ st.cleared = refundsOf(frames, n)
  BY <1>2 DEF Reached
<1>4. n \in DOMAIN frames /\ isFrame(top) /\ top = frames[n] /\ n \in Nat
  BY <1>2, <1>3, StackIs, TopIs DEF top, depth
<1>5. /\ top = [self |-> top.self, gas |-> top.gas, savepoint |-> top.savepoint, creation |-> top.creation, sub |-> top.sub]
      /\ top.self \in accounts \ Externals /\ top.gas \in Int /\ isState(top.savepoint) /\ isSub(top.sub)
      /\ top.sub = [logs |-> top.sub.logs, refunds |-> top.sub.refunds, suicides |-> top.sub.suicides]
      /\ top.sub.refunds \in Int /\ top.sub.suicides \in SUBSET (accounts \ Externals)
  BY <1>4, FrameIs, SubIs
<1>6. d \in Int /\ owedBack \in Int
  <2>1. d \in Int
    OBVIOUS
  <2> HIDE DEF d
  <2> QED BY <1>5, <2>1
<1>7. isFrame(f) /\ f.savepoint = frames[n].savepoint /\ f.sub = sub
  <2>1. isSub(sub)
    <3> HIDE DEF logs, owedBack
    <3> QED BY <1>5, <1>6, SubOf
  <2> HIDE DEF sub
  <2>2. top.gas - 1 \in Int
    BY <1>5
  <2> QED BY <1>4, <1>5, <2>1, <2>2, FrameOf
<1>8. frames' = gs
  <2> DEFINE new == [top EXCEPT !.gas = top.gas - 1, !.sub.logs = logs, !.sub.refunds = owedBack]
  <2>1. frames' = [frames EXCEPT ![n] = new]
    <3>1. frames' = [spend(1) EXCEPT ![n].sub.logs = @ \cup {id},
                                     ![n].sub.refunds = IF clears THEN @ + 1 ELSE @]
      BY DEF Write, depth
    <3> DEFINE mid == [top EXCEPT !.gas = @ - 1]
               fs == [frames EXCEPT ![n] = mid]
    <3>2. spend(1) = fs
      BY <1>4 DEF spend, depth
    <3>3. mid = [self |-> top.self, gas |-> top.gas - 1, savepoint |-> top.savepoint, creation |-> top.creation, sub |-> top.sub]
      BY <1>5
    <3>4. fs[n] = mid /\ DOMAIN fs = DOMAIN frames /\ \A i \in DOMAIN frames : i # n => fs[i] = frames[i]
      BY <1>4
    <3> DEFINE last == [mid EXCEPT !.sub.logs = @ \cup {id}, !.sub.refunds = IF clears THEN @ + 1 ELSE @]
    <3>5. frames' = [fs EXCEPT ![n] = last]
      <4> HIDE DEF mid, id, fs
      <4>1. frames' = [fs EXCEPT ![n].sub.logs = @ \cup {id}, ![n].sub.refunds = IF clears THEN @ + 1 ELSE @]
        BY <3>1, <3>2
      <4> QED BY <3>4, <4>1
    <3>6. last = new
      <4> HIDE DEF id
      <4>1. top.sub.refunds + d = IF clears THEN top.sub.refunds + 1 ELSE top.sub.refunds
        BY <1>5
      <4>2. mid.sub = top.sub
        BY <3>3
      <4> QED BY <4>1, <4>2
    <3> HIDE DEF last, new, mid
    <3>7. [fs EXCEPT ![n] = last] = [frames EXCEPT ![n] = last]
      OBVIOUS
    <3> QED BY <3>5, <3>6, <3>7
  <2>2. new = f
    <3> DEFINE g == top.gas - 1
    <3>1. top \in [self : {top.self}, gas : {top.gas}, savepoint : {top.savepoint}, creation : {top.creation},
                   sub : [logs : {top.sub.logs}, refunds : {top.sub.refunds}, suicides : {top.sub.suicides}]]
      BY <1>5
    <3>2. new = [top EXCEPT !.gas = g, !.sub.logs = logs, !.sub.refunds = owedBack]
      OBVIOUS
    <3> HIDE DEF g, logs, owedBack, new
    <3>3. new \in [self : {top.self}, gas : {g}, savepoint : {top.savepoint}, creation : {top.creation},
                   sub : [logs : {logs}, refunds : {owedBack}, suicides : {top.sub.suicides}]]
      BY <3>1, <3>2
    <3>4. new = [self |-> top.self, gas |-> g, savepoint |-> top.savepoint, creation |-> top.creation,
                 sub |-> [logs |-> logs, refunds |-> owedBack, suicides |-> top.sub.suicides]]
      BY <3>3
    <3> QED BY <3>4 DEF g
  <2> HIDE DEF new, f
  <2> QED BY <2>1, <2>2
<1>9. st' = r
  <2>1. st' = [st EXCEPT !.writes = writes, !.cleared = IF clears THEN @ + 1 ELSE @]
    BY DEF Write
  <2>2. /\ st = [balance |-> st.balance, nonce |-> st.nonce, code |-> st.code, writes |-> st.writes, cleared |-> st.cleared]
        /\ st.cleared \in Int
    BY <1>2, StateIs
  <2>3. cleared = IF clears THEN st.cleared + 1 ELSE st.cleared
    BY <2>2
  <2>4. st' = [st EXCEPT !.writes = writes, !.cleared = cleared]
    BY <2>1, <2>3
  <2>5. st \in [balance : {st.balance}, nonce : {st.nonce}, code : {st.code}, writes : {st.writes}, cleared : {st.cleared}]
    BY <2>2
  <2> DEFINE e == [st EXCEPT !.writes = writes, !.cleared = cleared]
  <2> HIDE DEF writes, cleared
  <2>6. e \in [balance : {st.balance}, nonce : {st.nonce}, code : {st.code}, writes : {writes}, cleared : {cleared}]
    BY <2>5
  <2> HIDE DEF e
  <2>7. e = r
    BY <2>6
  <2> QED BY <2>4, <2>7 DEF e
<1>10. isState(r) /\ r.balance = st.balance /\ r.nonce = st.nonce /\ r.writes = writes /\ r.cleared = cleared
       /\ cleared \in Int
  <2>1. cleared \in Int /\ st.balance \in [accounts -> Int] /\ st.nonce \in [accounts -> Nat]
        /\ st.code \in SUBSET (accounts \ Externals)
    BY <1>2, <1>6, StateIs
  <2> HIDE DEF writes, cleared
  <2> QED BY <2>1, StateOf
<1> HIDE DEF f, r
<1>11. Sound(r, executed, owing(m_t))
  BY <1>3, <1>10 DEF Sound
<1>12. /\ Stacked(gs, executed, owing(m_t)) /\ Len(gs) = n
       /\ logsOf(gs, Len(gs)) = logsOf(frames, n - 1) \union f.sub.logs
       /\ refundsOf(gs, Len(gs)) = refundsOf(frames, n - 1) + f.sub.refunds
  BY <1>2, <1>3, <1>7, ReplaceTop
<1>13. /\ logsOf(frames, n) = logsOf(frames, n - 1) \union top.sub.logs
       /\ refundsOf(frames, n) = refundsOf(frames, n - 1) + top.sub.refunds
       /\ refundsOf(frames, n - 1) \in Int
  BY <1>2, <1>3, <1>4, TopIs
<1> HIDE DEF gs, n, id, d
<1>14. writes = logsOf(gs, Len(gs))
  BY <1>3, <1>7, <1>12, <1>13
<1>15. cleared = refundsOf(gs, Len(gs))
  <2>1. refundsOf(gs, Len(gs)) = refundsOf(frames, n - 1) + (top.sub.refunds + d)
    BY <1>7, <1>12
  <2>2. cleared = (refundsOf(frames, n - 1) + top.sub.refunds) + d
    BY <1>3, <1>13
  <2> QED BY <1>5, <1>6, <1>13, <2>1, <2>2
<1> HIDE DEF writes, cleared, sub
<1>16. m_t' \in Transactions /\ m_t' # NoTx /\ aside' = owing(m_t)
  <2>1. m_t # NoTx
    BY <1>2, TransactionIs
  <2> QED BY <1>1, <1>2, <2>1 DEF aside, owing
<1>17. outcome' \in [gas : Int, sub : {outcome'.sub}] /\ isSub(outcome'.sub)
       /\ outcome'.sub.logs = {} /\ outcome'.sub.refunds = 0 /\ outcome' = Running
  BY <1>1, <1>2, NoSubIs DEF Running
<1>18. /\ st'.writes = logsOf(frames', Len(frames')) \union outcome'.sub.logs
       /\ st'.cleared = refundsOf(frames', Len(frames')) + outcome'.sub.refunds
  BY <1>8, <1>9, <1>10, <1>14, <1>15, <1>17
<1>19. Sound(st', executed', aside') /\ Stacked(frames', executed', aside')
  BY <1>1, <1>8, <1>9, <1>11, <1>12, <1>16
<1>20. executed' \subseteq Transactions /\ burnt' \in Int /\ unbought' \in Int
  BY <1>1, <1>2
<1> QED BY <1>16, <1>17, <1>18, <1>19, <1>20 DEF ExecInv

LEMMA ExecuteKeeps ==
  ASSUME ExecInv, NEW t \in Transactions, Execute(t)
  PROVE  ExecInv'
<1> DEFINE s0 == [st EXCEPT !.writes = {}, !.cleared = 0]
           q0 == [balance |-> st.balance, nonce |-> st.nonce, code |-> st.code, writes |-> {}, cleared |-> 0]
           s == addBalance(s0, t.from, 0 - m_gasCost(t))
           gas == t.gas - m_baseGasRequired(t)
           past == executed \cup {t}
<1>1. /\ m_t = NoTx /\ accepted(t) /\ (t.creation => canCreate(t.from))
      /\ m_t' = t /\ executed' = past /\ burnt' = burnt /\ unbought' = unbought
  BY DEF Execute
<1>2. IF t.creation THEN create(s, << >>, t.from, t.value, gas, t.init)
                    ELSE call(s, << >>, t.from, t.to, t.value, gas)
  BY DEF Execute
<1>3. frames = << >> /\ outcome = Running /\ Sound(st, executed, burnt - unbought) /\ isState(st)
      /\ executed \in SUBSET Transactions /\ burnt \in Int /\ unbought \in Int
  <2>1. aside = burnt - unbought
    BY <1>1 DEF aside, ExecInv
  <2> QED BY <1>1, <2>1 DEF ExecInv, Sound
<1>4. /\ t.from \in accounts /\ t.to \in accounts /\ t.value \in Int /\ m_gasCost(t) \in Nat /\ gas \in Int
      /\ t.from \in Externals \union {MaxAddress} /\ t.nonce \in Nat
  <2>1. t.gas \in Nat /\ m_baseGasRequired(t) \in Nat
    BY TransactionIs
  <2> QED BY <2>1, TransactionIs
<1> HIDE DEF gas
<1>5. s0 = q0
  <2>1. st \in [balance : {st.balance}, nonce : {st.nonce}, code : {st.code}, writes : {st.writes}, cleared : {st.cleared}]
    <3>1. st = [balance |-> st.balance, nonce |-> st.nonce, code |-> st.code, writes |-> st.writes, cleared |-> st.cleared]
      BY <1>3, StateIs
    <3> QED BY <3>1
  <2>2. s0 \in [balance : {st.balance}, nonce : {st.nonce}, code : {st.code}, writes : {{}}, cleared : {0}]
    BY <2>1
  <2> HIDE DEF s0
  <2> QED BY <2>2
<1>6. isState(s0) /\ s0.nonce = st.nonce /\ s0.balance = st.balance /\ s0.writes = {} /\ s0.cleared = 0 /\ s0.code = st.code
  <2>1. isState(q0)
    <3>1. /\ st.balance \in [accounts -> Int] /\ st.nonce \in [accounts -> Nat] /\ 0 \in Int
          /\ st.code \in SUBSET (accounts \ Externals)
      BY <1>3, StateIs
    <3> QED BY <3>1, StateOf
  <2> HIDE DEF s0
  <2> QED BY <1>5, <2>1
<1> HIDE DEF s0, q0
<1>7. Keeps(s0, s, 0 - m_gasCost(t)) /\ s.nonce = st.nonce
  <2>1. 0 - m_gasCost(t) \in Int
    BY <1>4
  <2> QED BY <1>4, <1>6, <2>1, AddBalanceIs
<1> HIDE DEF s
<1>8. isState(s) /\ s.writes = {} /\ s.cleared = 0 /\ total(s.balance) = total(st.balance) + (0 - m_gasCost(t))
  BY <1>6, <1>7 DEF Keeps
<1>9. Reached(s, << >>, executed, owing(t))
  <2>1. total(st.balance) + (burnt - unbought) = total(InitialBalance) /\ total(st.balance) \in Int
    BY <1>3, StateIs DEF Sound
  <2>2. total(s.balance) + owing(t) = total(InitialBalance)
    BY <1>3, <1>4, <1>8, <2>1 DEF owing
  <2>3. \A x \in executed : signed(x) => s.nonce[x.from] > x.nonce
    BY <1>3, <1>7 DEF Sound
  <2>4. Sound(s, executed, owing(t))
    BY <1>8, <2>2, <2>3 DEF Sound
  <2> QED BY <1>8, <2>4, NoFrames DEF Reached
<1>10. signed(t) => t.nonce = s.nonce[t.from]
  BY <1>1, <1>7 DEF accepted
<1>11. Reached(incNonce(s, t.from), << >>, past, owing(t)) /\ past \in SUBSET Transactions
  BY <1>3, <1>9, <1>10, NonceUsedUp
<1>12. CASE t.creation
  <2>1. create(s, << >>, t.from, t.value, gas, t.init)
    BY <1>2, <1>12
  <2>2. t.from \in creators /\ s.nonce[t.from] <= MaxNonce
    <3>1. t.from \in creators /\ st.nonce[t.from] < MaxNonce
      BY <1>1, <1>12 DEF canCreate
    <3>2. st.nonce[t.from] \in Nat /\ MaxNonce \in Nat
      BY <1>3, <1>4, StateIs, ExecutiveAssumption
    <3> QED BY <1>7, <3>1, <3>2
  <2> HIDE DEF past
  <2> QED BY <1>1, <1>3, <1>4, <1>8, <1>10, <1>11, <2>1, <2>2, CreateKeeps
<1>13. CASE ~t.creation
  <2>1. call(s, << >>, t.from, t.to, t.value, gas)
    BY <1>2, <1>13
  <2>2. Reached(entered(s, << >> = << >>, t.from).state, << >>, past, owing(t))
    BY <1>11 DEF entered
  <2>3. st.code \in SUBSET (accounts \ Externals)
    BY <1>3, StateIs
  <2> HIDE DEF past
  <2> QED BY <1>1, <1>3, <1>4, <1>10, <1>11, <2>1, <2>2, <2>3, CallKeeps
<1> QED BY <1>12, <1>13

LEMMA MinOfTwo ==
  ASSUME NEW a \in Int, NEW b \in Int
  PROVE  Min({a, b}) \in Int
<1>1. \E x \in {a, b} : \A y \in {a, b} : x <= y
  BY SMT
<1>2. Min({a, b}) \in {a, b}
  BY <1>1 DEF Min
<1> QED BY <1>2

LEMMA Shares ==
  ASSUME NEW a \in Int, NEW b \in Int, NEW p \in Int
  PROVE  a * p \in Int /\ (b - a) * p \in Int /\ a * p + (b - a) * p = b * p
OBVIOUS

LEMMA FinalizeKeeps == ExecInv /\ Finalize => ExecInv'
<1> SUFFICES ASSUME ExecInv, Finalize
             PROVE  ExecInv'
  OBVIOUS
<1> DEFINE sub == outcome.sub
           owedBack == sub.refunds + suicideRefundGas * Cardinality(sub.suicides)
           gas == settled(outcome.gas, Min({(m_t.gas - outcome.gas) \div 2, owedBack}))
           x == gas.sender * m_t.price
           y == gas.author * m_t.price
           half == addBalance(st, m_t.from, x)
           paid == addBalance(half, Author, y)
           lost == sum(sub.suicides, paid.balance)
           fees == m_t.gas * m_t.price
<1>0. unbought' = unbought + unpaid(m_t)
  BY DEF Finalize
<1>1. /\ m_t # NoTx /\ outcome # Running /\ st' = kill(paid, sub.suicides)
      /\ burnt' = burnt + lost /\ m_t' = NoTx /\ outcome' = Running /\ frames' = frames /\ executed' = executed
  BY DEF Finalize, sum
<1>2. m_t \in Transactions /\ executed \in SUBSET Transactions /\ burnt \in Int /\ unbought \in Int
      /\ frames = << >> /\ outcome.gas \in Int /\ isSub(sub)
  BY <1>1 DEF ExecInv
<1>3. Sound(st, executed, burnt - unbought + m_gasCost(m_t)) /\ isState(st)
  BY <1>1 DEF ExecInv, aside, Sound
<1>4. m_t.gas \in Nat /\ m_t.price \in Nat /\ m_t.from \in accounts /\ m_gasCost(m_t) \in Nat /\ Author \in accounts
  BY <1>2, TransactionIs DEF accounts
<1>5. sub.refunds \in Int /\ sub.suicides \in SUBSET (accounts \ Externals)
  BY <1>2, SubIs
<1>6. owedBack \in Int
  <2>1. Cardinality(sub.suicides) \in Nat
    <3>1. sub.suicides \in SUBSET accounts
      BY <1>5
    <3> QED BY <3>1, AccountsAreFinite, FS_Subset, FS_CardinalityType
  <2> QED BY <1>5, <2>1 DEF suicideRefundGas
<1> HIDE DEF owedBack, sub
<1>7. gas.sender \in Int /\ gas.author = m_t.gas - gas.sender
  <2> DEFINE r == Min({(m_t.gas - outcome.gas) \div 2, owedBack})
  <2>1. r \in Int
    <3> DEFINE h == (m_t.gas - outcome.gas) \div 2
    <3>1. h \in Int
      BY <1>2, <1>4
    <3> HIDE DEF h
    <3>2. Min({h, owedBack}) \in Int
      BY <1>6, <3>1, MinOfTwo
    <3> QED BY <3>2 DEF h
  <2> HIDE DEF r
  <2>2. gas = [sender |-> outcome.gas + r, author |-> m_t.gas - (outcome.gas + r)]
    BY DEF settled, r
  <2> HIDE DEF gas
  <2> QED BY <1>2, <2>1, <2>2
<1> HIDE DEF gas
<1>8. x \in Int /\ y \in Int /\ x + y = fees /\ fees \in Int
      /\ unpaid(m_t) = fees - m_gasCost(m_t)
  BY <1>4, <1>7, Shares DEF unpaid
<1> HIDE DEF x, y, fees
<1>9. Keeps(st, half, x)
  BY <1>3, <1>4, <1>8, AddBalanceIs
<1> HIDE DEF half
<1>10. Keeps(half, paid, y)
  BY <1>4, <1>8, <1>9, AddBalanceIs DEF Keeps
<1> HIDE DEF paid
<1>11. lost \in Int /\ Keeps(paid, st', 0 - lost)
  <2>1. isState(paid)
    BY <1>10 DEF Keeps
  <2> QED BY <1>1, <1>5, <2>1, KillIs
<1> HIDE DEF lost
<1>12. total(st'.balance) + (burnt' - unbought') = total(InitialBalance)
  <2>1. /\ total(half.balance) = total(st.balance) + x
        /\ total(paid.balance) = total(half.balance) + y
        /\ total(st'.balance) = total(paid.balance) + (0 - lost)
    BY <1>9, <1>10, <1>11 DEF Keeps
  <2>2. total(st.balance) + (burnt - unbought + m_gasCost(m_t)) = total(InitialBalance) /\ total(st.balance) \in Int
    BY <1>3, StateIs DEF Sound
  <2>3. burnt' = burnt + lost /\ unbought' = unbought + (fees - m_gasCost(m_t))
    BY <1>0, <1>1, <1>8
  <2>4. burnt \in Int /\ unbought \in Int /\ lost \in Int /\ m_gasCost(m_t) \in Int
    BY <1>2, <1>4, <1>11
  <2>5. x \in Int /\ y \in Int /\ fees \in Int /\ x + y = fees
    BY <1>8
  <2>6. total(st'.balance) = total(st.balance) + x + y - lost
    BY <2>1, <2>2, <2>4, <2>5
  <2> QED BY <2>2, <2>3, <2>4, <2>5, <2>6
<1>13. ASSUME NEW t \in executed, signed(t)
       PROVE  st'.nonce[t.from] > t.nonce
  <2>1. t.from \in Externals /\ t.from \in accounts /\ t.nonce \in Nat
    BY <1>2, <1>13, TransactionIs DEF signed
  <2>2. st.nonce[t.from] > t.nonce
    BY <1>3, <1>13 DEF Sound
  <2>3. /\ st.nonce[t.from] <= half.nonce[t.from]
        /\ half.nonce[t.from] <= paid.nonce[t.from]
        /\ paid.nonce[t.from] <= st'.nonce[t.from]
    BY <1>9, <1>10, <1>11, <2>1 DEF Keeps
  <2>4. isState(st) /\ isState(half) /\ isState(paid) /\ isState(st')
    BY <1>3, <1>9, <1>10, <1>11 DEF Keeps
  <2>5. st.nonce[t.from] \in Nat /\ half.nonce[t.from] \in Nat /\ paid.nonce[t.from] \in Nat /\ st'.nonce[t.from] \in Nat
    BY <2>1, <2>4, StateIs
  <2> QED BY <2>1, <2>2, <2>3, <2>5
<1>14. aside' = burnt' - unbought' /\ burnt' \in Int /\ unbought' \in Int
  <2>1. burnt' \in Int /\ unbought' \in Int
    BY <1>0, <1>1, <1>2, <1>4, <1>8, <1>11
  <2> QED BY <1>1, <2>1 DEF aside
<1>15. Sound(st', executed', aside')
  <2>1. isState(st')
    BY <1>11 DEF Keeps
  <2> QED BY <1>1, <1>12, <1>13, <1>14, <2>1 DEF Sound
<1>16. Stacked(frames', executed', aside') /\ frames' = << >>
  BY <1>1, <1>2, NoFrames
<1>17. outcome' \in [gas : Int, sub : {outcome'.sub}] /\ isSub(outcome'.sub)
  BY <1>1, NoSubIs DEF Running
<1> QED BY <1>1, <1>2, <1>14, <1>15, <1>16, <1>17 DEF ExecInv

LEMMA ExecStep == ExecInv /\ [ExecNext]_execVars => ExecInv'
<1> SUFFICES ASSUME ExecInv, [ExecNext]_execVars
             PROVE  ExecInv'
  OBVIOUS
<1>1. ASSUME UNCHANGED execVars
      PROVE  ExecInv'
  BY <1>1 DEF execVars, ExecInv, Sound, Stacked, aside
<1>2. ASSUME ExecNext
      PROVE  ExecInv'
  BY <1>2, ExecuteKeeps, WriteKeeps, VMCallKeeps, VMCreateKeeps, ExceptionKeeps, RevertKeeps, ReturnKeeps,
     DepositKeeps, SuicideKeeps, FinalizeKeeps DEF ExecNext
<1> QED BY <1>1, <1>2

LEMMA InvConserves == ExecInv => EtherConserved
BY DEF ExecInv, Sound, EtherConserved

LEMMA InvAtomic == ExecInv => TransactionsAtomic
<1> SUFFICES ASSUME ExecInv
             PROVE  TransactionsAtomic
  OBVIOUS
<1>1. NoReplay
  BY DEF NoReplay, ExecInv, Sound
<1>2. ASSUME m_t # NoTx
      PROVE  /\ UNION {s.logs : s \in {frames[i].sub : i \in DOMAIN frames} \cup {outcome.sub}} = st.writes
             /\ outcome.sub.refunds + total([i \in DOMAIN frames |-> frames[i].sub.refunds]) = st.cleared
  <2>1. /\ st.writes = logsOf(frames, Len(frames)) \union outcome.sub.logs
        /\ st.cleared = refundsOf(frames, Len(frames)) + outcome.sub.refunds
        /\ Stacked(frames, executed, aside) /\ isSub(outcome.sub)
    BY <1>2 DEF ExecInv
  <2>2. /\ DOMAIN frames = 1..Len(frames) /\ Len(frames) \in Nat
        /\ \A i \in 1..Len(frames) : frames[i].sub.refunds \in Int /\ frames[i].sub = frames[i].sub
    BY <2>1, StackIs
  <2>3. refundsOf(frames, Len(frames)) \in Int /\ outcome.sub.refunds \in Int
    BY <2>1, <2>2, PrefixSame, SubIs
  <2>4. outcome.sub.refunds + total([i \in DOMAIN frames |-> frames[i].sub.refunds]) = st.cleared
    <3>1. total([i \in DOMAIN frames |-> frames[i].sub.refunds]) = refundsOf(frames, Len(frames))
      BY <2>2 DEF refundsOf
    <3> QED BY <2>1, <2>3, <3>1
  <2>5. UNION {s.logs : s \in {frames[i].sub : i \in DOMAIN frames} \cup {outcome.sub}} = st.writes
    BY <2>1, <2>2 DEF logsOf
  <2> QED BY <2>4, <2>5
<1>3. EffectsStandOrFall
  BY <1>2 DEF EffectsStandOrFall
<1> QED BY <1>1, <1>3 DEF TransactionsAtomic

\* No ether is made or lost, whatever transactions do and however they end.
THEOREM NoEtherMadeOrLost == ExecSpec => []EtherConserved
<1>1. ExecInit => ExecInv
  BY InvInitial
<1>2. ExecInv /\ [ExecNext]_execVars => ExecInv'
  BY ExecStep
<1>3. ExecInv => EtherConserved
  BY InvConserves
<1> QED BY <1>1, <1>2, <1>3, PTL DEF ExecSpec

\* A transaction happens as a whole or not at all, and once.
THEOREM WholeOrNotAtAll == ExecSpec => []TransactionsAtomic
<1>1. ExecInit => ExecInv
  BY InvInitial
<1>2. ExecInv /\ [ExecNext]_execVars => ExecInv'
  BY ExecStep
<1>3. ExecInv => TransactionsAtomic
  BY InvAtomic
<1> QED BY <1>1, <1>2, <1>3, PTL DEF ExecSpec

-----------------------------------------------------------------------------
(* EVM.                                                                    *)

LEMMA WordsAre ==
  /\ W \in Nat /\ W >= ByteSize * ByteSize /\ W >= ByteSize /\ ByteSize >= 4
  /\ WordBytes \in Nat \ {0, 1} /\ ByteSize \in Nat /\ c_allButOne \in Nat \ {0}
  /\ \A i \in 0 .. WordBytes : ByteSize ^ i \in Nat \ {0} /\ ByteSize ^ i <= W
<1>1. W \in Int
  BY EVMAssumption DEF W
<1>2. \A i \in 0 .. WordBytes : ByteSize ^ i \in 1 .. W
  BY EVMAssumption
<1>3. \A i \in 0 .. WordBytes : ByteSize ^ i \in Nat \ {0} /\ ByteSize ^ i <= W
  BY <1>1, <1>2
<1>4. 1 \in 0 .. WordBytes /\ 2 \in 0 .. WordBytes
  BY EVMAssumption
<1>5. ByteSize ^ 1 = ByteSize /\ ByteSize ^ 2 = ByteSize * ByteSize
  BY EVMAssumption
<1> QED BY <1>1, <1>3, <1>4, <1>5, EVMAssumption

LEMMA InWords ==
  ASSUME NEW n
  PROVE  n \in Words <=> n \in Nat /\ n < W
BY WordsAre DEF Words

LEMMA WrapIs ==
  ASSUME NEW i \in Int
  PROVE  wrap(i) \in Words
BY WordsAre DEF wrap, Words

LEMMA TruthIs ==
  ASSUME NEW b
  PROVE  truth(b) \in Words
BY WordsAre, InWords DEF truth

LEMMA QuotientIs ==
  ASSUME NEW a \in Int, NEW b \in Int, b # 0
  PROVE  quotient(a, b) \in Int
<1>1. abs(a) \in Int /\ abs(b) \in Nat \ {0}
  BY DEF abs
<1>2. abs(a) \div abs(b) \in Int
  BY <1>1
<1> DEFINE q == abs(a) \div abs(b)
<1>3. q * 1 \in Int /\ q * (-1) \in Int
  <2> HIDE DEF q
  <2> SUFFICES q \in Int
    OBVIOUS
  <2> QED BY <1>2 DEF q
<1> QED BY <1>3 DEF quotient

LEMMA DivIs ==
  ASSUME NEW a \in Nat, NEW b \in Nat, b # 0
  PROVE  a \div b \in Nat /\ a \div b <= a /\ a % b \in Nat /\ a % b < b /\ a % b <= a
OBVIOUS

\* Squaring and multiplying up to an exponent: there is such a function ...
Power(f, e, b) == IF e = 0 THEN 1 ELSE wrap((IF e % 2 = 1 THEN b ELSE 1) * f[e \div 2][wrap(b * b)])

LEMMA HalfIs ==
  ASSUME NEW e \in Nat, e # 0
  PROVE  e \div 2 \in Nat /\ e \div 2 < e
OBVIOUS

LEMMA SquareIs ==
  ASSUME NEW b \in Nat
  PROVE  wrap(b * b) \in Words
<1>1. b * b \in Int
  OBVIOUS
<1> QED BY <1>1, WrapIs

LEMMA PowersExist ==
  \E f : f = [e \in Words |-> [b \in Words |-> Power(f, e, b)]]
<1> DEFINE Until(f, k) == \A e \in Words : e < k => f[e] = [b \in Words |-> Power(f, e, b)]
           Good == {k \in Nat : \E f : f = [e \in Words |-> f[e]] /\ Until(f, k)}
<1>1. 0 \in Good
  <2> DEFINE f == [e \in Words |-> 0]
  <2>1. f = [e \in Words |-> f[e]]
    OBVIOUS
  <2>2. Until(f, 0)
    BY DEF Words
  <2> QED BY <2>1, <2>2
<1>2. ASSUME NEW k \in Nat, k \in Good
      PROVE  k + 1 \in Good
  <2>1. PICK f : f = [e \in Words |-> f[e]] /\ Until(f, k)
    BY <1>2
  <2> DEFINE h == [e \in Words |-> IF e = k THEN [b \in Words |-> Power(f, k, b)] ELSE f[e]]
  <2>2. h = [e \in Words |-> h[e]]
    OBVIOUS
  <2>3. ASSUME NEW e \in Words, e < k + 1, NEW b \in Words
        PROVE  Power(h, e, b) = Power(f, e, b)
    <3>1. CASE e = 0
      BY <3>1 DEF Power
    <3>2. CASE e # 0
      <4>1. e \div 2 \in Words /\ e \div 2 # k
        <5>1. e \in Nat /\ e < W /\ e <= k /\ W \in Nat
          BY <2>3, InWords, WordsAre
        <5>2. e \div 2 \in Nat /\ e \div 2 < e
          BY <3>2, <5>1, HalfIs
        <5>3. e \div 2 < W /\ e \div 2 # k
          BY <5>1, <5>2
        <5> QED BY <5>2, <5>3, InWords
      <4>2. h[e \div 2] = f[e \div 2]
        BY <4>1
      <4> HIDE DEF h
      <4> QED BY <4>2 DEF Power
    <3> QED BY <3>1, <3>2
  <2>4. ASSUME NEW e \in Words, e < k + 1
        PROVE  h[e] = [b \in Words |-> Power(h, e, b)]
    <3>1. h[e] = [b \in Words |-> Power(f, e, b)]
      <4>1. CASE e = k
        BY <4>1
      <4>2. CASE e # k
        <5>1. e < k
          BY <2>4, <4>2 DEF Words
        <5> QED BY <2>1, <4>2, <5>1
      <4> QED BY <4>1, <4>2
    <3> HIDE DEF h
    <3> QED BY <2>3, <2>4, <3>1
  <2>5. Until(h, k + 1)
    <3> HIDE DEF h
    <3> QED BY <2>4
  <2>6. \E g : g = [e \in Words |-> g[e]] /\ Until(g, k + 1)
    <3> HIDE DEF h, Until
    <3> QED BY <2>2, <2>5
  <2> HIDE DEF Until
  <2> QED BY <2>6
<1>3. W \in Good
  <2>1. Good \in SUBSET Nat
    OBVIOUS
  <2> HIDE DEF Good
  <2> QED BY <1>1, <1>2, <2>1, EveryNumber, WordsAre
<1>4. PICK f : f = [e \in Words |-> f[e]] /\ Until(f, W)
  BY <1>3
<1>5. \A e \in Words : f[e] = [b \in Words |-> Power(f, e, b)]
  <2>1. \A e \in Words : e < W
    BY WordsAre DEF Words
  <2> QED BY <1>4, <2>1
<1>6. f = [e \in Words |-> [b \in Words |-> Power(f, e, b)]]
  BY <1>4, <1>5
<1> QED BY <1>6

\* ... and a power is a word.
LEMMA PowerIs ==
  ASSUME NEW f, f = [e \in Words |-> [b \in Words |-> Power(f, e, b)]]
  PROVE  \A e, b \in Words : f[e][b] \in Words
<1> DEFINE Good == {k \in Nat : \A e, b \in Words : e <= k => f[e][b] \in Words}
<1>1. \A e, b \in Words : f[e][b] = Power(f, e, b)
  <2> TAKE e, b \in Words
  <2>1. f[e] = [x \in Words |-> Power(f, e, x)]
    OBVIOUS
  <2> QED BY <2>1
<1>2. 0 \in Good
  <2> SUFFICES ASSUME NEW e \in Words, NEW b \in Words, e <= 0
               PROVE  f[e][b] \in Words
    OBVIOUS
  <2>1. e = 0
    BY DEF Words
  <2>2. 1 \in Words
    BY WordsAre, InWords
  <2> QED BY <1>1, <2>1, <2>2 DEF Power
<1>3. ASSUME NEW k \in Nat, k \in Good
      PROVE  k + 1 \in Good
  <2> SUFFICES ASSUME NEW e \in Words, NEW b \in Words, e <= k + 1
               PROVE  f[e][b] \in Words
    OBVIOUS
  <2>1. CASE e = 0
    <3>1. 1 \in Words
      BY WordsAre, InWords
    <3> QED BY <1>1, <2>1, <3>1 DEF Power
  <2>2. CASE e # 0
    <3>1. e \div 2 \in Words /\ e \div 2 <= k /\ b \in Nat
      <4>1. e \in Nat /\ e < W /\ e <= k + 1 /\ W \in Nat /\ b \in Nat
        BY InWords, WordsAre
      <4>2. e \div 2 \in Nat /\ e \div 2 < e
        BY <2>2, <4>1, HalfIs
      <4>3. e \div 2 < W /\ e \div 2 <= k
        BY <4>1, <4>2
      <4> QED BY <4>1, <4>2, <4>3, InWords
    <3>2. wrap(b * b) \in Words
      BY <3>1, SquareIs
    <3> DEFINE r == f[e \div 2][wrap(b * b)]
               c == IF e % 2 = 1 THEN b ELSE 1
    <3>3. r \in Words
      BY <1>3, <3>1, <3>2
    <3>4. c \in Nat
      BY <3>1
    <3>5. f[e][b] = wrap(c * r)
      BY <1>1, <2>2 DEF Power
    <3> HIDE DEF r, c
    <3>6. c * r \in Int
      BY <3>3, <3>4, InWords
    <3> QED BY <3>5, <3>6, WrapIs
  <2> QED BY <2>1, <2>2
<1>4. Nat \subseteq Good
  <2>1. Good \in SUBSET Nat
    OBVIOUS
  <2> HIDE DEF Good
  <2> QED BY <1>2, <1>3, <2>1, EveryNumber
<1> QED
  <2> SUFFICES ASSUME NEW e \in Words, NEW b \in Words
               PROVE  f[e][b] \in Words
    OBVIOUS
  <2>1. e \in Nat /\ e <= e
    BY DEF Words
  <2> QED BY <1>4, <2>1

LEMMA ExpIs ==
  ASSUME NEW a \in Words, NEW b \in Words
  PROVE  exp256(a, b) \in Words
<1> DEFINE E(f) == [e \in Words |-> [x \in Words |->
                       IF e = 0 THEN 1 ELSE wrap((IF e % 2 = 1 THEN x ELSE 1) * f[e \div 2][wrap(x * x)])]]
<1>1. exp256(a, b) = (CHOOSE f : f = E(f))[b][a]
  BY DEF exp256
<1>2. \E f : f = E(f)
  BY PowersExist DEF Power
<1>3. PICK f : f = E(f) /\ exp256(a, b) = f[b][a]
  <2> HIDE DEF E
  <2> QED BY <1>1, <1>2
<1>4. f = [e \in Words |-> [x \in Words |-> Power(f, e, x)]]
  BY <1>3 DEF Power
<1> HIDE DEF E
<1> QED BY <1>3, <1>4, PowerIs

LEMMA ArithmeticIs ==
  ASSUME NEW a \in Words, NEW b \in Words, NEW o \in Arithmetic
  PROVE  arithmetic(o, a, b) \in Words
<1>1. a \in Nat /\ b \in Nat /\ a < W /\ b < W /\ 0 \in Words /\ W \in Nat
  BY WordsAre, InWords
<1>2. CASE o \in {"ADD", "MUL", "SUB"}
  <2>1. a + b \in Int /\ a * b \in Int /\ a - b \in Int
    BY <1>1
  <2>2. wrap(a + b) \in Words /\ wrap(a * b) \in Words /\ wrap(a - b) \in Words
    BY <2>1, WrapIs
  <2> QED BY <1>2, <2>2 DEF arithmetic
<1>3. CASE o \in {"DIV", "MOD"}
  <2>1. b # 0 => a \div b \in Words /\ a % b \in Words
    BY <1>1, DivIs, InWords
  <2> QED BY <1>1, <1>3, <2>1 DEF arithmetic
<1>4. CASE o \in {"SDIV", "SMOD"}
  <2> DEFINE x == u2s(a)
             y == u2s(b)
             q == quotient(x, y)
  <2>1. x \in Int /\ y \in Int /\ (b # 0 => y # 0)
    BY <1>1 DEF u2s
  <2>2. b # 0 => q \in Int
    <3> HIDE DEF x, y
    <3> QED BY <2>1, QuotientIs
  <2>3. b # 0 => wrap(q) \in Words /\ wrap(x - y * q) \in Words
    <3> HIDE DEF q, x, y
    <3>1. b # 0 => x - y * q \in Int
      BY <2>1, <2>2
    <3> QED BY <2>2, <3>1, WrapIs
  <2>4. o = "SDIV" => arithmetic(o, a, b) = IF b = 0 THEN 0 ELSE wrap(q)
    BY DEF arithmetic
  <2>5. o = "SMOD" => arithmetic(o, a, b) = IF b = 0 THEN 0 ELSE wrap(x - y * q)
    BY DEF arithmetic
  <2> HIDE DEF q, x, y
  <2> QED BY <1>1, <1>4, <2>3, <2>4, <2>5
<1>5. CASE o = "EXP"
  BY <1>5, ExpIs DEF arithmetic
<1> QED BY <1>2, <1>3, <1>4, <1>5 DEF Arithmetic

LEMMA ComparisonIs ==
  ASSUME NEW a, NEW b, NEW o \in Comparison
  PROVE  comparison(o, a, b) \in Words
BY TruthIs DEF comparison, Comparison

\* Powers of two that differ add up to less than the next one.
itself == [x \in Int |-> x]
powers(k) == { 2 ^ i : i \in 0 .. k - 1 }

LEMMA PowersAddUp ==
  ASSUME NEW k \in 0 .. W
  PROVE  /\ IsFiniteSet(powers(k)) /\ powers(k) \in SUBSET Int /\ 2 ^ k \in Int
         /\ \A s \in SUBSET powers(k) : sum(s, itself) \in 0 .. 2 ^ k - 1
<1> DEFINE Sums(n) == /\ IsFiniteSet(powers(n)) /\ powers(n) \in SUBSET Int /\ 2 ^ n \in Int
                      /\ \A s \in SUBSET powers(n) : sum(s, itself) \in 0 .. 2 ^ n - 1
           Good == {n \in Nat : n <= W => Sums(n)}
<1>1. \A n \in Nat : 2 ^ n \in Int
  OBVIOUS
<1>2. 0 \in Good
  <2>1. powers(0) = {}
    BY DEF powers
  <2>2. 2 ^ 0 = 1
    BY EVMAssumption
  <2>3. \A s \in SUBSET {} : sum(s, itself) = 0
    BY SumOfNone
  <2> QED BY <2>1, <2>2, <2>3, FS_EmptySet
<1>3. ASSUME NEW n \in Nat, n \in Good, n + 1 <= W
      PROVE  Sums(n + 1)
  <2> DEFINE x == 2 ^ n
  <2>1. Sums(n)
    BY <1>3, WordsAre
  <2>2. 2 ^ (n + 1) = 2 * x
    BY <1>3, EVMAssumption, WordsAre
  <2>3. powers(n + 1) = powers(n) \cup {x}
    <3>1. 0 .. (n + 1) - 1 = (0 .. n - 1) \cup {n}
      OBVIOUS
    <3> QED BY <3>1 DEF powers
  <2>4. x \in Int
    BY <1>1
  <2> HIDE DEF x
  <2>5. IsFiniteSet(powers(n + 1)) /\ powers(n + 1) \in SUBSET Int
    BY <2>1, <2>3, <2>4, FS_AddElement
  <2>6. ASSUME NEW s \in SUBSET powers(n + 1)
        PROVE  sum(s, itself) \in 0 .. 2 ^ (n + 1) - 1
    <3>1. \A r \in SUBSET powers(n) : sum(r, itself) \in 0 .. x - 1
      BY <2>1 DEF x
    <3>2. CASE x \notin s
      <4>1. s \in SUBSET powers(n)
        BY <2>3, <3>2
      <4> QED BY <2>2, <2>4, <3>1, <4>1
    <3>3. CASE x \in s
      <4>1. s \ {x} \in SUBSET powers(n)
        BY <2>3
      <4>2. IsFiniteSet(s) /\ \A y \in s : itself[y] \in Int
        BY <2>5, FS_Subset DEF itself
      <4>3. sum(s, itself) = itself[x] + sum(s \ {x}, itself)
        BY <3>3, <4>2, SumMore
      <4>4. itself[x] = x
        BY <2>4 DEF itself
      <4>5. sum(s \ {x}, itself) \in 0 .. x - 1
        BY <3>1, <4>1
      <4> QED BY <2>2, <2>4, <4>3, <4>4, <4>5
    <3> QED BY <3>2, <3>3
  <2>7. 2 ^ (n + 1) \in Int
    BY <2>2, <2>4
  <2> QED BY <2>5, <2>6, <2>7
<1>4. Nat \subseteq Good
  <2>1. Good \in SUBSET Nat
    OBVIOUS
  <2>2. \A n \in Good : n + 1 \in Good
    <3> HIDE DEF Sums
    <3> QED BY <1>3
  <2> HIDE DEF Good
  <2> QED BY <1>2, <2>1, <2>2, EveryNumber
<1> QED BY <1>4, WordsAre

LEMMA SumSetIs ==
  ASSUME NEW s \in SUBSET Int, IsFiniteSet(s)
  PROVE  SumSet(s) = sum(s, itself)
<1> DEFINE E(it) == [r \in SUBSET s |-> IF r = {} THEN 0 ELSE LET x == CHOOSE x \in r : TRUE IN x + it[r \ {x}]]
           F(it) == [r \in SUBSET s |-> IF r = {} THEN 0 ELSE LET x == CHOOSE x \in r : TRUE IN itself[x] + it[r \ {x}]]
<1>1. SumSet(s) = (CHOOSE it : it = E(it))[s]
  BY DEF SumSet, FoldSet, MapThenFoldSet
<1>2. sum(s, itself) = (CHOOSE it : it = F(it))[s]
  BY DEF sum, MapThenSumSet, MapThenFoldSet
<1>3. \A it : E(it) = F(it)
  <2> TAKE it
  <2>1. ASSUME NEW r \in SUBSET s, r # {}
        PROVE  itself[CHOOSE x \in r : TRUE] = CHOOSE x \in r : TRUE
    <3>1. (CHOOSE x \in r : TRUE) \in Int
      BY <2>1
    <3> QED BY <3>1 DEF itself
  <2> QED BY <2>1
<1>4. (CHOOSE it : it = E(it)) = (CHOOSE it : it = F(it))
  <2> HIDE DEF E, F
  <2> QED BY <1>3
<1> QED BY <1>1, <1>2, <1>4

LEMMA PowersClimb ==
  ASSUME NEW k \in 0 .. W
  PROVE  \A j \in k .. W : 2 ^ k <= 2 ^ j
<1> DEFINE Good == {d \in Nat : k + d <= W => 2 ^ k <= 2 ^ (k + d)}
<1>1. k \in Nat /\ W \in Nat
  BY WordsAre
<1>2. \A i \in 0 .. W : 2 ^ i \in Nat
  <2> TAKE i \in 0 .. W
  <2>1. {} \in SUBSET powers(i)
    OBVIOUS
  <2>2. 2 ^ i \in Int /\ sum({}, itself) \in 0 .. 2 ^ i - 1
    BY <2>1, PowersAddUp
  <2> QED BY <2>2
<1>3. 0 \in Good
  <2>1. k + 0 = k
    BY <1>1
  <2> QED BY <1>2, <2>1
<1>4. ASSUME NEW d \in Nat, d \in Good
      PROVE  d + 1 \in Good
  <2> SUFFICES ASSUME k + (d + 1) <= W
               PROVE  2 ^ k <= 2 ^ (k + (d + 1))
    OBVIOUS
  <2> DEFINE n == k + d
  <2>1. n \in 0 .. W /\ k + (d + 1) = n + 1 /\ k + d = n /\ n <= W
    BY <1>1
  <2>2. 2 ^ k <= 2 ^ n
    BY <1>4, <2>1
  <2> HIDE DEF n
  <2>3. 2 ^ (n + 1) = 2 * 2 ^ n
    BY <2>1, EVMAssumption
  <2>4. 2 ^ n \in Nat /\ 2 ^ k \in Nat
    BY <1>2, <2>1
  <2>5. 2 ^ k <= 2 ^ (n + 1)
    BY <2>2, <2>3, <2>4
  <2> QED BY <2>1, <2>5
<1>5. Nat \subseteq Good
  <2>1. Good \in SUBSET Nat
    OBVIOUS
  <2> HIDE DEF Good
  <2> QED BY <1>3, <1>4, <2>1, EveryNumber
<1> QED
  <2> TAKE j \in k .. W
  <2>1. j - k \in Nat /\ k + (j - k) = j /\ j <= W
    BY <1>1
  <2> QED BY <1>5, <2>1

LEMMA BitwiseIs ==
  ASSUME NEW a, NEW b, NEW o \in Bitwisely
  PROVE  bitwise(o, a, b) \in Words
<1>1. PICK k \in 0 .. W : W = 2 ^ k
  BY EVMAssumption
<1> DEFINE Set(j) == CASE o = "AND" -> bit(a, j) = 1 /\ bit(b, j) = 1
                       [] o = "OR" -> bit(a, j) = 1 \/ bit(b, j) = 1
                       [] o = "XOR" -> bit(a, j) # bit(b, j)
           s == { 2 ^ i : i \in { j \in bits : Set(j) } }
<1>2. bitwise(o, a, b) = SumSet(s)
  BY DEF bitwise
<1>3. s \in SUBSET powers(k)
  <2> HIDE DEF Set
  <2> SUFFICES ASSUME NEW i \in bits
               PROVE  i \in 0 .. k - 1
    BY DEF powers
  <2>1. i \in 0 .. W /\ 2 ^ i < 2 ^ k
    BY <1>1 DEF bits
  <2>2. k \in Nat /\ W \in Nat
    BY WordsAre
  <2>3. k <= i => 2 ^ k <= 2 ^ i
    BY <2>1, <2>2, PowersClimb
  <2>4. 2 ^ k \in Int /\ 2 ^ i \in Int
    BY <2>1, <2>2
  <2> QED BY <2>1, <2>2, <2>3, <2>4
<1> HIDE DEF s
<1>4. IsFiniteSet(s) /\ s \in SUBSET Int
  BY <1>3, PowersAddUp, FS_Subset
<1>5. sum(s, itself) \in 0 .. W - 1
  BY <1>1, <1>3, PowersAddUp
<1> QED BY <1>2, <1>4, <1>5, SumSetIs DEF Words

LEMMA ByteIs ==
  ASSUME NEW a \in Words, NEW b \in Words
  PROVE  byteOfWord(a, b) \in Words
<1>1. a \in Nat /\ b \in Nat /\ 0 \in Words
  BY WordsAre, InWords
<1>2. CASE a < WordBytes
  <2> DEFINE d == ByteSize ^ (WordBytes - 1 - a)
             q == b \div d
  <2>1. d \in Nat /\ d # 0
    <3>1. WordBytes - 1 - a \in 0 .. WordBytes
      BY <1>1, <1>2, WordsAre
    <3> HIDE DEF d
    <3> QED BY <3>1, WordsAre DEF d
  <2>2. q \in Nat
    <3> HIDE DEF d
    <3> QED BY <1>1, <2>1
  <2>3. byteOfWord(a, b) = q % ByteSize
    BY <1>2 DEF byteOfWord
  <2> HIDE DEF q
  <2>4. q % ByteSize \in Nat /\ q % ByteSize < ByteSize
    BY <2>2, WordsAre
  <2> QED BY <2>3, <2>4, WordsAre, InWords
<1>3. CASE ~(a < WordBytes)
  BY <1>1, <1>3 DEF byteOfWord
<1> QED BY <1>2, <1>3

LEMMA SignExtendIs ==
  ASSUME NEW a \in Words, NEW b \in Words
  PROVE  signExtend(a, b) \in Words
<1>1. a \in Nat /\ b \in Nat /\ W \in Nat
  BY WordsAre, InWords
<1>2. CASE a < WordBytes - 1
  <2> DEFINE kept == ByteSize ^ (a + 1)
             r == b % kept
  <2>1. kept \in Nat /\ kept # 0 /\ kept <= W
    <3>1. a + 1 \in 0 .. WordBytes
      BY <1>1, <1>2, WordsAre
    <3> QED BY <3>1, WordsAre
  <2>2. signExtend(a, b) = IF 2 * r >= kept THEN r + W - kept ELSE r
    BY <1>1, <1>2, WordsAre DEF signExtend
  <2> HIDE DEF kept
  <2>3. r \in Nat /\ r < kept
    BY <1>1, <2>1
  <2> HIDE DEF r
  <2>4. r + W - kept \in Nat /\ r + W - kept < W /\ r < W
    BY <1>1, <2>1, <2>3
  <2> QED BY <2>2, <2>3, <2>4, InWords
<1>3. CASE ~(a < WordBytes - 1)
  BY <1>1, <1>3, WordsAre DEF signExtend
<1> QED BY <1>2, <1>3

LEMMA ModularIs ==
  ASSUME NEW a \in Words, NEW b \in Words, NEW n \in Words, NEW o
  PROVE  modular(o, a, b, n) \in Words
<1> DEFINE x == IF o = "ADDMOD" THEN a + b ELSE a * b
<1>1. a \in Nat /\ b \in Nat /\ n \in Nat /\ n < W /\ 0 \in Words /\ W \in Nat
  BY WordsAre, InWords
<1>2. x \in Int
  <2>1. a + b \in Int /\ a * b \in Int
    BY <1>1
  <2> QED BY <2>1
<1>3. modular(o, a, b, n) = IF n = 0 THEN 0 ELSE x % n
  BY DEF modular
<1> HIDE DEF x
<1>4. n # 0 => x % n \in Nat /\ x % n < n
  BY <1>1, <1>2
<1> QED BY <1>1, <1>3, <1>4, InWords

LEMMA ByteOfCode ==
  ASSUME NEW pc
  PROVE  byteAt(pc) \in 0 .. 3
BY DEF byteAt, encoding

LEMMA PushedIs ==
  ASSUME NEW o \in DOMAIN pushed
  PROVE  o \in {"PUSH1", "PUSH2"} /\ pushed[o] \in {1, 2}
BY DEF pushed

LEMMA SpanIs ==
  ASSUME NEW x \in Nat, NEW n \in Nat
  PROVE  span(x, n) \in Nat \X Nat /\ span(x, n)[2] \in Nat
BY DEF span

LEMMA RoundUpIs ==
  ASSUME NEW n \in Nat
  PROVE  roundUp(n) \in Nat /\ n <= roundUp(n)
<1> DEFINE b == WordBytes
           q == (n + b - 1) \div b
<1>1. b \in Nat \ {0}
  BY WordsAre
<1> HIDE DEF b
<1>2. q \in Nat /\ q * b \in Nat /\ n <= q * b
  BY <1>1
<1> QED BY <1>2 DEF roundUp, b

LEMMA SquaresGrow ==
  ASSUME NEW x \in Nat, NEW y \in Nat, x <= y, NEW q \in Nat \ {0}
  PROVE  x * x \in Nat /\ (x * x) \div q \in Nat /\ (x * x) \div q <= (y * y) \div q
OBVIOUS

LEMMA QuotientsGrow ==
  ASSUME NEW x \in Nat, NEW y \in Nat, x <= y, NEW q \in Nat \ {0}
  PROVE  x \div q \in Nat /\ x \div q <= y \div q
OBVIOUS

LEMMA ProductsGrow ==
  ASSUME NEW x \in Nat, NEW y \in Nat, x <= y, NEW g \in Nat
  PROVE  g * x \in Nat /\ g * x <= g * y
OBVIOUS

LEMMA SchedulesAre ==
  ASSUME NEW s \in Schedules
  PROVE  /\ s.callStipend \in Nat /\ s.callValueTransferGas \in Nat /\ s.callNewAccountGas \in Nat
         /\ s.memoryGas \in Nat /\ s.copyGas \in Nat /\ s.suicideGas \in Nat
         /\ s.callGas \in Nat \ {0} /\ s.createGas \in Nat \ {0} /\ s.logGas \in Nat \ {0}
         /\ s.sstoreSetGas \in Nat \ {0} /\ s.sstoreResetGas \in Nat \ {0} /\ s.quadCoeffDiv \in Nat \ {0}
         /\ s.callStipend <= s.callValueTransferGas
BY EVMAssumption

\* More memory costs more.
LEMMA MemoryCosts ==
  ASSUME schedule \in Schedules, NEW m \in Nat, NEW n \in Nat, m <= n
  PROVE  gasForMem(m) \in Nat /\ gasForMem(n) \in Nat /\ gasForMem(m) <= gasForMem(n)
<1> DEFINE x == m \div WordBytes
           y == n \div WordBytes
           g == schedule.memoryGas
           d == schedule.quadCoeffDiv
<1>1. x \in Nat /\ y \in Nat /\ x <= y
  BY WordsAre, QuotientsGrow
<1>2. g \in Nat /\ d \in Nat \ {0}
  BY SchedulesAre
<1>3. gasForMem(m) = g * x + (x * x) \div d /\ gasForMem(n) = g * y + (y * y) \div d
  BY DEF gasForMem
<1> HIDE DEF x, y, g, d
<1>4. g * x \in Nat /\ g * y \in Nat /\ g * x <= g * y
  BY <1>1, <1>2, ProductsGrow
<1>5. (x * x) \div d \in Nat /\ (y * y) \div d \in Nat /\ (x * x) \div d <= (y * y) \div d
  BY <1>1, <1>2, SquaresGrow
<1> DEFINE a == g * x
           b == g * y
           u == (x * x) \div d
           v == (y * y) \div d
<1>6. gasForMem(m) = a + u /\ gasForMem(n) = b + v
  BY <1>3
<1>7. a \in Nat /\ b \in Nat /\ a <= b /\ u \in Nat /\ v \in Nat /\ u <= v
  BY <1>4, <1>5
<1> HIDE DEF a, b, u, v
<1> QED BY <1>6, <1>7

LEMMA ExpansionIs ==
  ASSUME schedule \in Schedules, m_memSize \in Nat, NEW need \in Nat
  PROVE  expansionGas(need) \in Nat
<1>1. roundUp(need) \in Nat
  BY RoundUpIs
<1> DEFINE r == roundUp(need)
<1>2. r > m_memSize => gasForMem(r) \in Nat /\ gasForMem(m_memSize) \in Nat /\ gasForMem(m_memSize) <= gasForMem(r)
  <2> HIDE DEF r
  <2> SUFFICES ASSUME r > m_memSize
               PROVE  gasForMem(r) \in Nat /\ gasForMem(m_memSize) \in Nat /\ gasForMem(m_memSize) <= gasForMem(r)
    OBVIOUS
  <2>1. r \in Nat /\ m_memSize <= r
    BY <1>1 DEF r
  <2> QED BY <2>1, MemoryCosts
<1> QED BY <1>2 DEF expansionGas

LEMMA MaxOfTwo ==
  ASSUME NEW a \in Nat, NEW b \in Nat
  PROVE  Max({a, b}) \in Nat /\ a <= Max({a, b}) /\ b <= Max({a, b})
<1>1. \E x \in {a, b} : \A y \in {a, b} : x >= y
  BY SMT
<1>2. Max({a, b}) \in {a, b} /\ \A y \in {a, b} : Max({a, b}) >= y
  BY <1>1 DEF Max
<1> QED BY <1>2

\* Where the instruction after the one at pc is, and what the table has from
\* pc on.
following(pc) == pc + 1 + (IF opAt(pc) \in DOMAIN pushed THEN pushed[opAt(pc)] ELSE 0)
Destinations(f, pc) ==
    IF pc = Len(code) THEN {}
    ELSE (IF opAt(pc) = "JUMPDEST" THEN {pc} ELSE {})
         \cup (IF following(pc) > Len(code) THEN {} ELSE f[following(pc)])

LEMMA FollowingIs ==
  ASSUME NEW pc \in Nat
  PROVE  following(pc) \in Nat /\ pc < following(pc)
BY PushedIs DEF following

LEMMA TablesExist ==
  ASSUME Len(code) \in Nat
  PROVE  \E f : f = [pc \in 0 .. Len(code) |-> Destinations(f, pc)]
<1> DEFINE n == Len(code)
           From(f, k) == \A pc \in 0 .. n : n - k <= pc => f[pc] = Destinations(f, pc)
           Good == {k \in Nat : \E f : f = [pc \in 0 .. n |-> f[pc]] /\ From(f, k)}
<1>1. 0 \in Good
  <2> DEFINE f == [pc \in 0 .. n |-> {}]
  <2>1. f = [pc \in 0 .. n |-> f[pc]]
    OBVIOUS
  <2>2. From(f, 0)
    <3> SUFFICES ASSUME NEW pc \in 0 .. n, n - 0 <= pc
                 PROVE  f[pc] = Destinations(f, pc)
      OBVIOUS
    <3>1. pc = n
      OBVIOUS
    <3> QED BY <3>1 DEF Destinations
  <2> HIDE DEF f, From
  <2> QED BY <2>1, <2>2
<1>2. ASSUME NEW k \in Nat, k \in Good
      PROVE  k + 1 \in Good
  <2>1. PICK f : f = [pc \in 0 .. n |-> f[pc]] /\ From(f, k)
    <3> HIDE DEF From
    <3> QED BY <1>2
  <2> DEFINE h == [pc \in 0 .. n |-> IF n - k <= pc THEN f[pc] ELSE Destinations(f, pc)]
  <2>2. h = [pc \in 0 .. n |-> h[pc]]
    OBVIOUS
  <2>3. ASSUME NEW pc \in 0 .. n, n - (k + 1) <= pc
        PROVE  h[pc] = Destinations(h, pc)
    <3>1. h[pc] = Destinations(f, pc)
      <4>1. n - k <= pc => f[pc] = Destinations(f, pc)
        BY <2>1
      <4> HIDE DEF From
      <4> QED BY <4>1
    <3>2. pc # n /\ ~(following(pc) > n) => h[following(pc)] = f[following(pc)]
      <4>1. following(pc) \in Nat /\ pc < following(pc)
        BY FollowingIs
      <4> DEFINE x == following(pc)
      <4>2. ~(x > n) => x \in 0 .. n /\ n - k <= x
        BY <2>3, <4>1
      <4> HIDE DEF x
      <4> QED BY <4>2 DEF x
    <3> HIDE DEF h
    <3> QED BY <3>1, <3>2 DEF Destinations
  <2>4. \E g : g = [pc \in 0 .. n |-> g[pc]] /\ From(g, k + 1)
    <3>1. From(h, k + 1)
      <4> HIDE DEF h
      <4> QED BY <2>3
    <3> HIDE DEF h, From
    <3> QED BY <2>2, <3>1
  <2> HIDE DEF From
  <2> QED BY <2>4
<1>3. n \in Good
  <2>1. Good \in SUBSET Nat
    OBVIOUS
  <2> HIDE DEF Good
  <2> QED BY <1>1, <1>2, <2>1, EveryNumber
<1>4. PICK f : f = [pc \in 0 .. n |-> f[pc]] /\ From(f, n)
  <2> HIDE DEF From
  <2> QED BY <1>3
<1>5. \A pc \in 0 .. n : f[pc] = Destinations(f, pc)
  BY <1>4
<1>6. f = [pc \in 0 .. n |-> Destinations(f, pc)]
  <2> HIDE DEF From
  <2> QED BY <1>4, <1>5
<1> QED BY <1>6

\* The instructions from k on, as far as pc, when pc is one of them.
Walk(s, k, pc) ==
    /\ s \in SUBSET (k .. pc) /\ k \in s /\ pc \in s
    /\ \A i \in s : i < pc => /\ following(i) <= pc => following(i) \in s
                              /\ \A j \in i + 1 .. following(i) - 1 : j <= pc => j \notin s

LEMMA WalksExist ==
  ASSUME Len(code) \in Nat, NEW f, f = [pc \in 0 .. Len(code) |-> Destinations(f, pc)]
  PROVE  \A k \in 0 .. Len(code) : \A pc \in f[k] : pc \in Nat /\ opAt(pc) = "JUMPDEST" /\ \E s : Walk(s, k, pc)
<1> DEFINE n == Len(code)
           Lands(k, pc) == pc \in Nat /\ opAt(pc) = "JUMPDEST" /\ \E s : Walk(s, k, pc)
           Good == {d \in Nat : \A k \in 0 .. n : n - k <= d => \A pc \in f[k] : Lands(k, pc)}
<1>1. \A k \in 0 .. n : f[k] = Destinations(f, k)
  OBVIOUS
<1>2. 0 \in Good
  <2> SUFFICES ASSUME NEW k \in 0 .. n, n - k <= 0
               PROVE  f[k] = {}
    OBVIOUS
  <2>1. k = n
    OBVIOUS
  <2> QED BY <1>1, <2>1 DEF Destinations
<1>3. ASSUME NEW d \in Nat, d \in Good
      PROVE  d + 1 \in Good
  <2> SUFFICES ASSUME NEW k \in 0 .. n, n - k <= d + 1, NEW pc \in f[k]
               PROVE  Lands(k, pc)
    BY DEF Lands
  <2> DEFINE x == following(k)
  <2>1. x \in Nat /\ k < x
    BY FollowingIs
  <2>2. f[k] = Destinations(f, k)
    BY <1>1
  <2>3. CASE pc = k /\ opAt(k) = "JUMPDEST"
    <3>1. Walk({k}, k, k)
      BY DEF Walk
    <3> QED BY <2>3, <3>1
  <2>4. CASE x <= n /\ pc \in f[x]
    <3>1. Lands(x, pc)
      <4>1. x \in 0 .. n /\ n - x <= d
        BY <2>1, <2>4
      <4> HIDE DEF x, Lands
      <4> QED BY <1>3, <2>4, <4>1
    <3>2. PICK s : Walk(s, x, pc)
      BY <3>1
    <3>3. pc \in Nat /\ opAt(pc) = "JUMPDEST"
      BY <3>1
    <3> HIDE DEF x
    <3>4. s \in SUBSET (x .. pc) /\ x \in s /\ pc \in s
      BY <3>2 DEF Walk
    <3>5. s \cup {k} \in SUBSET (k .. pc) /\ k \in s \cup {k} /\ pc \in s \cup {k}
      BY <2>1, <3>3, <3>4
    <3>6. ASSUME NEW i \in s \cup {k}, i < pc
          PROVE  /\ following(i) <= pc => following(i) \in s \cup {k}
                 /\ \A j \in i + 1 .. following(i) - 1 : j <= pc => j \notin s \cup {k}
      <4>1. CASE i = k
        <5>1. following(i) = x
          BY <4>1 DEF x
        <5> QED BY <2>1, <3>4, <4>1, <5>1
      <4>2. CASE i \in s
        <5>1. /\ following(i) <= pc => following(i) \in s
              /\ \A j \in i + 1 .. following(i) - 1 : j <= pc => j \notin s
          BY <3>2, <3>6, <4>2 DEF Walk
        <5>2. i \in Nat /\ k < i
          BY <2>1, <3>4, <4>2
        <5>3. \A j \in i + 1 .. following(i) - 1 : j # k
          BY <5>2
        <5> QED BY <5>1, <5>3
      <4> QED BY <4>1, <4>2
    <3>7. Walk(s \cup {k}, k, pc)
      BY <3>5, <3>6 DEF Walk
    <3> QED BY <3>3, <3>7
  <2>5. (pc = k /\ opAt(k) = "JUMPDEST") \/ (x <= n /\ pc \in f[x])
    BY <2>1, <2>2 DEF Destinations
  <2> HIDE DEF Lands
  <2> QED BY <2>3, <2>4, <2>5
<1>4. Nat \subseteq Good
  <2>1. Good \in SUBSET Nat
    OBVIOUS
  <2> HIDE DEF Good
  <2> QED BY <1>2, <1>3, <2>1, EveryNumber
<1> QED
  <2> SUFFICES ASSUME NEW k \in 0 .. n, NEW pc \in f[k]
               PROVE  Lands(k, pc)
    OBVIOUS
  <2>1. n \in Nat /\ n - k <= n
    OBVIOUS
  <2> HIDE DEF Lands
  <2> QED BY <1>4, <2>1

LEMMA CodeOf ==
  ASSUME code \in Programs
  PROVE  Len(code) \in Nat
<1>1. code \in Seq(STRING)
  BY EVMAssumption
<1> QED BY <1>1

\* A destination of the table is an instruction.
LEMMA DestinationsAre ==
  ASSUME code \in Programs, NEW pc \in m_jumpDests
  PROVE  opAt(pc) = "JUMPDEST" /\ ~isData(pc)
<1> DEFINE n == Len(code)
           onward == [i \in 0 .. n - 1 |-> i + 1 + (IF opAt(i) \in DOMAIN pushed THEN pushed[opAt(i)] ELSE 0)]
           E(f) == [i \in 0 .. n |->
                       IF i = n THEN {}
                       ELSE (IF opAt(i) = "JUMPDEST" THEN {i} ELSE {})
                            \cup (IF onward[i] > n THEN {} ELSE f[onward[i]])]
<1>1. m_jumpDests = (CHOOSE f : f = E(f))[0]
  BY DEF m_jumpDests
<1>2. n \in Nat
  BY CodeOf
<1>3. \A f : E(f) = [i \in 0 .. n |-> Destinations(f, i)]
  <2> TAKE f
  <2>1. \A i \in 0 .. n : i # n => onward[i] = following(i)
    BY <1>2 DEF following
  <2> HIDE DEF onward
  <2> QED BY <2>1 DEF Destinations
<1> HIDE DEF E
<1>4. \E f : f = E(f)
  BY <1>2, <1>3, TablesExist
<1>5. PICK f : f = E(f) /\ m_jumpDests = f[0]
  BY <1>1, <1>4
<1>6. f = [i \in 0 .. Len(code) |-> Destinations(f, i)]
  BY <1>3, <1>5
<1>7. opAt(pc) = "JUMPDEST" /\ \E s : Walk(s, 0, pc)
  <2>1. 0 \in 0 .. Len(code)
    BY <1>2
  <2> QED BY <1>2, <1>5, <1>6, <2>1, WalksExist
<1>8. PICK s : Walk(s, 0, pc)
  BY <1>7
<1>9. ~isData(pc)
  <2>1. s \in SUBSET (0 .. pc) /\ 0 \in s /\ pc \in s
    BY <1>8 DEF Walk
  <2>2. ASSUME NEW i \in s
        PROVE  (IF opAt(i) \in DOMAIN pushed THEN i + 1 + pushed[opAt(i)] ELSE i + 1) = following(i)
    <3>1. i \in Nat
      BY <2>1
    <3> QED BY <3>1, PushedIs DEF following
  <2>3. \A i \in s : i < pc => /\ following(i) <= pc => following(i) \in s
                               /\ \A j \in i + 1 .. following(i) - 1 : j <= pc => j \notin s
    BY <1>8 DEF Walk
  <2> HIDE DEF following
  <2> QED BY <2>1, <2>2, <2>3 DEF isData
<1> QED BY <1>7, <1>9

-----------------------------------------------------------------------------
(* The steps of EVM.                                                       *)

LEMMA StateOfVM ==
  ASSUME EVMInv
  PROVE  /\ code \in Programs /\ schedule \in Schedules
         /\ m_PC \in Nat /\ m_io_gas \in Nat /\ calleeGas \in Nat /\ m_memSize \in Nat /\ jumpedTo \in Nat
         /\ m_stack \in Seq(Words) /\ storage \in [{0} -> Words] /\ storage[0] \in Words
         /\ touched \in Nat \X Nat /\ touched[2] \in Nat /\ touched[2] <= m_memSize
         /\ (jumpedTo # 0 => jumpedTo \in m_jumpDests)
BY DEF EVMInv, AccessesWithinMemory

LEMMA TableKept ==
  ASSUME code' = code
  PROVE  m_jumpDests' = m_jumpDests
BY DEF m_jumpDests, opAt

\* What the invariant is after a step that leaves the code alone.
LEMMA VMKeeps ==
  ASSUME EVMInv, code' = code, schedule' = schedule,
         m_PC' \in Nat, m_io_gas' \in Nat, calleeGas' \in Nat, m_memSize' \in Nat,
         m_stack' \in Seq(Words), storage' \in [{0} -> Words],
         touched' \in Nat \X Nat, touched'[2] <= m_memSize',
         jumpedTo' \in Nat, jumpedTo' = jumpedTo \/ jumpedTo' \in m_jumpDests
  PROVE  EVMInv'
BY StateOfVM, TableKept DEF EVMInv, AccessesWithinMemory

Falls ==
    /\ m_io_gas' + calleeGas' <= m_io_gas + calleeGas
    /\ running /\ m_bounce' # "over" => m_io_gas' + calleeGas' < m_io_gas + calleeGas

\* The gas and the memory after Pay.
LEMMA Paid ==
  ASSUME EVMInv, NEW gas \in Nat, NEW need \in Nat, NEW used \in Nat \X Nat, used[2] <= need, Pay(gas, need, used)
  PROVE  /\ m_io_gas' \in Nat /\ m_io_gas' <= m_io_gas - gas /\ m_memSize' \in Nat
         /\ touched' \in Nat \X Nat /\ touched'[2] <= m_memSize'
<1> DEFINE e == expansionGas(need)
           r == roundUp(need)
<1>1. m_io_gas \in Nat /\ m_memSize \in Nat /\ schedule \in Schedules
  BY StateOfVM
<1>2. e \in Nat
  BY <1>1, ExpansionIs
<1>3. r \in Nat /\ need <= r
  BY RoundUpIs
<1>4. /\ m_io_gas >= gas + e /\ m_io_gas' = m_io_gas - gas - e
      /\ m_memSize' = Max({m_memSize, r}) /\ touched' = used
  BY DEF Pay, canPay
<1> HIDE DEF e, r
<1>5. m_memSize' \in Nat /\ r <= m_memSize'
  BY <1>1, <1>3, <1>4, MaxOfTwo
<1>6. used[2] \in Nat
  OBVIOUS
<1>7. m_io_gas' \in Nat /\ m_io_gas' <= m_io_gas - gas
  BY <1>1, <1>2, <1>4
<1>8. used[2] <= m_memSize'
  BY <1>3, <1>5, <1>6
<1> QED BY <1>4, <1>5, <1>7, <1>8

LEMMA Beneath ==
  ASSUME EVMInv, NEW n \in Nat
  PROVE  underneath(n) \in Seq(Words)
<1>1. m_stack \in Seq(Words)
  BY StateOfVM
<1> QED BY <1>1 DEF underneath

LEMMA ArgsAre ==
  ASSUME NEW o
  PROVE  args(o) \in Nat
BY DEF args

LEMMA WordAt ==
  ASSUME EVMInv, stackHolds(op), NEW i \in Nat, i < args(op)
  PROVE  sp(i) \in Words /\ sp(i) \in Nat /\ i < Len(m_stack)
<1>1. m_stack \in Seq(Words) /\ Len(m_stack) >= args(op) /\ args(op) \in Nat
  BY StateOfVM, ArgsAre DEF stackHolds
<1>2. i + 1 \in 1 .. Len(m_stack)
  BY <1>1
<1>3. m_stack[i + 1] \in Words
  BY <1>1, <1>2
<1> QED BY <1>1, <1>3, InWords DEF sp

LEMMA CheaperThan ==
  ASSUME NEW x \in Nat, NEW y \in Nat, NEW c \in Nat, NEW g \in Nat \ {0}, y <= x - g
  PROVE  y + c < x + c /\ y + c <= x + c
OBVIOUS

\* An instruction that pays, puts words back and goes on.
LEMMA InstructionKeeps ==
  ASSUME EVMInv, NEW gas \in Nat \ {0}, NEW need \in Nat, NEW used \in Nat \X Nat, used[2] <= need,
         Pay(gas, need, used), NEW words \in Seq(Words), NEW pc \in Nat, PutBack(words, pc),
         calleeGas' = calleeGas, storage' \in [{0} -> Words],
         jumpedTo' \in Nat, jumpedTo' = jumpedTo \/ jumpedTo' \in m_jumpDests
  PROVE  EVMInv' /\ Falls
<1>1. /\ m_io_gas' \in Nat /\ m_io_gas' <= m_io_gas - gas /\ m_memSize' \in Nat
      /\ touched' \in Nat \X Nat /\ touched'[2] <= m_memSize'
  BY Paid
<1>2. m_io_gas \in Nat /\ calleeGas \in Nat
  BY StateOfVM
<1>3. /\ m_stack' = words \o underneath(args(op)) /\ m_PC' = pc /\ code' = code /\ schedule' = schedule
  BY DEF PutBack
<1>4. m_stack' \in Seq(Words)
  <2>1. underneath(args(op)) \in Seq(Words)
    BY Beneath, ArgsAre
  <2> QED BY <1>3, <2>1
<1>5. EVMInv'
  BY <1>1, <1>2, <1>3, <1>4, VMKeeps
<1>6. m_io_gas' + calleeGas' < m_io_gas + calleeGas /\ m_io_gas' + calleeGas' <= m_io_gas + calleeGas
  <2>1. m_io_gas' + calleeGas < m_io_gas + calleeGas /\ m_io_gas' + calleeGas <= m_io_gas + calleeGas
    BY <1>1, <1>2, CheaperThan
  <2> QED BY <2>1
<1> QED BY <1>5, <1>6 DEF Falls

\* ... and does nothing else.
LEMMA QuietlyKeeps ==
  ASSUME EVMInv, NEW gas \in Nat \ {0}, NEW need \in Nat, NEW used \in Nat \X Nat, used[2] <= need,
         Pay(gas, need, used), NEW words \in Seq(Words), NEW pc \in Nat, PutBack(words, pc), Quiet
  PROVE  EVMInv' /\ Falls
<1>1. calleeGas' = calleeGas /\ storage' = storage /\ jumpedTo' = jumpedTo
  BY DEF Quiet
<1>2. storage \in [{0} -> Words] /\ jumpedTo \in Nat
  BY StateOfVM
<1> QED BY <1>1, <1>2, InstructionKeeps

LEMMA NoMemory == <<0, 0>> \in Nat \X Nat /\ <<0, 0>>[2] <= 0 /\ 0 \in Nat
OBVIOUS

Free == {"STOP", "RETURN", "REVERT", "SUICIDE", "JUMPDEST"} \cup Logs \cup Calls

LEMMA PlainlyKeeps ==
  ASSUME EVMInv, Plainly, op \notin Free, NEW words \in Seq(Words), NEW pc \in Nat, PutBack(words, pc)
  PROVE  EVMInv' /\ Falls
<1>1. tierGas(op) = 1
  BY DEF tierGas, Free
<1>2. Pay(1, 0, <<0, 0>>) /\ Quiet
  BY <1>1 DEF Plainly
<1> QED BY <1>2, NoMemory, QuietlyKeeps

LEMMA PushKeepsVM ==
  ASSUME EVMInv, Plainly, op \notin Free, NEW word \in Words, Push(word)
  PROVE  EVMInv' /\ Falls
<1>1. PutBack(<<word>>, m_PC + 1) /\ m_PC + 1 \in Nat /\ <<word>> \in Seq(Words)
  BY StateOfVM DEF Push
<1> QED BY <1>1, PlainlyKeeps

LEMMA CopyIs ==
  ASSUME EVMInv, NEW n \in Nat
  PROVE  copyGas(n) \in Nat
<1> DEFINE q == (n + WordBytes - 1) \div WordBytes
           c == schedule.copyGas
<1>1. q \in Nat
  BY WordsAre
<1>2. c \in Nat
  BY StateOfVM, SchedulesAre
<1>3. copyGas(n) = c * q
  BY DEF copyGas
<1> HIDE DEF q, c
<1> QED BY <1>1, <1>2, <1>3

LEMMA RunGasOfMemory ==
  ASSUME EVMInv, stackHolds(op),
         op \in {"MLOAD", "MSTORE", "MSTORE8", "SHA3", "CALLDATACOPY", "CODECOPY", "EXTCODECOPY"} \cup Logs
  PROVE  runGas \in Nat \ {0}
<1>1. CASE op \in {"MLOAD", "MSTORE", "MSTORE8"}
  BY <1>1 DEF runGas, tierGas, Logs, Calls
<1>2. CASE op \in Logs
  <2>1. args(op) \in 2 .. 4
    BY <1>2 DEF args, Logs, Environment, pushed, Lookups, Arithmetic, Comparison, Bitwisely
  <2>2. sp(1) \in Nat
    BY <2>1, WordAt
  <2> DEFINE g == schedule.logGas
             n == args(op) - 2
             x == sp(1)
  <2>3. g \in Nat \ {0}
    BY StateOfVM, SchedulesAre
  <2>4. n \in Nat /\ x \in Nat
    BY <2>1, <2>2
  <2>5. runGas = g + g * n + x
    BY <1>2 DEF runGas, Logs
  <2> HIDE DEF g, n, x
  <2>6. g * n \in Nat
    BY <2>3, <2>4
  <2> QED BY <2>3, <2>4, <2>5, <2>6
<1>3. CASE op = "SHA3"
  <2>1. sp(1) \in Nat
    BY <1>3, WordAt DEF args, Logs, Environment, pushed, Lookups, Arithmetic, Comparison, Bitwisely
  <2>2. copyGas(sp(1)) \in Nat
    BY <2>1, CopyIs
  <2>3. runGas = 1 + copyGas(sp(1))
    BY <1>3 DEF runGas, Logs
  <2> QED BY <2>2, <2>3
<1>4. CASE op \in {"CALLDATACOPY", "CODECOPY"}
  <2>1. sp(2) \in Nat
    BY <1>4, WordAt DEF args, Logs, Environment, pushed, Lookups, Arithmetic, Comparison, Bitwisely
  <2>2. copyGas(sp(2)) \in Nat
    BY <2>1, CopyIs
  <2>3. runGas = 1 + copyGas(sp(2))
    BY <1>4 DEF runGas, Logs
  <2> QED BY <2>2, <2>3
<1>5. CASE op = "EXTCODECOPY"
  <2>1. sp(3) \in Nat
    BY <1>5, WordAt DEF args, Logs, Environment, pushed, Lookups, Arithmetic, Comparison, Bitwisely
  <2>2. copyGas(sp(3)) \in Nat
    BY <2>1, CopyIs
  <2>3. runGas = 1 + copyGas(sp(3))
    BY <1>5 DEF runGas, Logs
  <2> QED BY <2>2, <2>3
<1> QED BY <1>1, <1>2, <1>3, <1>4, <1>5

\* What an instruction needs of the memory.
LEMMA MemoryIs ==
  ASSUME EVMInv, stackHolds(op)
  PROVE  memory \in Nat \X Nat /\ memory[2] \in Nat
<1>1. CASE op \in {"MLOAD", "MSTORE"}
  <2>1. sp(0) \in Nat /\ WordBytes \in Nat
    BY <1>1, WordAt, WordsAre DEF args, Logs, Environment, pushed, Lookups, Arithmetic, Comparison, Bitwisely
  <2>2. memory = span(sp(0), WordBytes)
    BY <1>1 DEF memory, Logs
  <2> QED BY <2>1, <2>2, SpanIs
<1>2. CASE op = "MSTORE8"
  <2>1. sp(0) \in Nat
    BY <1>2, WordAt DEF args, Logs, Environment, pushed, Lookups, Arithmetic, Comparison, Bitwisely
  <2>2. memory = span(sp(0), 1)
    BY <1>2 DEF memory, Logs
  <2> QED BY <2>1, <2>2, SpanIs
<1>3. CASE op \in Logs \cup {"SHA3", "RETURN", "REVERT"}
  <2>1. sp(0) \in Nat /\ sp(1) \in Nat
    BY <1>3, WordAt DEF args, Logs, Environment, pushed, Lookups, Arithmetic, Comparison, Bitwisely
  <2>2. memory = span(sp(0), sp(1))
    BY <1>3 DEF memory, Logs
  <2> QED BY <2>1, <2>2, SpanIs
<1>4. CASE op \in {"CALLDATACOPY", "CODECOPY"}
  <2>1. sp(0) \in Nat /\ sp(2) \in Nat
    BY <1>4, WordAt DEF args, Logs, Environment, pushed, Lookups, Arithmetic, Comparison, Bitwisely
  <2>2. memory = span(sp(0), sp(2))
    BY <1>4 DEF memory, Logs
  <2> QED BY <2>1, <2>2, SpanIs
<1>5. CASE op = "EXTCODECOPY"
  <2>1. sp(1) \in Nat /\ sp(3) \in Nat
    BY <1>5, WordAt DEF args, Logs, Environment, pushed, Lookups, Arithmetic, Comparison, Bitwisely
  <2>2. memory = span(sp(1), sp(3))
    BY <1>5 DEF memory, Logs
  <2> QED BY <2>1, <2>2, SpanIs
<1>6. CASE op \notin {"MLOAD", "MSTORE", "MSTORE8", "SHA3", "RETURN", "REVERT",
                      "CALLDATACOPY", "CODECOPY", "EXTCODECOPY"} \cup Logs
  <2>1. memory = <<0, 0>>
    BY <1>6 DEF memory
  <2> QED BY <2>1
<1> QED BY <1>1, <1>2, <1>3, <1>4, <1>5, <1>6

\* The first words of the stack, as many as an instruction takes.
LEMMA TwoWords ==
  ASSUME EVMInv, at(Arithmetic \cup Comparison \cup Bitwisely \cup {"BYTE", "SIGNEXTEND", "JUMPI", "SSTORE"})
  PROVE  sp(0) \in Words /\ sp(1) \in Words
<1>1. args(op) = 2
  BY DEF at, args, Logs, Environment, pushed, Lookups, Arithmetic, Comparison, Bitwisely
<1> QED BY <1>1, WordAt DEF at

LEMMA OneWord ==
  ASSUME EVMInv, at({"NOT", "ISZERO", "JUMP", "SLOAD"})
  PROVE  sp(0) \in Words
<1>1. args(op) = 1
  BY DEF at, args, Logs, Environment, pushed, Lookups, Arithmetic, Comparison, Bitwisely
<1> QED BY <1>1, WordAt DEF at

Instructions == Arithmetic \cup Comparison \cup Bitwisely \cup Environment \cup Lookups \cup DOMAIN pushed
                \cup {"NOT", "ISZERO", "BYTE", "SIGNEXTEND", "ADDMOD", "MULMOD", "PC", "MSIZE", "GAS", "POP",
                      "DUP1", "DUP2", "SWAP1", "SWAP2", "SLOAD", "JUMP", "JUMPI"}
LEMMA NotFree ==
  ASSUME op \in Instructions
  PROVE  op \notin Free /\ tierGas(op) = 1
BY DEF Instructions, Free, Arithmetic, Comparison, Bitwisely, Environment, Lookups, pushed, tierGas, Logs, Calls

LEMMA ArithKeeps ==
  ASSUME EVMInv, Arith
  PROVE  EVMInv' /\ Falls
<1>1. at(Arithmetic) /\ op \in Arithmetic /\ Quiet
  BY DEF Arith, at
<1>2. sp(0) \in Words /\ sp(1) \in Words
  BY <1>1, TwoWords DEF at
<1>3. arithmetic(op, sp(0), sp(1)) \in Words
  BY <1>1, <1>2, ArithmeticIs
<1>4. runGas \in Nat \ {0}
  <2>1. CASE op = "EXP"
    <3> DEFINE s == { i \in 0 .. WordBytes - 1 : sp(1) >= ByteSize ^ i }
    <3>1. Cardinality(s) \in Nat
      <4>1. IsFiniteSet(0 .. WordBytes - 1)
        BY WordsAre, FS_Interval
      <4> QED BY <4>1, FS_Subset, FS_CardinalityType
    <3>2. runGas = 1 + Cardinality(s)
      BY <2>1 DEF runGas, Logs
    <3> QED BY <3>1, <3>2
  <2>2. CASE op # "EXP"
    <3>1. runGas = tierGas(op)
      BY <1>1, <2>2 DEF runGas, Logs, Arithmetic
    <3>2. tierGas(op) = 1
      BY <1>1, NotFree DEF Instructions
    <3> QED BY <3>1, <3>2
  <2> QED BY <2>1, <2>2
<1>5. PutBack(<<arithmetic(op, sp(0), sp(1))>>, m_PC + 1) /\ Pay(runGas, 0, <<0, 0>>)
  BY DEF Arith, Push
<1>6. m_PC + 1 \in Nat /\ <<arithmetic(op, sp(0), sp(1))>> \in Seq(Words)
  BY <1>3, StateOfVM
<1> QED BY <1>1, <1>4, <1>5, <1>6, NoMemory, QuietlyKeeps

LEMMA WordsKeep ==
  ASSUME EVMInv, Compare \/ Combine \/ NotOp \/ IsZero \/ ByteOp \/ SignExtend
  PROVE  EVMInv' /\ Falls
<1>1. CASE Compare
  <2>1. op \in Comparison /\ Plainly /\ Push(comparison(op, sp(0), sp(1)))
    BY <1>1 DEF Compare, at
  <2>2. comparison(op, sp(0), sp(1)) \in Words
    BY <2>1, ComparisonIs
  <2> QED BY <2>1, <2>2, NotFree, PushKeepsVM DEF Instructions
<1>2. CASE Combine
  <2>1. op \in Bitwisely /\ Plainly /\ Push(bitwise(op, sp(0), sp(1)))
    BY <1>2 DEF Combine, at
  <2>2. bitwise(op, sp(0), sp(1)) \in Words
    BY <2>1, BitwiseIs
  <2> QED BY <2>1, <2>2, NotFree, PushKeepsVM DEF Instructions
<1>3. CASE NotOp
  <2>1. at({"NOT"}) /\ op = "NOT" /\ Plainly /\ Push(W - 1 - sp(0))
    BY <1>3 DEF NotOp, at
  <2>2. sp(0) \in Words
    BY <2>1, OneWord DEF at
  <2>3. W - 1 - sp(0) \in Words
    BY <2>2, WordsAre DEF Words
  <2> QED BY <2>1, <2>3, NotFree, PushKeepsVM DEF Instructions
<1>4. CASE IsZero
  <2>1. op = "ISZERO" /\ Plainly /\ Push(truth(sp(0) = 0))
    BY <1>4 DEF IsZero, at
  <2>2. truth(sp(0) = 0) \in Words
    BY WordsAre, InWords DEF truth
  <2> QED BY <2>1, <2>2, NotFree, PushKeepsVM DEF Instructions
<1>5. CASE ByteOp
  <2>1. at({"BYTE"}) /\ op = "BYTE" /\ Plainly /\ Push(byteOfWord(sp(0), sp(1)))
    BY <1>5 DEF ByteOp, at
  <2>2. byteOfWord(sp(0), sp(1)) \in Words
    BY <2>1, TwoWords, ByteIs DEF at
  <2> QED BY <2>1, <2>2, NotFree, PushKeepsVM DEF Instructions
<1>6. CASE SignExtend
  <2>1. at({"SIGNEXTEND"}) /\ op = "SIGNEXTEND" /\ Plainly /\ Push(signExtend(sp(0), sp(1)))
    BY <1>6 DEF SignExtend, at
  <2>2. signExtend(sp(0), sp(1)) \in Words
    BY <2>1, TwoWords, SignExtendIs DEF at
  <2> QED BY <2>1, <2>2, NotFree, PushKeepsVM DEF Instructions
<1> QED BY <1>1, <1>2, <1>3, <1>4, <1>5, <1>6

LEMMA ModularKeeps == EVMInv /\ Modular => EVMInv' /\ Falls
<1> SUFFICES ASSUME EVMInv, Modular
             PROVE  EVMInv' /\ Falls
  OBVIOUS
<1>1. op \in {"ADDMOD", "MULMOD"} /\ stackHolds(op) /\ Plainly /\ Push(modular(op, sp(0), sp(1), sp(2)))
  BY DEF Modular, at
<1>2. args(op) = 3
  BY <1>1 DEF args, Environment, pushed, Lookups, Arithmetic, Comparison, Bitwisely
<1>3. sp(0) \in Words /\ sp(1) \in Words /\ sp(2) \in Words
  BY <1>1, <1>2, WordAt
<1>4. modular(op, sp(0), sp(1), sp(2)) \in Words
  BY <1>3, ModularIs
<1> QED BY <1>1, <1>4, NotFree, PushKeepsVM DEF Instructions

LEMMA AnswersKeep == EVMInv /\ (Ask \/ Own) => EVMInv' /\ Falls
<1> SUFFICES ASSUME EVMInv, Ask \/ Own
             PROVE  EVMInv' /\ Falls
  OBVIOUS
<1>1. CASE Ask
  <2>1. op \in Environment \cup Lookups /\ Plainly
    BY <1>1 DEF Ask, at
  <2>2. PICK w \in Answers : Push(w)
    BY <1>1 DEF Ask
  <2>3. w \in Words
    BY EVMAssumption
  <2> QED BY <2>1, <2>2, <2>3, NotFree, PushKeepsVM DEF Instructions
<1>2. CASE Own
  <2> DEFINE word == CASE op = "PC" -> wrap(m_PC) [] op = "MSIZE" -> wrap(m_memSize) [] op = "GAS" -> wrap(m_io_gas')
  <2>1. op \in {"PC", "MSIZE", "GAS"} /\ Plainly /\ Push(word)
    BY <1>2 DEF Own, at
  <2>2. op \in Instructions
    BY <2>1 DEF Instructions
  <2>3. m_io_gas' \in Nat
    <3>1. Pay(1, 0, <<0, 0>>)
      BY <2>1, <2>2, NotFree DEF Plainly
    <3> QED BY <3>1, NoMemory, Paid
  <2>4. wrap(m_PC) \in Words /\ wrap(m_memSize) \in Words /\ wrap(m_io_gas') \in Words
    BY <2>3, StateOfVM, WrapIs
  <2>5. word \in Words
    BY <2>1, <2>4
  <2> HIDE DEF word
  <2>6. PutBack(<<word>>, m_PC + 1) /\ m_PC + 1 \in Nat /\ <<word>> \in Seq(Words)
    BY <2>1, <2>5, StateOfVM DEF Push
  <2> QED BY <2>1, <2>2, <2>6, NotFree, PlainlyKeeps
<1> QED BY <1>1, <1>2

LEMMA PushOpKeeps == EVMInv /\ PushOp => EVMInv' /\ Falls
<1> SUFFICES ASSUME EVMInv, PushOp
             PROVE  EVMInv' /\ Falls
  OBVIOUS
<1> DEFINE n == pushed[op]
           b == byteAt(m_PC + 1)
           c == byteAt(m_PC + 2)
           word == IF n = 1 THEN b ELSE ByteSize * b + c
<1>1. op \in DOMAIN pushed /\ Plainly /\ PutBack(<<word>>, m_PC + 1 + n)
  BY DEF PushOp, at
<1>2. n \in Nat
  BY <1>1, PushedIs
<1>3. word \in Words
  <2>1. b \in 0 .. 3 /\ c \in 0 .. 3
    BY ByteOfCode
  <2> HIDE DEF b, c, n
  <2> DEFINE z == ByteSize
  <2>2. z \in Nat /\ z >= 4 /\ W >= z * z /\ W \in Nat
    BY WordsAre
  <2>3. b < W /\ z * b + c \in Nat /\ z * b + c < W
    <3> HIDE DEF z
    <3>1. z * b \in Nat /\ z * b <= z * 3 /\ z * 4 <= z * z
      <4>1. b \in Nat /\ b <= 3 /\ 4 \in Nat /\ 3 \in Nat /\ 4 <= z
        BY <2>1, <2>2
      <4> QED BY <2>2, <4>1, ProductsGrow
    <3> DEFINE u == z * b
               v == z * z
    <3>2. u \in Nat /\ u <= z * 3 /\ z * 4 <= v /\ v \in Nat /\ W >= v
      BY <2>2, <3>1
    <3> HIDE DEF u, v
    <3>3. b < W /\ u + c \in Nat /\ u + c < W
      BY <2>1, <2>2, <3>2
    <3> QED BY <3>3 DEF u
  <2>4. b \in Nat
    BY <2>1
  <2>5. b \in Words /\ ByteSize * b + c \in Words
    BY <2>3, <2>4, InWords DEF z
  <2> QED BY <2>5
<1> HIDE DEF word, n
<1>4. <<word>> \in Seq(Words) /\ m_PC + 1 + n \in Nat
  BY <1>2, <1>3, StateOfVM
<1> QED BY <1>1, <1>4, NotFree, PlainlyKeeps DEF Instructions

LEMMA ShuffleKeeps == EVMInv /\ (Pop \/ Dup \/ Swap) => EVMInv' /\ Falls
<1> SUFFICES ASSUME EVMInv, Pop \/ Dup \/ Swap
             PROVE  EVMInv' /\ Falls
  OBVIOUS
<1>1. m_PC + 1 \in Nat /\ m_stack \in Seq(Words) /\ << >> \in Seq(Words)
  BY StateOfVM
<1>2. CASE Pop
  <2>1. op = "POP" /\ Plainly /\ PutBack(<< >>, m_PC + 1)
    BY <1>2 DEF Pop, at
  <2> QED BY <1>1, <2>1, NotFree, PlainlyKeeps DEF Instructions
<1>3. CASE Dup
  <2> DEFINE words == <<sp(args(op) - 1)>> \o SubSeq(m_stack, 1, args(op))
  <2>1. op \in {"DUP1", "DUP2"} /\ stackHolds(op) /\ Plainly /\ PutBack(words, m_PC + 1)
    BY <1>3 DEF Dup, at
  <2>2. args(op) \in {1, 2}
    BY <2>1 DEF args, Environment, pushed, Lookups, Arithmetic, Comparison, Bitwisely
  <2>3. sp(args(op) - 1) \in Words
    <3>1. args(op) - 1 \in Nat /\ args(op) - 1 < args(op)
      BY <2>2
    <3> QED BY <2>1, <3>1, WordAt
  <2>4. SubSeq(m_stack, 1, args(op)) \in Seq(Words)
    <3>1. args(op) <= Len(m_stack)
      BY <2>1, <2>2 DEF stackHolds
    <3> QED BY <1>1, <2>2, <3>1
  <2>5. words \in Seq(Words)
    BY <2>3, <2>4
  <2> HIDE DEF words
  <2> QED BY <1>1, <2>1, <2>5, NotFree, PlainlyKeeps DEF Instructions
<1>4. CASE Swap
  <2> DEFINE n == args(op)
             words == [i \in 1 .. n |-> IF i = 1 THEN sp(n - 1) ELSE IF i = n THEN sp(0) ELSE sp(i - 1)]
  <2>1. op \in {"SWAP1", "SWAP2"} /\ stackHolds(op) /\ Plainly /\ PutBack(words, m_PC + 1)
    BY <1>4 DEF Swap, at
  <2>2. n \in {2, 3}
    BY <2>1 DEF args, Environment, pushed, Lookups, Arithmetic, Comparison, Bitwisely
  <2>3. \A i \in 0 .. n - 1 : sp(i) \in Words
    <3> SUFFICES ASSUME NEW i \in 0 .. n - 1
                 PROVE  sp(i) \in Words
      OBVIOUS
    <3>1. i \in Nat /\ i < args(op)
      BY <2>2
    <3> QED BY <2>1, <3>1, WordAt
  <2>4. words \in Seq(Words)
    <3> HIDE DEF n
    <3>1. \A i \in 1 .. n : words[i] \in Words
      <4> SUFFICES ASSUME NEW i \in 1 .. n
                   PROVE  words[i] \in Words
        OBVIOUS
      <4>1. n - 1 \in 0 .. n - 1 /\ 0 \in 0 .. n - 1 /\ i - 1 \in 0 .. n - 1
        BY <2>2
      <4> QED BY <2>3, <4>1
    <3>2. words \in [1 .. n -> Words]
      BY <3>1
    <3>3. n \in Nat
      BY <2>2
    <3> HIDE DEF words
    <3> QED BY <3>2, <3>3
  <2> HIDE DEF words
  <2> QED BY <1>1, <2>1, <2>4, NotFree, PlainlyKeeps DEF Instructions
<1> QED BY <1>2, <1>3, <1>4

LEMMA MemoryKeeps == EVMInv /\ Memory => EVMInv' /\ Falls
<1> SUFFICES ASSUME EVMInv, Memory
             PROVE  EVMInv' /\ Falls
  OBVIOUS
<1>1. /\ op \in {"MLOAD", "MSTORE", "MSTORE8", "SHA3", "CALLDATACOPY", "CODECOPY", "EXTCODECOPY"} \cup Logs
      /\ stackHolds(op) /\ Pay(runGas, memory[2], memory) /\ Quiet
  BY DEF Memory, at
<1>2. runGas \in Nat \ {0} /\ memory \in Nat \X Nat /\ memory[2] \in Nat /\ memory[2] <= memory[2]
  BY <1>1, RunGasOfMemory, MemoryIs
<1>3. \E words \in Seq(Words) : PutBack(words, m_PC + 1)
  <2>1. CASE op \in {"MLOAD", "SHA3"}
    <3>1. PICK w \in Answers : PutBack(<<w>>, m_PC + 1)
      BY <2>1 DEF Memory, Push
    <3>2. <<w>> \in Seq(Words)
      BY EVMAssumption
    <3> QED BY <3>1, <3>2
  <2>2. CASE op \notin {"MLOAD", "SHA3"}
    <3>1. PutBack(<< >>, m_PC + 1) /\ << >> \in Seq(Words)
      BY <2>2 DEF Memory
    <3> QED BY <3>1
  <2> QED BY <2>1, <2>2
<1>4. m_PC + 1 \in Nat
  BY StateOfVM
<1> QED BY <1>1, <1>2, <1>3, <1>4, QuietlyKeeps

LEMMA StorageKeeps == EVMInv /\ (SLoad \/ SStore) => EVMInv' /\ Falls
<1> SUFFICES ASSUME EVMInv, SLoad \/ SStore
             PROVE  EVMInv' /\ Falls
  OBVIOUS
<1>1. CASE SLoad
  <2>1. op = "SLOAD" /\ Plainly /\ Push(storage[0])
    BY <1>1 DEF SLoad, at
  <2>2. storage[0] \in Words
    BY StateOfVM
  <2> QED BY <2>1, <2>2, NotFree, PushKeepsVM DEF Instructions
<1>2. CASE SStore
  <2>1. /\ at({"SSTORE"}) /\ op = "SSTORE" /\ Pay(runGas, 0, <<0, 0>>) /\ PutBack(<< >>, m_PC + 1)
        /\ storage' = [storage EXCEPT ![0] = sp(1)] /\ calleeGas' = calleeGas /\ jumpedTo' = jumpedTo
    BY <1>2 DEF SStore, at
  <2>2. sp(1) \in Words
    BY <2>1, TwoWords DEF at
  <2>3. runGas \in Nat \ {0}
    <3>1. runGas \in {schedule.sstoreSetGas, schedule.sstoreResetGas}
      BY <2>1 DEF runGas, Logs
    <3> QED BY <3>1, StateOfVM, SchedulesAre
  <2>4. storage' \in [{0} -> Words] /\ jumpedTo' \in Nat
    BY <2>1, <2>2, StateOfVM
  <2>5. m_PC + 1 \in Nat /\ << >> \in Seq(Words)
    BY StateOfVM
  <2> QED BY <2>1, <2>3, <2>4, <2>5, NoMemory, InstructionKeeps
<1> QED BY <1>1, <1>2

LEMMA JumpsKeep == EVMInv /\ (Jump \/ DoesNotJump \/ JumpDest) => EVMInv' /\ Falls
<1> SUFFICES ASSUME EVMInv, Jump \/ DoesNotJump \/ JumpDest
             PROVE  EVMInv' /\ Falls
  OBVIOUS
<1>1. << >> \in Seq(Words) /\ m_PC + 1 \in Nat /\ storage \in [{0} -> Words]
  BY StateOfVM
<1>2. CASE Jump
  <2>1. /\ op \in {"JUMP", "JUMPI"} /\ stackHolds(op) /\ sp(0) \in m_jumpDests
        /\ Pay(tierGas(op), 0, <<0, 0>>) /\ PutBack(<< >>, sp(0))
        /\ jumpedTo' = sp(0) /\ calleeGas' = calleeGas /\ storage' = storage
    BY <1>2 DEF Jump, at, JumpTo
  <2>2. sp(0) \in Nat
    <3>1. args(op) \in {1, 2}
      BY <2>1 DEF args, Environment, pushed, Lookups, Arithmetic, Comparison, Bitwisely
    <3> QED BY <2>1, <3>1, WordAt
  <2>3. tierGas(op) = 1
    BY <2>1, NotFree DEF Instructions
  <2>4. Pay(1, 0, <<0, 0>>)
    BY <2>1, <2>3
  <2> DEFINE to == sp(0)
  <2>5. /\ to \in Nat /\ PutBack(<< >>, to) /\ jumpedTo' \in Nat /\ jumpedTo' \in m_jumpDests
        /\ calleeGas' = calleeGas /\ storage' \in [{0} -> Words]
    BY <1>1, <2>1, <2>2
  <2> HIDE DEF to
  <2>6. 1 \in Nat \ {0}
    OBVIOUS
  <2> QED BY <1>1, <2>4, <2>5, <2>6, NoMemory, InstructionKeeps
<1>3. CASE DoesNotJump
  <2>1. op = "JUMPI" /\ Plainly /\ PutBack(<< >>, m_PC + 1)
    BY <1>3 DEF DoesNotJump, at
  <2> QED BY <1>1, <2>1, NotFree, PlainlyKeeps DEF Instructions
<1>4. CASE JumpDest
  <2>1. Pay(1, 0, <<0, 0>>) /\ PutBack(<< >>, m_PC + 1) /\ Quiet
    BY <1>4 DEF JumpDest
  <2>2. 1 \in Nat \ {0}
    OBVIOUS
  <2> DEFINE onward == m_PC + 1
  <2>3. onward \in Nat /\ PutBack(<< >>, onward)
    BY <1>1, <2>1
  <2> HIDE DEF onward
  <2> QED BY <1>1, <2>1, <2>2, <2>3, NoMemory, QuietlyKeeps
<1> QED BY <1>2, <1>3, <1>4

LEMMA ThrowKeeps ==
  ASSUME EVMInv, NEW why, Throw(why)
  PROVE  EVMInv' /\ Falls
<1>1. /\ code' = code /\ schedule' = schedule /\ m_PC' = m_PC /\ m_io_gas' = m_io_gas /\ m_stack' = m_stack
      /\ m_memSize' = m_memSize /\ touched' = touched /\ calleeGas' = calleeGas /\ storage' = storage
      /\ jumpedTo' = jumpedTo /\ m_bounce' = "over"
  BY DEF Throw
<1>2. EVMInv'
  BY <1>1, StateOfVM, VMKeeps
<1>3. Falls
  BY <1>1, StateOfVM DEF Falls
<1> QED BY <1>2, <1>3

\* An instruction that ends the run.
LEMMA EndKeeps ==
  ASSUME EVMInv, Pay(runGas, memory[2], memory), runGas \in Nat, stackHolds(op), NEW why, Exit(why),
         UNCHANGED <<code, schedule, m_PC, m_stack>>, Quiet
  PROVE  EVMInv' /\ Falls
<1>1. memory \in Nat \X Nat /\ memory[2] \in Nat /\ memory[2] <= memory[2]
  BY MemoryIs
<1>2. /\ m_io_gas' \in Nat /\ m_io_gas' <= m_io_gas - runGas /\ m_memSize' \in Nat
      /\ touched' \in Nat \X Nat /\ touched'[2] <= m_memSize'
  BY <1>1, Paid
<1>3. /\ code' = code /\ schedule' = schedule /\ m_PC' = m_PC /\ m_stack' = m_stack
      /\ calleeGas' = calleeGas /\ storage' = storage /\ jumpedTo' = jumpedTo /\ m_bounce' = "over"
  BY DEF Quiet, Exit
<1>4. EVMInv'
  BY <1>2, <1>3, StateOfVM, VMKeeps
<1>5. m_io_gas' <= m_io_gas
  BY <1>2, StateOfVM
<1>6. m_io_gas' + calleeGas' <= m_io_gas + calleeGas
  BY <1>2, <1>3, <1>5, StateOfVM
<1> QED BY <1>3, <1>4, <1>6 DEF Falls

LEMMA HaltKeeps == EVMInv /\ (Halt \/ Revert) => EVMInv' /\ Falls
<1> SUFFICES ASSUME EVMInv, Halt \/ Revert
             PROVE  EVMInv' /\ Falls
  OBVIOUS
<1>1. op \in {"STOP", "RETURN", "SUICIDE", "REVERT"} => runGas \in Nat
  <2>1. op = "SUICIDE" => runGas = schedule.suicideGas
    BY DEF runGas, Logs
  <2>2. op \in {"STOP", "RETURN", "REVERT"} => runGas = tierGas(op)
    BY DEF runGas, Logs
  <2>3. op \in {"STOP", "RETURN", "REVERT"} => tierGas(op) = 0
    BY DEF tierGas
  <2> QED BY <2>1, <2>2, <2>3, StateOfVM, SchedulesAre
<1>2. CASE Halt
  <2>1. /\ op \in {"STOP", "RETURN", "SUICIDE"} /\ stackHolds(op) /\ Pay(runGas, memory[2], memory) /\ Exit(op)
        /\ UNCHANGED <<code, schedule, m_PC, m_stack>> /\ Quiet
    BY <1>2 DEF Halt, at
  <2> QED BY <1>1, <2>1, EndKeeps
<1>3. CASE Revert /\ canPay(runGas, memory[2])
  <2>1. /\ op = "REVERT" /\ stackHolds(op) /\ Pay(runGas, memory[2], memory) /\ Exit("REVERT")
        /\ UNCHANGED <<code, schedule, m_PC, m_stack>> /\ Quiet
    BY <1>3 DEF Revert, at
  <2> QED BY <1>1, <2>1, EndKeeps
<1>4. CASE Revert /\ ~canPay(runGas, memory[2])
  <2>1. Throw("OutOfGas")
    BY <1>4 DEF Revert
  <2> QED BY <2>1, ThrowKeeps
<1> QED BY <1>2, <1>3, <1>4

LEMMA ShareIs ==
  ASSUME NEW gas \in Nat
  PROVE  allBut(gas) \in Nat /\ allBut(gas) <= gas
<1> DEFINE c == c_allButOne
<1>1. c \in Nat \ {0}
  BY WordsAre
<1> HIDE DEF c
<1>2. gas \div c \in Nat /\ gas \div c <= gas
  BY <1>1
<1> DEFINE q == gas \div c
<1>3. q \in Nat /\ q <= gas
  BY <1>2
<1> HIDE DEF q
<1>4. gas - q \in Nat /\ gas - q <= gas
  BY <1>3
<1> QED BY <1>4 DEF allBut, c, q

LEMMA LesserOf ==
  ASSUME NEW a \in Nat, NEW b \in Nat
  PROVE  Min({a, b}) \in Nat /\ Min({a, b}) <= b
<1>1. \E x \in {a, b} : \A y \in {a, b} : x <= y
  BY SMT
<1>2. Min({a, b}) \in {a, b} /\ \A y \in {a, b} : Min({a, b}) <= y
  BY <1>1 DEF Min
<1> QED BY <1>2

\* A call is paid for, its memory and the gas of the callee as well.
LEMMA CalleePaid ==
  ASSUME EVMInv, NEW gas \in Nat \ {0}, NEW need \in Nat, NEW given \in Nat, NEW stipend \in Nat, stipend < gas,
         m_io_gas >= gas + expansionGas(need),
         given <= m_io_gas - gas - expansionGas(need),
         m_io_gas' = m_io_gas - gas - expansionGas(need) - given, calleeGas' = given + stipend,
         m_memSize' = Max({m_memSize, roundUp(need)}), touched' \in Nat \X Nat, touched'[2] = need,
         UNCHANGED <<code, schedule, m_PC, m_stack, storage, jumpedTo>>
  PROVE  EVMInv' /\ Falls
<1> DEFINE e == expansionGas(need)
           r == roundUp(need)
<1>1. m_io_gas \in Nat /\ m_memSize \in Nat /\ calleeGas \in Nat /\ schedule \in Schedules
  BY StateOfVM
<1>2. e \in Nat
  BY <1>1, ExpansionIs
<1>3. r \in Nat /\ need <= r
  BY RoundUpIs
<1>4. /\ m_io_gas' = m_io_gas - gas - e - given /\ m_io_gas >= gas + e /\ given <= m_io_gas - gas - e
      /\ m_memSize' = Max({m_memSize, r})
  OBVIOUS
<1> HIDE DEF e, r
<1>5. m_memSize' \in Nat /\ r <= m_memSize'
  BY <1>1, <1>3, <1>4, MaxOfTwo
<1>6. m_io_gas' \in Nat /\ calleeGas' \in Nat
  BY <1>1, <1>2, <1>4
<1>7. touched'[2] <= m_memSize'
  BY <1>3, <1>5
<1>8. EVMInv'
  <2>1. /\ code' = code /\ schedule' = schedule /\ m_PC' = m_PC /\ m_stack' = m_stack /\ storage' = storage
        /\ jumpedTo' = jumpedTo
    OBVIOUS
  <2> QED BY <1>5, <1>6, <1>7, <2>1, StateOfVM, VMKeeps
<1>9. m_io_gas' + calleeGas' < m_io_gas + calleeGas
  <2> DEFINE x == m_io_gas
             y == m_io_gas'
             d == calleeGas
             z == calleeGas'
  <2>1. /\ x \in Nat /\ y = x - gas - e - given /\ d \in Nat /\ z = given + stipend /\ e \in Nat
        /\ y \in Nat /\ z \in Nat
    BY <1>1, <1>2, <1>4, <1>6
  <2> HIDE DEF x, y, d, z
  <2>2. y + z < x + d
    BY <2>1
  <2> QED BY <2>2 DEF x, y, d, z
<1>10. m_io_gas' + calleeGas' <= m_io_gas + calleeGas
  BY <1>1, <1>6, <1>9
<1> QED BY <1>8, <1>9, <1>10 DEF Falls

LEMMA CreateSetupKeeps == EVMInv /\ CreateSetup => EVMInv' /\ Falls
<1> SUFFICES ASSUME EVMInv, CreateSetup
             PROVE  EVMInv' /\ Falls
  OBVIOUS
<1> DEFINE need == span(sp(1), sp(2))
           gas == schedule.createGas
           left == m_io_gas - gas - expansionGas(need[2])
           given == IF schedule.eip150Mode THEN allBut(left) ELSE left
<1>1. op = "CREATE" /\ stackHolds(op)
  BY DEF CreateSetup, at
<1>2. args(op) = 3
  BY <1>1 DEF args, Environment, pushed, Lookups, Arithmetic, Comparison, Bitwisely
<1>3. need \in Nat \X Nat /\ need[2] \in Nat
  <2>1. sp(1) \in Nat /\ sp(2) \in Nat
    BY <1>1, <1>2, WordAt
  <2> QED BY <2>1, SpanIs
<1>4. gas \in Nat \ {0} /\ m_io_gas \in Nat /\ m_memSize \in Nat /\ schedule \in Schedules
  BY StateOfVM, SchedulesAre
<1>5. expansionGas(need[2]) \in Nat
  BY <1>3, <1>4, ExpansionIs
<1>6. CASE ~canPay(gas, need[2])
  <2>1. Throw("OutOfGas")
    BY <1>6 DEF CreateSetup
  <2> QED BY <2>1, ThrowKeeps
<1>7. CASE canPay(gas, need[2])
  <2>1. /\ m_io_gas' = left - given /\ calleeGas' = given
        /\ m_memSize' = Max({m_memSize, roundUp(need[2])}) /\ touched' = need
        /\ UNCHANGED <<code, schedule, m_PC, m_stack, storage, jumpedTo>>
    BY <1>7 DEF CreateSetup
  <2>2. m_io_gas >= gas + expansionGas(need[2])
    BY <1>7 DEF canPay
  <2>3. left \in Nat
    BY <1>4, <1>5, <2>2
  <2>4. given \in Nat /\ given <= left
    <3> HIDE DEF left
    <3> QED BY <2>3, ShareIs
  <2> DEFINE n == need[2]
  <2>5. n \in Nat /\ touched' \in Nat \X Nat /\ touched'[2] = n
    BY <1>3, <2>1
  <2> HIDE DEF given
  <2>6. /\ m_io_gas >= gas + expansionGas(n) /\ given <= m_io_gas - gas - expansionGas(n)
        /\ m_io_gas' = m_io_gas - gas - expansionGas(n) - given
        /\ m_memSize' = Max({m_memSize, roundUp(n)})
    BY <2>1, <2>2, <2>4
  <2>7. calleeGas' = given + 0 /\ 0 < gas /\ 0 \in Nat
    BY <1>4, <2>1, <2>4
  <2> HIDE DEF need, n, gas
  <2> QED BY <1>4, <2>1, <2>4, <2>5, <2>6, <2>7, CalleePaid
<1> QED BY <1>6, <1>7

LEMMA CallSetupKeeps == EVMInv /\ CallSetup => EVMInv' /\ Falls
<1> SUFFICES ASSUME EVMInv, CallSetup
             PROVE  EVMInv' /\ Falls
  OBVIOUS
<1> DEFINE need == callMemory
           e == expansionGas(need)
<1>1. op \in Calls /\ stackHolds(op)
  BY DEF CallSetup, at
<1>2. args(op) = IF op = "DELEGATECALL" THEN 6 ELSE 7
  BY <1>1 DEF args, Calls, Logs, Environment, pushed, Lookups, Arithmetic, Comparison, Bitwisely
<1>3. need \in Nat
  <2> DEFINE a == span(sp(inputAt), sp(inputAt + 1))
             b == span(sp(inputAt + 2), sp(inputAt + 3))
  <2>1. inputAt \in Nat /\ inputAt + 3 < args(op)
    BY <1>2 DEF inputAt
  <2>2. sp(inputAt) \in Nat /\ sp(inputAt + 1) \in Nat /\ sp(inputAt + 2) \in Nat /\ sp(inputAt + 3) \in Nat
    <3>1. /\ inputAt \in Nat /\ inputAt < args(op) /\ inputAt + 1 \in Nat /\ inputAt + 1 < args(op)
          /\ inputAt + 2 \in Nat /\ inputAt + 2 < args(op) /\ inputAt + 3 \in Nat /\ inputAt + 3 < args(op)
      BY <2>1, ArgsAre
    <3> QED BY <1>1, <3>1, WordAt
  <2>3. a[2] \in Nat /\ b[2] \in Nat
    BY <2>2, SpanIs
  <2>4. callMemory = Max({ s[2] : s \in {a, b} })
    BY DEF callMemory, callSpans
  <2> HIDE DEF a, b
  <2>5. { s[2] : s \in {a, b} } = {a[2], b[2]}
    OBVIOUS
  <2> QED BY <2>3, <2>4, <2>5, MaxOfTwo
<1>4. /\ schedule \in Schedules /\ m_io_gas \in Nat /\ m_memSize \in Nat
      /\ schedule.callGas \in Nat \ {0} /\ schedule.callNewAccountGas \in Nat
      /\ schedule.callValueTransferGas \in Nat /\ schedule.callStipend \in Nat
      /\ schedule.callStipend <= schedule.callValueTransferGas
  BY StateOfVM, SchedulesAre
<1>5. e \in Nat
  BY <1>3, <1>4, ExpansionIs
<1>6. sp(0) \in Nat
  BY <1>1, <1>2, WordAt
<1> DEFINE stipend == IF valueOf > 0 THEN schedule.callStipend ELSE 0
<1>7. \A lives \in BOOLEAN : staticGas(lives) \in Nat \ {0} /\ stipend \in Nat /\ stipend < staticGas(lives)
  <2> TAKE lives \in BOOLEAN
  <2> DEFINE x == IF op = "CALL" /\ ~lives /\ (sp(2) > 0 \/ ~schedule.eip158Mode) THEN schedule.callNewAccountGas ELSE 0
             y == IF valueOf > 0 THEN schedule.callValueTransferGas ELSE 0
  <2>1. staticGas(lives) = schedule.callGas + x + y
    BY DEF staticGas
  <2>2. x \in Nat /\ y \in Nat /\ stipend \in Nat /\ stipend <= y
    BY <1>4
  <2> HIDE DEF x, y, stipend
  <2> QED BY <1>4, <2>1, <2>2
<1>8. PICK lives \in BOOLEAN :
        LET left == m_io_gas - staticGas(lives) - e
            given == IF schedule.eip150Mode THEN Min({sp(0), allBut(left)}) ELSE sp(0)
        IN IF ~canPay(staticGas(lives), need) \/ left < given
           THEN Throw("OutOfGas")
           ELSE /\ m_io_gas' = left - given
                /\ calleeGas' = given + stipend
                /\ m_memSize' = Max({m_memSize, roundUp(need)})
                /\ touched' = <<0, Max({ s[2] : s \in callSpans })>>
                /\ m_bounce' = "calling"
                /\ UNCHANGED <<code, schedule, m_PC, m_stack, storage, refunds, jumpedTo, halted>>
  BY DEF CallSetup
<1> DEFINE gas == staticGas(lives)
           left == m_io_gas - gas - e
           given == IF schedule.eip150Mode THEN Min({sp(0), allBut(left)}) ELSE sp(0)
<1>9. CASE ~canPay(gas, need) \/ left < given
  <2>1. Throw("OutOfGas")
    BY <1>8, <1>9
  <2> QED BY <2>1, ThrowKeeps
<1>10. CASE ~(~canPay(gas, need) \/ left < given)
  <2>1. /\ m_io_gas' = left - given
        /\ calleeGas' = given + stipend
        /\ m_memSize' = Max({m_memSize, roundUp(need)})
        /\ touched' = <<0, Max({ s[2] : s \in callSpans })>>
        /\ UNCHANGED <<code, schedule, m_PC, m_stack, storage, jumpedTo>>
    BY <1>8, <1>10
  <2>2. gas \in Nat \ {0} /\ stipend \in Nat /\ stipend < gas
    BY <1>7
  <2>3. m_io_gas >= gas + expansionGas(need)
    BY <1>10 DEF canPay
  <2>4. touched' \in Nat \X Nat /\ touched'[2] = need
    BY <1>3, <2>1 DEF callMemory
  <2>5. ~(left < given)
    BY <1>10
  <2> HIDE DEF stipend, gas
  <2>6. left \in Nat
    BY <1>4, <1>5, <2>2, <2>3
  <2>7. given \in Nat
    <3> HIDE DEF left
    <3>1. allBut(left) \in Nat
      BY <2>6, ShareIs
    <3> QED BY <1>6, <3>1, LesserOf
  <2> HIDE DEF given
  <2>8. given <= left
    BY <2>5, <2>6, <2>7
  <2>9. given <= m_io_gas - gas - expansionGas(need) /\ m_io_gas' = m_io_gas - gas - expansionGas(need) - given
    BY <2>1, <2>8
  <2> HIDE DEF left, e, need
  <2> QED BY <1>3, <2>1, <2>2, <2>3, <2>4, <2>7, <2>9, CalleePaid
<1> QED BY <1>9, <1>10

LEMMA CalleeReturnsKeeps == EVMInv /\ CalleeReturns => EVMInv' /\ Falls
<1> SUFFICES ASSUME EVMInv, CalleeReturns
             PROVE  EVMInv' /\ Falls
  OBVIOUS
<1>1. PICK spent \in 0 .. calleeGas, answer \in Answers, stored \in {storage[0], 0} :
        /\ m_io_gas' = m_io_gas + calleeGas - spent
        /\ m_stack' = <<IF op = "CREATE" THEN answer ELSE truth(answer > 0)>> \o underneath(args(op))
        /\ storage' = [storage EXCEPT ![0] = stored]
  BY DEF CalleeReturns
<1>2. /\ m_bounce = "calling" /\ calleeGas' = 0 /\ m_PC' = m_PC + 1 /\ code' = code /\ schedule' = schedule
      /\ m_memSize' = m_memSize /\ touched' = touched /\ jumpedTo' = jumpedTo
  BY DEF CalleeReturns
<1>3. m_io_gas' \in Nat /\ m_io_gas' + 0 <= m_io_gas + calleeGas
  BY <1>1, StateOfVM
<1>4. m_stack' \in Seq(Words)
  <2> DEFINE word == IF op = "CREATE" THEN answer ELSE truth(answer > 0)
  <2>1. word \in Words
    BY EVMAssumption, TruthIs
  <2>2. m_stack' = <<word>> \o underneath(args(op)) /\ underneath(args(op)) \in Seq(Words)
    BY <1>1, Beneath, ArgsAre
  <2> HIDE DEF word
  <2> QED BY <2>1, <2>2
<1>5. storage' \in [{0} -> Words]
  <2>1. stored \in Words
    BY StateOfVM, WordsAre, InWords
  <2> QED BY <1>1, <2>1, StateOfVM
<1>6. EVMInv'
  <2>1. m_PC' \in Nat /\ 0 \in Nat
    BY <1>2, StateOfVM
  <2> QED BY <1>2, <1>3, <1>4, <1>5, <2>1, StateOfVM, VMKeeps
<1>7. ~running
  BY <1>2 DEF running
<1> QED BY <1>2, <1>3, <1>6, <1>7 DEF Falls

LEMMA VMInitial == EVMInit => EVMInv
<1> SUFFICES ASSUME EVMInit
             PROVE  EVMInv
  OBVIOUS
<1>1. 0 \in Words /\ << >> \in Seq(Words)
  BY WordsAre, InWords
<1>2. m_io_gas \in Nat
  BY EVMAssumption DEF EVMInit
<1>3. storage \in [{0} -> Words]
  BY <1>1 DEF EVMInit
<1>4. touched \in Nat \X Nat /\ touched[2] <= m_memSize
  BY DEF EVMInit
<1> QED BY <1>1, <1>2, <1>3, <1>4 DEF EVMInit, EVMInv, AccessesWithinMemory

LEMMA VMStep == EVMInv /\ [EVMNext]_evmVars => EVMInv' /\ [Falls]_evmVars
<1> SUFFICES ASSUME EVMInv, [EVMNext]_evmVars
             PROVE  EVMInv' /\ [Falls]_evmVars
  OBVIOUS
<1>1. CASE UNCHANGED evmVars
  <2>1. EVMInv'
    BY <1>1, StateOfVM, VMKeeps DEF evmVars
  <2> QED BY <1>1, <2>1
<1>2. CASE StackBad \/ OutOfGas \/ BadInstruction \/ BadJump
  <2>1. \E why : Throw(why)
    BY <1>2 DEF StackBad, OutOfGas, BadInstruction, BadJump
  <2> QED BY <2>1, ThrowKeeps
<1>3. CASE Arith
  BY <1>3, ArithKeeps
<1>4. CASE Compare \/ Combine \/ NotOp \/ IsZero \/ ByteOp \/ SignExtend
  BY <1>4, WordsKeep
<1>5. CASE Modular
  BY <1>5, ModularKeeps
<1>6. CASE Ask \/ Own
  BY <1>6, AnswersKeep
<1>7. CASE Pop \/ Dup \/ Swap
  BY <1>7, ShuffleKeeps
<1>8. CASE PushOp
  BY <1>8, PushOpKeeps
<1>9. CASE Memory
  BY <1>9, MemoryKeeps
<1>10. CASE SLoad \/ SStore
  BY <1>10, StorageKeeps
<1>11. CASE Jump \/ DoesNotJump \/ JumpDest
  BY <1>11, JumpsKeep
<1>12. CASE Halt \/ Revert
  BY <1>12, HaltKeeps
<1>13. CASE CallSetup
  BY <1>13, CallSetupKeeps
<1>14. CASE CreateSetup
  BY <1>14, CreateSetupKeeps
<1>15. CASE CalleeReturns
  BY <1>15, CalleeReturnsKeeps
<1> QED BY <1>1, <1>2, <1>3, <1>4, <1>5, <1>6, <1>7, <1>8, <1>9, <1>10, <1>11, <1>12, <1>13, <1>14, <1>15 DEF EVMNext

\* Running never makes gas, whatever the program and the schedule.
THEOREM RunningCosts == EVMSpec => GasOnlyFalls
<1>1. EVMInit => EVMInv
  BY VMInitial
<1>2. EVMInv /\ [EVMNext]_evmVars => EVMInv' /\ [Falls]_evmVars
  BY VMStep
<1>3. [Falls]_evmVars => [/\ m_io_gas' + calleeGas' <= m_io_gas + calleeGas
                          /\ running /\ m_bounce' # "over" => m_io_gas' + calleeGas' < m_io_gas + calleeGas]_evmVars
  BY DEF Falls
<1> QED BY <1>1, <1>2, <1>3, PTL DEF EVMSpec, GasOnlyFalls

\* An instruction uses the memory that was paid for, and a jump lands on an
\* instruction.
THEOREM VMWithinBounds == EVMSpec => []StaysWithinBounds
<1>1. EVMInit => EVMInv
  BY VMInitial
<1>2. EVMInv /\ [EVMNext]_evmVars => EVMInv'
  BY VMStep
<1>3. EVMInv => StaysWithinBounds
  <2> SUFFICES ASSUME EVMInv
               PROVE  StaysWithinBounds
    OBVIOUS
  <2>1. AccessesWithinMemory
    BY DEF EVMInv
  <2>2. jumpedTo # 0 => opAt(jumpedTo) = "JUMPDEST" /\ ~isData(jumpedTo)
    BY StateOfVM, DestinationsAre
  <2> QED BY <2>1, <2>2 DEF StaysWithinBounds, JumpsLandOnInstructions
<1> QED BY <1>1, <1>2, <1>3, PTL DEF EVMSpec

-----------------------------------------------------------------------------
(* HostData.                                                               *)

\* How many steps fit into a distance.
LEMMA StepsFit ==
  ASSUME NEW x \in Nat, NEW d \in Nat \ {0}
  PROVE  /\ x \div d \in Nat /\ d * (x \div d) \in Nat /\ d * (x \div d) <= x
         /\ d * (x \div d + 1) \in Nat /\ x < d * (x \div d + 1)
<1> DEFINE q == x \div d
<1>1. q \in Nat /\ d * q <= x /\ x < d * q + d
  OBVIOUS
<1> HIDE DEF q
<1>2. d * q \in Nat /\ d * (q + 1) \in Nat /\ d * (q + 1) = d * q + d
  BY <1>1
<1> DEFINE y == d * q
           z == d * (q + 1)
<1>3. y \in Nat /\ z \in Nat /\ y <= x /\ x < z
  <2>1. y \in Nat /\ z \in Nat /\ z = y + d /\ y <= x /\ x < y + d
    BY <1>1, <1>2
  <2> HIDE DEF y, z
  <2> QED BY <2>1
<1> QED BY <1>1, <1>3 DEF q

stepsDown(first, d, c, most) == {i \in 0 .. most : \E k \in 0 .. c - 1 : i = (first + d * (c - 1)) - k * d}
stepsUp(first, d, n, limit) == {i \in 0 .. limit : \E k \in 0 .. n - 1 : i = first + k * d}

\* The walk down from the last of c numbers is the walk up from the first.
LEMMA UpAndDown ==
  ASSUME NEW first \in Nat, NEW limit \in Nat, NEW most \in Nat, limit <= most, NEW d \in Nat \ {0},
         NEW n \in Nat, NEW c \in Nat \ {0}, c <= n, first + d * (c - 1) <= limit,
         c < n => limit < first + d * c
  PROVE  stepsDown(first, d, c, most) = stepsUp(first, d, n, limit)
<1>1. \A k \in Nat : k <= c - 1 => /\ c - 1 - k \in Nat /\ c - 1 - k <= c - 1 /\ k * d \in Nat
                                   /\ (c - 1 - k) * d \in Nat
                                   /\ (first + d * (c - 1)) - k * d = first + (c - 1 - k) * d
                                   /\ (first + d * (c - 1)) - (c - 1 - k) * d = first + k * d
                                   /\ first + k * d <= limit
  <2> SUFFICES ASSUME NEW k \in Nat, k <= c - 1
               PROVE  /\ c - 1 - k \in Nat /\ c - 1 - k <= c - 1 /\ k * d \in Nat
                      /\ (c - 1 - k) * d \in Nat
                      /\ (first + d * (c - 1)) - k * d = first + (c - 1 - k) * d
                      /\ (first + d * (c - 1)) - (c - 1 - k) * d = first + k * d
                      /\ first + k * d <= limit
    OBVIOUS
  <2> DEFINE b == c - 1
             x == k * d
             y == (b - k) * d
             z == d * b
  <2>1. b \in Nat /\ b - k \in Nat /\ b - k <= b
    OBVIOUS
  <2>2. z = b * d
    OBVIOUS
  <2> HIDE DEF b
  <2>3. x \in Nat /\ y \in Nat /\ x + y = b * d
    BY <2>1, Shares
  <2>4. first + z <= limit
    BY DEF b
  <2>5. z = x + y
    BY <2>2, <2>3
  <2> HIDE DEF x, y, z
  <2>6. (first + z) - x = first + y /\ (first + z) - y = first + x /\ first + x <= limit
    BY <2>3, <2>4, <2>5
  <2> QED BY <2>1, <2>3, <2>6 DEF b, x, y, z
<1>2. ASSUME NEW i \in 0 .. most, NEW k \in 0 .. c - 1, i = (first + d * (c - 1)) - k * d
      PROVE  i \in 0 .. limit /\ \E l \in 0 .. n - 1 : i = first + l * d
  <2> DEFINE l == c - 1 - k
  <2>1. l \in Nat /\ l <= c - 1 /\ i = first + l * d
    BY <1>1, <1>2
  <2> HIDE DEF l
  <2>2. first + l * d <= limit
    BY <1>1, <2>1
  <2>3. l \in 0 .. n - 1
    BY <2>1
  <2>4. i \in 0 .. limit
    BY <2>1, <2>2
  <2> QED BY <2>1, <2>3, <2>4
<1>3. ASSUME NEW i \in 0 .. limit, NEW k \in 0 .. n - 1, i = first + k * d
      PROVE  i \in 0 .. most /\ \E l \in 0 .. c - 1 : i = (first + d * (c - 1)) - l * d
  <2>1. k <= c - 1
    <3> SUFFICES ASSUME c <= k
                 PROVE  FALSE
      OBVIOUS
    <3>1. limit < first + d * c
      OBVIOUS
    <3>2. d * c \in Nat /\ d * c <= d * k
      BY ProductsGrow
    <3>3. d * k = k * d
      OBVIOUS
    <3> DEFINE x == d * c
               y == k * d
    <3>4. x <= y /\ limit < first + x /\ i = first + y /\ x \in Nat
      BY <1>3, <3>1, <3>2, <3>3
    <3>5. y \in Int
      OBVIOUS
    <3> HIDE DEF x, y
    <3> QED BY <3>4, <3>5
  <2> DEFINE l == c - 1 - k
  <2>2. l \in Nat /\ l <= c - 1 /\ i = (first + d * (c - 1)) - l * d
    BY <1>1, <1>3, <2>1
  <2> HIDE DEF l
  <2>3. l \in 0 .. c - 1
    BY <2>2
  <2> QED BY <2>2, <2>3
<1>4. \A i \in stepsDown(first, d, c, most) : i \in stepsUp(first, d, n, limit)
  BY <1>2 DEF stepsDown, stepsUp
<1>5. \A i \in stepsUp(first, d, n, limit) : i \in stepsDown(first, d, c, most)
  BY <1>3 DEF stepsDown, stepsUp
<1> QED BY <1>4, <1>5

\* A request for headers, as EthereumPeer hands it on.
AsksHeaders ==
    /\ request.kind = "headers" /\ {request.maxHeaders, request.skip} \subseteq Nat
    /\ request.block \in (IF request.hashed THEN Uncled ELSE {}) \union {on(n) : n \in 0 .. MaxNumber}

LEMMA StridesAre ==
  ASSUME height \in 0 .. MaxNumber, AsksHeaders
  PROVE  /\ MaxNumber \in Nat /\ height \in Nat /\ height <= MaxNumber
         /\ numHeadersToSend \in Nat /\ stride \in Nat \ {0}
<1>1. MaxNumber \in Nat /\ c_maxHeadersToSend \in Nat
  BY HostDataAssumption
<1>2. request.maxHeaders \in Nat /\ request.skip \in Nat
  BY DEF AsksHeaders
<1>3. numHeadersToSend \in Nat
  BY <1>1, <1>2, LesserOf DEF numHeadersToSend
<1> QED BY <1>1, <1>2, <1>3 DEF stride

LEMMA KnownIs ==
  ASSUME height \in 0 .. MaxNumber, MaxNumber \in Nat
  PROVE  /\ \A n \in 0 .. height : isKnown(on(n)) /\ on(n).number = n /\ numberHash(n) = on(n)
         /\ ~isKnown(nowhere)
         /\ \A n \in Nat : n > height => numberHash(n) = nowhere
         /\ \A b : isKnown(b) => b.number \in 0 .. height
BY DEF isKnown, on, nowhere, numberHash

LEMMA WalkedIs ==
  ASSUME height \in 0 .. MaxNumber, AsksHeaders, NEW start, isKnown(start), NEW count \in Nat
  PROVE  walked([start |-> start, count |-> count])
         = {i \in 0 .. MaxNumber : \E k \in 0 .. count - 1 : i = start.number - k * stride}
BY DEF walked

LEMMA WalkedFrom ==
  ASSUME height \in 0 .. MaxNumber, AsksHeaders, NEW last \in 0 .. height, NEW count \in Nat
  PROVE  walked([start |-> numberHash(last), count |-> count])
         = {i \in 0 .. MaxNumber : \E k \in 0 .. count - 1 : i = last - k * stride}
<1>1. isKnown(on(last)) /\ on(last).number = last /\ numberHash(last) = on(last)
  BY KnownIs, StridesAre
<1> QED BY <1>1, WalkedIs

LEMMA NobodyIs ==
  ASSUME height \in 0 .. MaxNumber, AsksHeaders
  PROVE  walked(nobody) = {} /\ \A c : walked([start |-> nowhere, count |-> c]) = {}
<1>1. ~isKnown(nowhere)
  BY KnownIs, StridesAre
<1> QED BY <1>1 DEF walked, nobody

\* Forward, from the last header that is asked, or that there is.
LEMMA ForwardIs ==
  ASSUME height \in 0 .. MaxNumber, AsksHeaders, NEW first \in 0 .. height, numHeadersToSend # 0
  PROVE  walked(upTo(first, first + stride * (numHeadersToSend - 1)))
         = {i \in 0 .. height : \E k \in 0 .. numHeadersToSend - 1 : i = first + k * stride}
<1> DEFINE n == numHeadersToSend
           d == stride
           goal == first + d * (n - 1)
           c == IF goal > height THEN fitting(first) ELSE n
           last == first + d * (c - 1)
<1>1. /\ MaxNumber \in Nat /\ height \in Nat /\ height <= MaxNumber /\ n \in Nat \ {0} /\ d \in Nat \ {0}
      /\ first \in Nat /\ first <= height
  BY StridesAre
<1>2. c \in Nat \ {0} /\ c <= n /\ last \in 0 .. height /\ (c < n => height < first + d * c)
  <2>1. CASE goal > height
    <3> DEFINE x == height - first
               q == x \div d
    <3>1. c = q + 1
      BY <2>1 DEF fitting
    <3>2. x \in Nat
      BY <1>1
    <3>3. q \in Nat /\ d * q \in Nat /\ d * q <= x /\ d * (q + 1) \in Nat /\ x < d * (q + 1)
      <4> HIDE DEF x, d
      <4> QED BY <1>1, <3>2, StepsFit
    <3>4. q < n
      <4> SUFFICES ASSUME n <= q
                   PROVE  FALSE
        BY <1>1, <3>3
      <4>1. n - 1 \in Nat /\ n - 1 <= q
        BY <1>1
      <4>2. d * (n - 1) \in Nat /\ d * (n - 1) <= d * q
        <5> HIDE DEF n, d, q
        <5> QED BY <1>1, <3>3, <4>1, ProductsGrow
      <4> DEFINE u == d * (n - 1)
                 v == d * q
      <4>3. u \in Nat /\ u <= v /\ v <= height - first /\ first + u > height /\ v \in Nat
        BY <2>1, <3>3, <4>2
      <4> HIDE DEF u, v
      <4> QED BY <1>1, <4>3
    <3> HIDE DEF q, c
    <3>5. c \in Nat \ {0} /\ c <= n /\ c - 1 = q
      BY <1>1, <3>1, <3>3, <3>4
    <3>6. last = first + d * q /\ d * c = d * (q + 1)
      BY <3>1, <3>5
    <3> DEFINE u == d * q
               v == d * c
    <3>7. u \in Nat /\ u <= height - first /\ v \in Nat /\ height - first < v /\ last = first + u
      BY <3>3, <3>6
    <3> HIDE DEF u, last
    <3>8. last \in 0 .. height /\ height < first + v
      <4> HIDE DEF v
      <4> QED BY <1>1, <3>7
    <3> QED BY <3>5, <3>8
  <2>2. CASE ~(goal > height)
    <3>1. c = n /\ last = goal
      BY <2>2
    <3>2. d * (n - 1) \in Nat
      BY <1>1
    <3>3. goal \in 0 .. height
      <4> DEFINE u == d * (n - 1)
      <4>1. goal = first + u /\ u \in Nat
        BY <3>2
      <4> HIDE DEF u, goal
      <4> QED BY <1>1, <2>2, <4>1
    <3> HIDE DEF c, last, goal, n
    <3> QED BY <1>1, <3>1, <3>3
  <2> QED BY <2>1, <2>2
<1>3. upTo(first, goal) = [start |-> numberHash(last), count |-> c]
  BY DEF upTo
<1>4. walked([start |-> numberHash(last), count |-> c])
      = {i \in 0 .. MaxNumber : \E k \in 0 .. c - 1 : i = last - k * stride}
  <2> HIDE DEF c, last
  <2> QED BY <1>2, WalkedFrom
<1>5. {i \in 0 .. MaxNumber : \E k \in 0 .. c - 1 : i = (first + d * (c - 1)) - k * d}
      = {i \in 0 .. height : \E k \in 0 .. n - 1 : i = first + k * d}
  <2>1. first + d * (c - 1) <= height
    <3>1. last <= height
      <4> HIDE DEF last
      <4> QED BY <1>1, <1>2
    <3> QED BY <3>1
  <2>2. c \in Nat \ {0} /\ c <= n /\ (c < n => height < first + d * c) /\ n \in Nat
    BY <1>1, <1>2
  <2> HIDE DEF c, n, d
  <2>3. /\ first \in Nat /\ height \in Nat /\ MaxNumber \in Nat /\ height <= MaxNumber /\ d \in Nat \ {0}
    BY <1>1
  <2>4. stepsDown(first, d, c, MaxNumber) = stepsUp(first, d, n, height)
    BY <2>1, <2>2, <2>3, UpAndDown
  <2> QED BY <2>4 DEF stepsDown, stepsUp
<1> QED BY <1>3, <1>4, <1>5

\* What is answered is what was asked.
LEMMA HeadersAre ==
  ASSUME height \in 0 .. MaxNumber, AsksHeaders, ~(request.hashed /\ request.skip > 0 /\ ~request.reverse)
  PROVE  walked(IF request.hashed THEN byHash ELSE byNumber) = IF startsNowhere THEN {} ELSE headersAsked
<1> DEFINE n == numHeadersToSend
           d == stride
           b == request.block
           first == b.number
           Up == {i \in 0 .. height : \E k \in 0 .. n - 1 : i = first + k * d}
           Down == {i \in 0 .. MaxNumber : \E k \in 0 .. n - 1 : i = first - k * d}
<1>1. MaxNumber \in Nat /\ height \in Nat /\ n \in Nat /\ d \in Nat \ {0}
  BY StridesAre
<1>2. headersAsked = IF request.reverse THEN Down ELSE Up
  BY DEF headersAsked
<1>3. n = 0 => Up = {}
  <2> HIDE DEF n
  <2> QED BY <1>1
<1>4. CASE request.hashed
  <2>1. startsNowhere = ~isKnown(b)
    BY <1>4 DEF startsNowhere
  <2>2. CASE ~isKnown(b)
    <3>1. byHash = nobody
      BY <2>2 DEF byHash
    <3> QED BY <1>4, <2>1, <2>2, <3>1, NobodyIs
  <2>3. CASE isKnown(b) /\ request.reverse
    <3>1. byHash = [start |-> b, count |-> n]
      BY <2>3 DEF byHash, thisOne
    <3>2. walked([start |-> b, count |-> n]) = Down
      BY <1>1, <2>3, WalkedIs
    <3> QED BY <1>2, <1>4, <2>1, <2>3, <3>1, <3>2
  <2>4. CASE isKnown(b) /\ ~request.reverse
    <3>1. first \in 0 .. height
      BY <1>1, <2>4, KnownIs
    <3>2. d = 1
      <4>1. request.skip = 0
        BY <1>4, <2>4 DEF AsksHeaders
      <4> QED BY <4>1 DEF stride
    <3>3. CASE n = 0
      <4>1. byHash = nobody
        BY <2>4, <3>3 DEF byHash
      <4> QED BY <1>2, <1>3, <1>4, <2>1, <2>4, <3>3, <4>1, NobodyIs
    <3>4. CASE n # 0
      <4>1. byHash = upTo(first, first + d * n - 1)
        BY <2>4, <3>4 DEF byHash
      <4>2. first + d * n - 1 = first + d * (n - 1)
        <5> HIDE DEF d, n, first
        <5> QED BY <1>1, <3>1, <3>2
      <4>3. walked(upTo(first, first + d * (n - 1))) = Up
        <5> HIDE DEF first
        <5> QED BY <3>1, <3>4, ForwardIs
      <4> QED BY <1>2, <1>4, <2>1, <2>4, <4>1, <4>2, <4>3
    <3> QED BY <3>3, <3>4
  <2> QED BY <2>2, <2>3, <2>4
<1>5. CASE ~request.hashed
  <2>1. startsNowhere = (first > height)
    BY <1>5 DEF startsNowhere
  <2>2. first \in Nat
    <3>1. PICK m \in 0 .. MaxNumber : b = on(m)
      BY <1>5 DEF AsksHeaders
    <3> QED BY <1>1, <3>1 DEF on
  <2>3. CASE request.reverse
    <3>1. byNumber = [start |-> numberHash(first), count |-> n]
      BY <2>3 DEF byNumber, thisOne
    <3>2. CASE first > height
      <4>1. numberHash(first) = nowhere
        BY <1>1, <2>2, <3>2, KnownIs
      <4> QED BY <1>5, <2>1, <3>1, <3>2, <4>1, NobodyIs
    <3>3. CASE ~(first > height)
      <4>1. first \in 0 .. height
        BY <1>1, <2>2, <3>3
      <4>2. walked([start |-> numberHash(first), count |-> n]) = Down
        <5> HIDE DEF first
        <5> QED BY <1>1, <4>1, WalkedFrom
      <4> QED BY <1>2, <1>5, <2>1, <2>3, <3>1, <3>3, <4>2
    <3> QED BY <3>2, <3>3
  <2>4. CASE ~request.reverse /\ first > height
    <3>1. byNumber = nobody
      BY <2>4 DEF byNumber
    <3> QED BY <1>5, <2>1, <2>4, <3>1, NobodyIs
  <2>5. CASE ~request.reverse /\ ~(first > height) /\ n = 0
    <3>1. byNumber = nobody
      BY <2>5 DEF byNumber
    <3> QED BY <1>2, <1>3, <1>5, <2>1, <2>5, <3>1, NobodyIs
  <2>6. CASE ~request.reverse /\ ~(first > height) /\ n # 0
    <3>1. byNumber = upTo(first, first + d * (n - 1))
      BY <2>6 DEF byNumber
    <3>2. first \in 0 .. height
      BY <1>1, <2>2, <2>6
    <3>3. walked(upTo(first, first + d * (n - 1))) = Up
      <4> HIDE DEF first
      <4> QED BY <2>6, <3>2, ForwardIs
    <3> QED BY <1>2, <1>5, <2>1, <2>6, <3>1, <3>3
  <2> QED BY <2>3, <2>4, <2>5, <2>6
<1> QED BY <1>4, <1>5

\* The first k items.
LEMMA FirstItems ==
  ASSUME NEW S, NEW s \in Seq(S), NEW k \in 0 .. Len(s)
  PROVE  Range(SubSeq(s, 1, k)) = {s[i] : i \in 1 .. k}
<1>1. DOMAIN SubSeq(s, 1, k) = 1 .. k /\ \A i \in 1 .. k : SubSeq(s, 1, k)[i] = s[i]
  BY SubSeqProperties
<1> DEFINE t == SubSeq(s, 1, k)
<1>2. Range(t) = {t[i] : i \in DOMAIN t}
  BY DEF Range
<1> QED BY <1>1, <1>2

\* The walk is the same while the chain and the request are.
LEMMA SameWalk ==
  ASSUME height' = height, request' = request
  PROVE  (walked(IF request.hashed THEN byHash ELSE byNumber))' = walked(IF request.hashed THEN byHash ELSE byNumber)
<1>1. numHeadersToSend' = numHeadersToSend /\ stride' = stride
  BY DEF numHeadersToSend, stride
<1>2. byHash' = byHash
  BY <1>1 DEF byHash, isKnown, nobody, thisOne, upTo, fitting, numberHash
<1>3. byNumber' = byNumber
  BY <1>1 DEF byNumber, nobody, thisOne, upTo, fitting, numberHash
<1> QED BY <1>1, <1>2, <1>3 DEF walked, isKnown

LEMMA HostDataStarts == HostDataInit => HostDataInv
<1>1. 0 \in 0 .. MaxNumber
  BY HostDataAssumption
<1> QED BY <1>1 DEF HostDataInit, HostDataInv

LEMMA HeightIsNat ==
  ASSUME HostDataInv
  PROVE  MaxNumber \in Nat /\ height \in Nat
BY HostDataAssumption DEF HostDataInv

LEMMA ChainGrowsKeeps ==
  ASSUME HostDataInv, ChainGrows
  PROVE  HostDataInv'
<1>1. looked = 0 /\ answered = {}
  BY DEF ChainGrows, HostDataInv, asksNothing
<1>2. height' \in 0 .. MaxNumber
  BY HeightIsNat DEF ChainGrows
<1> QED BY <1>1, <1>2 DEF ChainGrows, HostDataInv, asksNothing

LEMMA GetBlockHeadersKeeps ==
  ASSUME HostDataInv, NEW number \in 0 .. MaxNumber, NEW hashed \in BOOLEAN,
         NEW block \in (IF hashed THEN Uncled ELSE {}) \union {on(number)},
         NEW maxHeaders \in 0 .. MaxHeaders, NEW skip \in 0 .. MaxSkip, NEW reverse \in BOOLEAN,
         GetBlockHeaders(block, hashed, maxHeaders, skip, reverse)
  PROVE  HostDataInv'
<1>1. looked = 0 /\ height' = height /\ height \in 0 .. MaxNumber /\ looked' = looked
  BY DEF GetBlockHeaders, HostDataInv, asksNothing
<1>2. /\ request'.kind = "headers" /\ request'.block = block /\ request'.hashed = hashed
      /\ request'.maxHeaders = maxHeaders /\ request'.skip = skip
  BY DEF GetBlockHeaders
<1>3. maxHeaders \in Nat /\ skip \in Nat
  BY HostDataAssumption
<1>4. block \in (IF request'.hashed THEN Uncled ELSE {}) \union {on(n) : n \in 0 .. MaxNumber}
  BY <1>2
<1>5. ~(looked' = 1)
  BY <1>1
<1> QED BY <1>1, <1>2, <1>3, <1>4, <1>5 DEF HostDataInv, on

LEMMA AnswerHeadersKeeps ==
  ASSUME HostDataInv, AnswerHeaders
  PROVE  HostDataInv'
<1>1. request.kind = "headers" /\ request' = request /\ height' = height /\ looked' = 1
  BY DEF AnswerHeaders
<1>2. AsksHeaders /\ height \in 0 .. MaxNumber
  BY <1>1 DEF HostDataInv, AsksHeaders, asksNothing
<1>3. answered' = (walked(IF request.hashed THEN byHash ELSE byNumber))'
  BY <1>1, SameWalk DEF AnswerHeaders
<1> QED BY <1>1, <1>2, <1>3 DEF HostDataInv, AsksHeaders, on

LEMMA GetItemsKeeps ==
  ASSUME HostDataInv, NEW items \in SeqOf(Items, MaxHashes), IsInjective(items), GetItems(items)
  PROVE  HostDataInv'
<1>1. looked = 0 /\ answered = {} /\ height' = height /\ height \in 0 .. MaxNumber
  BY DEF GetItems, HostDataInv, asksNothing
<1>2. looked' = 0 /\ answered' = {} /\ request' = [kind |-> "items", items |-> items]
  BY <1>1 DEF GetItems
<1>3. items \in Seq(Items)
  <2>1. PICK m \in 0 .. MaxHashes : items \in [1 .. m -> Items]
    BY DEF SeqOf
  <2>2. m \in Nat
    BY HostDataAssumption
  <2> QED BY <2>1, <2>2
<1>4. Len(items) \in Nat /\ 0 \in 0 .. Len(items)
  BY <1>3
<1>5. Range(SubSeq(items, 1, 0)) = {}
  <2>1. Range(SubSeq(items, 1, 0)) = {items[i] : i \in 1 .. 0}
    BY <1>3, <1>4, FirstItems
  <2>2. 1 .. 0 = {}
    OBVIOUS
  <2> QED BY <2>1, <2>2
<1>6. request'.kind = "items" /\ request'.items = items
  BY <1>2
<1> QED BY <1>1, <1>2, <1>3, <1>4, <1>5, <1>6 DEF HostDataInv

LEMMA AnswerItemKeeps ==
  ASSUME HostDataInv, AnswerItem
  PROVE  HostDataInv'
<1> DEFINE s == request.items
           n == looked + 1
           item == s[n]
<1>1. /\ request.kind = "items" /\ request' = request /\ height' = height /\ looked' = n
      /\ answered' = IF item.size > 0 THEN answered \union {item} ELSE answered
      /\ looked < Min({Len(s), c_maxBlocks}) /\ payload(answered) < c_maxPayload
  BY DEF AnswerItem, more
<1>2. /\ height \in 0 .. MaxNumber /\ s \in Seq(Items) /\ IsInjective(s) /\ looked \in 0 .. Len(s)
      /\ answered = {i \in Range(SubSeq(s, 1, looked)) : i.size > 0}
  BY <1>1 DEF HostDataInv, asksNothing
<1>3. Len(s) \in Nat /\ looked \in Nat /\ DOMAIN s = 1 .. Len(s)
  BY <1>2
<1>4. looked < Len(s)
  <2> DEFINE l == Len(s)
  <2>1. c_maxBlocks \in Nat
    BY HostDataAssumption
  <2>2. Min({l, c_maxBlocks}) <= l /\ Min({l, c_maxBlocks}) \in Nat
    <3> HIDE DEF l, s
    <3>1. l \in Nat
      BY <1>3 DEF l
    <3> QED BY <2>1, <3>1, LesserOf
  <2> QED BY <1>1, <1>3, <2>2
<1>5. n \in 1 .. Len(s) /\ n \in 0 .. Len(s)
  BY <1>3, <1>4
<1>6. Range(SubSeq(s, 1, looked)) = {s[i] : i \in 1 .. looked}
  BY <1>2, FirstItems
<1>7. Range(SubSeq(s, 1, n)) = {s[i] : i \in 1 .. n}
  BY <1>2, <1>5, FirstItems
<1>8. {s[i] : i \in 1 .. n} = {s[i] : i \in 1 .. looked} \union {item}
  <2>1. 1 .. n = (1 .. looked) \union {n}
    BY <1>3
  <2> HIDE DEF n, s
  <2> QED BY <2>1
<1>9. item \notin {s[i] : i \in 1 .. looked}
  <2> SUFFICES ASSUME NEW i \in 1 .. looked, s[i] = item
               PROVE  FALSE
    OBVIOUS
  <2>1. i \in DOMAIN s /\ n \in DOMAIN s /\ i # n
    BY <1>3, <1>4, <1>5
  <2>2. \A a, b \in DOMAIN s : s[a] = s[b] => a = b
    BY <1>2 DEF IsInjective
  <2> QED BY <2>1, <2>2
<1>10. answered' = {i \in Range(SubSeq(s, 1, n)) : i.size > 0}
  <2> HIDE DEF n, s, item
  <2> QED BY <1>1, <1>2, <1>6, <1>7, <1>8
<1>11. \A last \in answered' : last = item => payload(answered' \ {last}) < c_maxPayload
  <2> SUFFICES ASSUME item \in answered'
               PROVE  payload(answered' \ {item}) < c_maxPayload
    OBVIOUS
  <2>1. item \notin answered
    <3> HIDE DEF s, item
    <3> QED BY <1>2, <1>6, <1>9
  <2>2. answered' \ {item} = answered
    <3> HIDE DEF item
    <3> QED BY <1>1, <2>1
  <2> QED BY <1>1, <2>2
<1>12. /\ height' \in 0 .. MaxNumber /\ request'.kind = "items" /\ request'.items = s
       /\ looked' = n /\ request'.items[looked'] = item
  BY <1>1, <1>2
<1>13. \A last \in answered' : last = request'.items[looked'] => (payload(answered \ {last}) < c_maxPayload)'
  <2> HIDE DEF s, item, n
  <2> QED BY <1>11, <1>12
<1> HIDE DEF s, n, item
<1> QED BY <1>2, <1>5, <1>10, <1>12, <1>13 DEF HostDataInv

LEMMA SealedKeeps ==
  ASSUME HostDataInv, Sealed
  PROVE  HostDataInv'
BY DEF Sealed, HostDataInv, asksNothing

LEMMA HostDataStandsStill ==
  ASSUME HostDataInv, UNCHANGED dataVars
  PROVE  HostDataInv'
<1>1. height' = height /\ request' = request /\ looked' = looked /\ answered' = answered
  BY DEF dataVars
<1> QED BY <1>1, SameWalk DEF HostDataInv, asksNothing, on

LEMMA HostDataStep ==
  ASSUME HostDataInv, [HostDataNext]_dataVars
  PROVE  HostDataInv'
<1>1. CASE ChainGrows
  BY <1>1, ChainGrowsKeeps
<1>2. CASE AnswerHeaders
  BY <1>2, AnswerHeadersKeeps
<1>3. CASE AnswerItem
  BY <1>3, AnswerItemKeeps
<1>4. CASE Sealed
  BY <1>4, SealedKeeps
<1>5. CASE \E number \in 0 .. MaxNumber, maxHeaders \in 0 .. MaxHeaders, skip \in 0 .. MaxSkip, reverse \in BOOLEAN :
             \/ GetBlockHeaders(on(number), FALSE, maxHeaders, skip, reverse)
             \/ \E block \in Uncled \union {on(number)} : GetBlockHeaders(block, TRUE, maxHeaders, skip, reverse)
  <2>1. PICK number \in 0 .. MaxNumber, maxHeaders \in 0 .. MaxHeaders, skip \in 0 .. MaxSkip, reverse \in BOOLEAN :
             \/ GetBlockHeaders(on(number), FALSE, maxHeaders, skip, reverse)
             \/ \E block \in Uncled \union {on(number)} : GetBlockHeaders(block, TRUE, maxHeaders, skip, reverse)
    BY <1>5
  <2>2. CASE GetBlockHeaders(on(number), FALSE, maxHeaders, skip, reverse)
    <3>1. on(number) \in (IF FALSE THEN Uncled ELSE {}) \union {on(number)}
      OBVIOUS
    <3> QED BY <2>2, <3>1, GetBlockHeadersKeeps
  <2>3. ASSUME NEW block \in Uncled \union {on(number)}, GetBlockHeaders(block, TRUE, maxHeaders, skip, reverse)
        PROVE  HostDataInv'
    <3>1. block \in (IF TRUE THEN Uncled ELSE {}) \union {on(number)}
      OBVIOUS
    <3> QED BY <2>3, <3>1, GetBlockHeadersKeeps
  <2> QED BY <2>1, <2>2, <2>3
<1>6. CASE \E items \in SeqOf(Items, MaxHashes) : IsInjective(items) /\ GetItems(items)
  BY <1>6, GetItemsKeeps
<1>7. CASE UNCHANGED dataVars
  BY <1>7, HostDataStandsStill
<1> QED BY <1>1, <1>2, <1>3, <1>4, <1>5, <1>6, <1>7 DEF HostDataNext

LEMMA AnswersFollow == HostDataInv => AnswersAreAsked
<1> SUFFICES ASSUME HostDataInv
             PROVE  AnswersAreAsked
  OBVIOUS
<1>1. ASSUME request.kind = "headers", looked = 1, ~(request.hashed /\ request.skip > 0 /\ ~request.reverse)
      PROVE  answered = IF startsNowhere THEN {} ELSE headersAsked
  <2>1. AsksHeaders /\ height \in 0 .. MaxNumber
    BY <1>1 DEF HostDataInv, AsksHeaders, asksNothing
  <2>2. answered = walked(IF request.hashed THEN byHash ELSE byNumber)
    BY <1>1 DEF HostDataInv, asksNothing
  <2> QED BY <1>1, <2>1, <2>2, HeadersAre
<1>2. ASSUME request.kind = "items"
      PROVE  /\ answered = {i \in Range(SubSeq(request.items, 1, looked)) : i.size > 0}
             /\ \A last \in answered : last = request.items[looked] => payload(answered \ {last}) < c_maxPayload
  BY <1>2 DEF HostDataInv, asksNothing
<1> QED BY <1>1, <1>2 DEF AnswersAreAsked

\* A peer that asks for headers gets the ones it asked for that the chain has,
\* and one that asks for items gets those that are known, no further than the
\* item that fills the payload, whatever the chain's height, the request and
\* the limits.  EthereumHost.cpp:158-224, 226-300.
THEOREM OnlyAskedIsAnswered == HostDataSpec => []AnswersAreAsked
<1>1. HostDataInit => HostDataInv
  BY HostDataStarts
<1>2. HostDataInv /\ [HostDataNext]_dataVars => HostDataInv'
  BY HostDataStep
<1>3. HostDataInv => AnswersAreAsked
  BY AnswersFollow
<1> QED BY <1>1, <1>2, <1>3, PTL DEF HostDataSpec

-----------------------------------------------------------------------------
(* KeyManager and its files.                                               *)

\* The files of the store are rewritten with what they may hold.
LEMMA StoreSaveIs ==
  ASSUME NEW key, NEW m \in managersUnder(key), NEW last \in managersUnder(key), NEW order \in orders(m.m_keys)
  PROVE  storeSave(m, order, last) \in Seq(keyWrites(key))
<1> DEFINE held == {u \in Uuids : m.m_keys[u] # none}
           file(i) == order[(i + 1) \div 2]
           then(i) == IF i = 2 * Len(order) THEN last ELSE m
           item(i) == truncateFile(file(i), m.m_keys[file(i)], m, then(i))[2 - (i % 2)]
<1>1. Cardinality(held) \in Nat
  BY KeysAssumption, FS_Subset, FS_CardinalityType
<1>2. order \in [1 .. Cardinality(held) -> held]
  BY DEF orders, SetToSeqs
<1>3. Len(order) = Cardinality(held)
  BY <1>1, <1>2
<1>4. m.m_keys \in [Uuids -> keyContents \cup {none}]
  BY DEF managersUnder, managers
<1>5. ASSUME NEW i \in 1 .. 2 * Len(order)
      PROVE  item(i) \in keyWrites(key)
  <2>1. (i + 1) \div 2 \in 1 .. Len(order) /\ i % 2 \in {0, 1}
    BY <1>1, <1>3
  <2>2. file(i) \in Uuids
    BY <1>2, <1>3, <2>1
  <2>3. then(i) \in managersUnder(key)
    OBVIOUS
  <2> HIDE DEF file, then
  <2>4. /\ truncateFile(file(i), m.m_keys[file(i)], m, then(i))[1] = [file |-> file(i), content |-> torn, after |-> m]
        /\ truncateFile(file(i), m.m_keys[file(i)], m, then(i))[2]
             = [file |-> file(i), content |-> m.m_keys[file(i)], after |-> then(i)]
    BY DEF truncateFile, replaceFile
  <2>5. m.m_keys[file(i)] \in keyContents \cup {none, torn}
    BY <1>4, <2>2
  <2>6. 2 - (i % 2) \in {1, 2}
    BY <2>1
  <2>7. /\ [file |-> file(i), content |-> torn, after |-> m] \in keyWrites(key)
        /\ [file |-> file(i), content |-> m.m_keys[file(i)], after |-> then(i)] \in keyWrites(key)
    BY <2>2, <2>3, <2>5 DEF keyWrites
  <2> QED BY <2>4, <2>6, <2>7
<1>6. storeSave(m, order, last) = [i \in 1 .. 2 * Len(order) |-> item(i)]
  BY DEF storeSave
<1> HIDE DEF item
<1> QED BY <1>1, <1>3, <1>5, <1>6

\* The keys file of a manager, under a key.
LEMMA EncodedIs ==
  ASSUME NEW m \in managers, NEW key \in Passwords \X Nat
  PROVE  encoded(m, key) \in keysContentsUnder(key)
BY DEF encoded, managers, keysContents, keysContentsUnder, entriesOf

\* What write() writes is the keys file under the manager's key.
LEMMA WriteKeysFileIs ==
  ASSUME NEW key, NEW m \in managersUnder(key)
  PROVE  writeKeysFile(m) \in Seq(keysWrites(key))
<1>1. m \in managers /\ m.m_keysFileKey = key
  BY DEF managersUnder
<1>2. CASE key = none
  BY <1>1, <1>2 DEF writeKeysFile
<1>3. CASE key # none
  <2>1. key \in Passwords \X Nat
    BY <1>1, <1>3 DEF managers
  <2>2. [file |-> "keys", content |-> encoded(m, key), after |-> m] \in keysWrites(key)
    BY <1>1, <2>1, EncodedIs DEF keysWrites
  <2> QED BY <1>1, <1>3, <2>2 DEF writeKeysFile, replaceFile
<1> QED BY <1>2, <1>3

\* A manager that is there.
LEMMA ManagerIs ==
  ASSUME KeysInv, manager # none
  PROVE  /\ manager \in managers /\ cachedHeld(manager) /\ manager \in managersUnder(manager.m_keysFileKey)
         /\ manager.m_keysFileKey \in (Passwords \X Nat) \cup {none}
         /\ manager.m_keysFileKey # none => keysFile # none
<1>1. manager \in managers /\ cachedHeld(manager) /\ (manager.m_keysFileKey # none => keysFile # none)
  BY DEF KeysInv, KeysTypeOK
<1> QED BY <1>1 DEF managersUnder, managers

\* An operation that leaves the manager its key keeps the invariant.
LEMMA OperateKeeps ==
  ASSUME KeysInv, NEW key, key = manager.m_keysFileKey, NEW m \in managersUnder(key),
         NEW writes \in Seq(keyWrites(key) \cup keysWrites(key)),
         Operate(m, writes), UNCHANGED <<master, saving>>
  PROVE  KeysInv'
<1>1. /\ manager # none /\ todo = <<>> /\ manager' = m /\ todo' = writes /\ operations' = operations + 1
      /\ UNCHANGED <<keyFiles, salt, keysFile, broken, deaths, failures, master, saving>>
  BY DEF Operate
<1>2. saving = none
  BY <1>1 DEF KeysInv, SavingInOrder
<1>3. m \in managers /\ m.m_keysFileKey = key /\ cachedHeld(m)
  BY DEF managersUnder
<1>4. m # none
  BY <1>3, KeysAssumption
<1>5. key # none => keysFile # none
  BY <1>1, ManagerIs
<1>6. KeysTypeOK'
  BY <1>1, <1>3, <1>5 DEF KeysInv, KeysTypeOK, cachedHeld
<1>7. SavingInOrder' /\ WritingUnderKey'
  BY <1>1, <1>2, <1>3, <1>4 DEF SavingInOrder, WritingUnderKey
<1>8. KeysAreMasters'
  BY <1>1, <1>2, <1>3 DEF KeysInv, KeysAreMasters, atKeysFile
<1> QED BY <1>6, <1>7, <1>8 DEF KeysInv

\* The sequences that an operation writes.
LEMMA WritesOf ==
  ASSUME NEW key, NEW m \in managersUnder(key), NEW writes \in Seq(keyWrites(key))
  PROVE  writes \o writeKeysFile(m) \in Seq(keyWrites(key) \cup keysWrites(key))
<1>1. writes \in Seq(keyWrites(key) \cup keysWrites(key))
  OBVIOUS
<1>2. writeKeysFile(m) \in Seq(keyWrites(key) \cup keysWrites(key))
  BY WriteKeysFileIs
<1> QED BY <1>1, <1>2

\* A write: of the salt, of the keys file of create and save, or of another operation.
LEMMA StepKeeps ==
  ASSUME KeysInv, Step
  PROVE  KeysInv'
<1> DEFINE file == Head(todo).file  content == Head(todo).content  key == manager.m_keysFileKey
<1>1. /\ todo # <<>> /\ todo' = Tail(todo) /\ manager' = Head(todo).after
      /\ keyFiles' = IF file \in Uuids THEN [keyFiles EXCEPT ![file] = content] ELSE keyFiles
      /\ salt' = IF file = "salt" THEN content ELSE salt
      /\ keysFile' = IF file = "keys" THEN content ELSE keysFile
      /\ saving' = IF Len(todo) = 1 THEN none ELSE saving
      /\ master' = IF atKeysFile THEN saving ELSE master
      /\ broken' = (broken /\ ~atKeysFile)
      /\ UNCHANGED <<operations, deaths, failures>>
  BY DEF Step
<1>2. manager # none
  BY <1>1 DEF KeysInv, SavingInOrder, WritingUnderKey
<1>3. /\ keyFiles \in [Uuids -> keyContents \cup {none, torn}] /\ salt \in Nat /\ keysFile \in keysContents \cup {none}
      /\ saving \in Passwords \cup {none} /\ master \in Passwords \cup {none} /\ broken \in BOOLEAN
      /\ operations \in Nat /\ deaths \in Nat /\ failures \in Nat
  BY DEF KeysInv, KeysTypeOK
<1>4. ASSUME saving # none, NEW s \in saltWrites(key), NEW w \in keysWrites(<<saving, salt + 1>>), todo = <<s, w>>
      PROVE  KeysInv'
  <2>1. /\ Head(todo) = s /\ file = "salt" /\ content = salt + 1 /\ s.after \in managersUnder(key)
        /\ Tail(todo) = <<w>> /\ Len(todo) = 2 /\ Len(Tail(todo)) = 1
    BY <1>4 DEF saltWrites
  <2>2. UNCHANGED <<keyFiles, keysFile, saving, master, broken>> /\ salt' = salt + 1 /\ manager' = s.after /\ todo' = <<w>>
    BY <1>1, <1>3, <2>1, KeysAssumption DEF atKeysFile
  <2>3. manager' \in managers /\ manager' # none /\ cachedHeld(manager') /\ manager'.m_keysFileKey = key
    BY <2>1, <2>2, KeysAssumption DEF managersUnder
  <2>4. KeysTypeOK'
    <3>1. key # none => keysFile # none
      BY <1>2, ManagerIs
    <3> QED BY <1>1, <1>3, <2>2, <2>3, <3>1 DEF KeysTypeOK, cachedHeld
  <2>5. SavingInOrder' /\ WritingUnderKey'
    BY <1>4, <2>2, <2>3 DEF SavingInOrder, WritingUnderKey
  <2>6. KeysAreMasters'
    BY <1>4, <2>2 DEF KeysAreMasters, atKeysFile
  <2> QED BY <2>4, <2>5, <2>6 DEF KeysInv
<1>5. ASSUME saving # none, NEW w \in keysWrites(<<saving, salt>>), todo = <<w>>
      PROVE  KeysInv'
  <2>1. /\ Head(todo) = w /\ file = "keys" /\ content \in keysContents /\ content.key = <<saving, salt>>
        /\ w.after \in managersUnder(<<saving, salt>>) /\ Tail(todo) = <<>> /\ Len(todo) = 1
    BY <1>5 DEF keysWrites, keysContentsUnder
  <2>2. /\ UNCHANGED <<keyFiles, salt>> /\ keysFile' = content /\ saving' = none /\ master' = saving
        /\ todo' = <<>> /\ broken' = FALSE /\ manager' = w.after
    BY <1>1, <1>5, <2>1, KeysAssumption DEF atKeysFile
  <2>3. manager' \in managers /\ manager' # none /\ cachedHeld(manager') /\ manager'.m_keysFileKey = <<saving, salt>>
    BY <2>1, <2>2, KeysAssumption DEF managersUnder
  <2>4. content # none
    BY <2>1, KeysAssumption
  <2>5. KeysTypeOK'
    BY <1>1, <1>3, <2>1, <2>2, <2>3, <2>4 DEF KeysTypeOK, cachedHeld
  <2>6. SavingInOrder' /\ WritingUnderKey'
    BY <2>2, <2>3 DEF SavingInOrder, WritingUnderKey
  <2>7. KeysAreMasters'
    BY <2>1, <2>2, <2>3 DEF KeysAreMasters, atKeysFile
  <2> QED BY <2>5, <2>6, <2>7 DEF KeysInv
<1>6. ASSUME saving = none
      PROVE  KeysInv'
  <2>1. todo \in Seq(keyWrites(key) \cup keysWrites(key))
    BY <1>2, <1>6 DEF KeysInv, WritingUnderKey
  <2>2. Head(todo) \in keyWrites(key) \cup keysWrites(key) /\ todo' \in Seq(keyWrites(key) \cup keysWrites(key))
    BY <1>1, <2>1
  <2>3. saving' = none /\ master' = master /\ broken' = broken
    BY <1>1, <1>3, <1>6 DEF atKeysFile
  <2>4. manager' \in managers /\ manager' # none /\ cachedHeld(manager') /\ manager'.m_keysFileKey = key
    BY <1>1, <2>2, KeysAssumption DEF keyWrites, keysWrites, managersUnder
  <2>5. key # none => keysFile # none
    BY <1>2, ManagerIs
  <2>6. SavingInOrder' /\ WritingUnderKey'
    BY <2>2, <2>3, <2>4 DEF SavingInOrder, WritingUnderKey
  <2>7. CASE Head(todo) \in keyWrites(key)
    <3>1. file \in Uuids /\ content \in keyContents \cup {none, torn}
      BY <2>7 DEF keyWrites
    <3>2. UNCHANGED <<salt, keysFile>> /\ keyFiles' = [keyFiles EXCEPT ![file] = content]
      BY <1>1, <3>1, KeysAssumption
    <3>3. KeysTypeOK'
      BY <1>1, <1>3, <2>3, <2>4, <2>5, <3>1, <3>2 DEF KeysTypeOK, cachedHeld
    <3>4. KeysAreMasters'
      BY <1>2, <1>6, <2>3, <2>4, <3>2 DEF KeysInv, KeysAreMasters, atKeysFile
    <3> QED BY <2>6, <3>3, <3>4 DEF KeysInv
  <2>8. CASE Head(todo) \in keysWrites(key)
    <3>1. file = "keys" /\ content \in keysContents /\ content.key = key
      BY <2>8 DEF keysWrites, keysContentsUnder
    <3>2. UNCHANGED <<salt, keyFiles>> /\ keysFile' = content
      BY <1>1, <3>1, KeysAssumption
    <3>3. content # none /\ key # none
      BY <3>1, KeysAssumption DEF keysContents
    <3>4. KeysTypeOK'
      BY <1>1, <1>3, <2>3, <2>4, <3>1, <3>2, <3>3 DEF KeysTypeOK, cachedHeld
    <3>5. KeysAreMasters'
      BY <1>2, <1>6, <2>3, <2>4, <3>1, <3>2, <3>3 DEF KeysInv, KeysAreMasters, atKeysFile
    <3> QED BY <2>6, <3>4, <3>5 DEF KeysInv
  <2> QED BY <2>2, <2>7, <2>8
<1> QED BY <1>2, <1>4, <1>5, <1>6 DEF KeysInv, SavingInOrder

\* An operation that ends before a write, as it fails or the process dies.
LEMMA CutKeeps ==
  ASSUME KeysInv, FileFails \/ Die
  PROVE  KeysInv'
<1>1. /\ todo' = <<>> /\ saving' = none /\ broken' = (broken \/ (atKeysFile /\ keysFile # none))
      /\ UNCHANGED <<keyFiles, salt, keysFile, master, operations>>
  BY DEF FileFails, Die, CutShort
<1>2. manager' \in {manager, none} /\ deaths' \in Nat /\ failures' \in Nat
  BY DEF FileFails, Die, KeysInv, KeysTypeOK
<1>3. broken' \in BOOLEAN
  BY <1>1 DEF KeysInv, KeysTypeOK, atKeysFile
<1>4. KeysTypeOK'
  BY <1>1, <1>2, <1>3 DEF KeysInv, KeysTypeOK, cachedHeld
<1>5. SavingInOrder' /\ WritingUnderKey'
  BY <1>1 DEF SavingInOrder, WritingUnderKey
<1>6. KeysAreMasters'
  <2> SUFFICES ASSUME ~broken'
               PROVE  /\ keysFile # none => keysFile.key = <<master, salt>>
                      /\ manager # none /\ manager.m_keysFileKey # none => manager.m_keysFileKey = <<master, salt>>
    BY <1>1, <1>2 DEF KeysAreMasters
  <2>1. ~broken /\ (~atKeysFile \/ keysFile = none)
    BY <1>1
  <2>2. CASE ~atKeysFile
    BY <2>1, <2>2 DEF KeysInv, KeysAreMasters
  <2>3. CASE keysFile = none
    BY <2>3, ManagerIs
  <2> QED BY <2>1, <2>2, <2>3
<1> QED BY <1>4, <1>5, <1>6 DEF KeysInv

\* A new KeyManager has no key.
LEMMA ConstructKeeps ==
  ASSUME KeysInv, Construct
  PROVE  KeysInv'
<1>1. manager = none /\ UNCHANGED <<keyFiles, salt, keysFile, todo, saving, master, broken, operations, deaths, failures>>
  BY DEF Construct
<1>2. PICK lookup \in [Accounts -> Uuids \cup {none}] : manager' = constructed(lookup)
  BY DEF Construct
<1>3. storedKeys \in [Uuids -> keyContents \cup {none}]
  BY DEF storedKeys, KeysInv, KeysTypeOK
<1>4. [u \in Uuids |-> IF storedKeys[u] = none THEN none ELSE storedKeys[u].address] \in [Uuids -> Accounts \cup {none}]
  BY <1>3 DEF keyContents
<1>5. manager' \in managers /\ manager'.m_keysFileKey = none /\ manager'.m_cached = {}
  BY <1>2, <1>3, <1>4 DEF constructed, managers
<1>6. saving = none /\ todo = <<>>
  BY <1>1 DEF KeysInv, SavingInOrder, WritingUnderKey
<1>7. KeysTypeOK'
  BY <1>1, <1>5 DEF KeysInv, KeysTypeOK, cachedHeld
<1>8. SavingInOrder' /\ WritingUnderKey'
  BY <1>1, <1>6 DEF SavingInOrder, WritingUnderKey
<1>9. KeysAreMasters'
  BY <1>1, <1>5, <1>6 DEF KeysInv, KeysAreMasters, atKeysFile
<1> QED BY <1>7, <1>8, <1>9 DEF KeysInv

\* One write after another.
LEMMA TwoInARow ==
  ASSUME NEW a, NEW b
  PROVE  <<a>> \o <<b>> = <<a, b>>
<1>1. <<a>> \o <<b>> \in Seq({a, b}) /\ Len(<<a>> \o <<b>>) = 2
  OBVIOUS
<1>2. (<<a>> \o <<b>>)[1] = a /\ (<<a>> \o <<b>>)[2] = b
  OBVIOUS
<1>3. <<a, b>> \in Seq({a, b}) /\ Len(<<a, b>>) = 2 /\ <<a, b>>[1] = a /\ <<a, b>>[2] = b
  OBVIOUS
<1>4. \A i \in 1 .. 2 : (<<a>> \o <<b>>)[i] = <<a, b>>[i]
  <2>1. \A i \in 1 .. 2 : i = 1 \/ i = 2
    OBVIOUS
  <2> QED BY <1>2, <1>3, <2>1
<1> QED BY <1>1, <1>3, <1>4, SeqEqual

\* create and save: a new salt, and the keys file under the key it makes.
LEMMA MasterKeeps ==
  ASSUME KeysInv, NEW pass \in Passwords, manager # none,
         Operate(manager, masterWrites(manager, pass)), saving' = pass, UNCHANGED master
  PROVE  KeysInv'
<1> DEFINE old == manager.m_keysFileKey
           key == <<pass, salt + 1>>
           noted == [manager EXCEPT !.m_cachedPasswords = @ \union {pass}]
           last == [noted EXCEPT !.m_keysFileKey = key]
           s == [file |-> "salt", content |-> salt + 1, after |-> noted]
           w == [file |-> "keys", content |-> encoded(manager, key), after |-> last]
<1>1. /\ todo = <<>> /\ manager' = manager /\ todo' = masterWrites(manager, pass)
      /\ operations' = operations + 1
      /\ UNCHANGED <<keyFiles, salt, keysFile, broken, deaths, failures, master>>
  BY DEF Operate
<1>2. manager \in managers /\ cachedHeld(manager) /\ key \in Passwords \X Nat
  BY ManagerIs DEF KeysInv, KeysTypeOK
<1>3. noted \in managers /\ noted.m_keysFileKey = old /\ noted.m_keys = manager.m_keys /\ noted.m_cached = manager.m_cached
  BY <1>2 DEF managers
<1> HIDE DEF noted
<1>4. last \in managers /\ last.m_keysFileKey = key /\ last.m_keys = manager.m_keys /\ last.m_cached = manager.m_cached
  BY <1>2, <1>3 DEF managers
<1> HIDE DEF last
<1>5. noted \in managersUnder(old) /\ last \in managersUnder(key)
  BY <1>2, <1>3, <1>4 DEF managersUnder, cachedHeld
<1>6. s \in saltWrites(old) /\ w \in keysWrites(key)
  BY <1>2, <1>5, EncodedIs DEF keysWrites, saltWrites
<1>7. masterWrites(manager, pass) = <<s, w>>
  BY TwoInARow DEF masterWrites, replaceFile, noted, last
<1> HIDE DEF s, w
<1>8. saving = none /\ pass # none
  BY <1>1, KeysAssumption DEF KeysInv, SavingInOrder
<1>9. KeysTypeOK'
  BY <1>1 DEF KeysInv, KeysTypeOK, cachedHeld
<1>10. SavingInOrder' /\ WritingUnderKey'
  <2>1. s \in saltWrites(old)' /\ w \in keysWrites(<<saving', salt' + 1>>) /\ todo' = <<s, w>>
    BY <1>1, <1>6, <1>7 DEF saltWrites
  <2> QED BY <1>1, <1>8, <2>1 DEF SavingInOrder, WritingUnderKey
<1>11. KeysAreMasters'
  BY <1>1, <1>8 DEF KeysInv, KeysAreMasters, atKeysFile
<1> QED BY <1>9, <1>10, <1>11 DEF KeysInv

\* load: without mistakes, the password is the one last set.
LEMMA LoadKeeps ==
  ASSUME KeysInv, Typos = {}, NEW pass \in Passwords, Load(pass)
  PROVE  KeysInv'
<1> DEFINE m == loaded(manager, pass)
           listed == {a \in Accounts : keysFile.entries[a] # none
                        /\ \/ keysFile.entries[a].uuid = none
                           \/ manager.m_keys[keysFile.entries[a].uuid] # none}
<1>1. /\ manager # none /\ pass = master
      /\ todo = <<>> /\ manager' = m /\ todo' = <<>> /\ operations' = operations + 1
      /\ UNCHANGED <<keyFiles, salt, keysFile, broken, deaths, failures, master, saving>>
  BY DEF Load, Operate
<1>2. manager \in managers /\ cachedHeld(manager) /\ salt \in Nat /\ saving = none
  BY <1>1, ManagerIs DEF KeysInv, KeysTypeOK, SavingInOrder
<1>3. m \in managers /\ m.m_keys = manager.m_keys /\ m.m_cached = manager.m_cached
      /\ (keysFile = none => m = manager)
      /\ (keysFile # none => m.m_keysFileKey = <<pass, salt>>)
  <2>1. CASE keysFile = none
    BY <1>1, <1>2, <2>1 DEF loaded
  <2>2. CASE keysFile # none /\ keysFile.key # <<pass, salt>>
    BY <1>2, <2>2 DEF loaded, managers
  <2>3. CASE keysFile # none /\ keysFile.key = <<pass, salt>>
    <3>1. /\ keysFile \in keysContents /\ keysFile.entries \in [Accounts -> entriesOf \cup {none}]
          /\ \A a \in listed : keysFile.entries[a] \in entriesOf
      BY <2>3 DEF KeysInv, KeysTypeOK, keysContents
    <3> DEFINE info == [a \in Accounts |->
                           IF a \in listed THEN keysFile.entries[a].passHash ELSE manager.m_keyInfo[a]]
               addrs == [a \in Accounts |->
                           IF a \in listed /\ keysFile.entries[a].uuid # none THEN keysFile.entries[a].uuid
                           ELSE manager.m_addrLookup[a]]
               holder(u) == CHOOSE a \in listed : keysFile.entries[a].uuid = u
               uuids == [u \in Uuids |-> IF \E a \in listed : keysFile.entries[a].uuid = u
                                         THEN holder(u) ELSE manager.m_uuidLookup[u]]
    <3>2. info \in [Accounts -> Passwords \cup {"brain", none}]
      BY <1>2, <3>1 DEF entriesOf, managers
    <3>3. addrs \in [Accounts -> Uuids \cup {none}]
      BY <1>2, <3>1 DEF entriesOf, managers
    <3>4. uuids \in [Uuids -> Accounts \cup {none}]
      <4>1. \A u \in Uuids : (\E a \in listed : keysFile.entries[a].uuid = u) => holder(u) \in Accounts
        OBVIOUS
      <4> HIDE DEF holder
      <4> QED BY <1>2, <4>1 DEF managers
    <3>5. m = [manager EXCEPT !.m_keysFileKey = <<pass, salt>>, !.m_keyInfo = info, !.m_addrLookup = addrs,
                              !.m_uuidLookup = uuids, !.m_cachedPasswords = @ \cup {pass}]
      BY <1>2, <2>3 DEF loaded, managers
    <3> HIDE DEF info, addrs, uuids, m
    <3> QED BY <1>2, <2>3, <3>2, <3>3, <3>4, <3>5 DEF managers
  <2> QED BY <2>1, <2>2, <2>3
<1> HIDE DEF m
<1>4. m # none /\ cachedHeld(m)
  BY <1>2, <1>3, KeysAssumption DEF cachedHeld
<1>5. KeysTypeOK'
  BY <1>1, <1>3, <1>4 DEF KeysInv, KeysTypeOK, cachedHeld
<1>6. SavingInOrder' /\ WritingUnderKey'
  BY <1>1, <1>2, <1>4 DEF SavingInOrder, WritingUnderKey
<1>7. KeysAreMasters'
  BY <1>1, <1>2, <1>3, <1>4 DEF KeysInv, KeysAreMasters, atKeysFile
<1> QED BY <1>5, <1>6, <1>7 DEF KeysInv

\* The password that getPassword finds.
LEMMA PasswordIs ==
  ASSUME NEW m \in managers, NEW u \in Uuids, NEW asked \in Passwords
  PROVE  getPassword(m, u, asked) \in Passwords \cup {none}
BY DEF getPassword, managers

\* The operations that leave the manager its key.
LEMMA ImportKeeps ==
  ASSUME KeysInv, NEW a \in Accounts, NEW u \in Uuids, NEW pass \in Passwords, Import(a, u, pass)
  PROVE  KeysInv'
<1> DEFINE key == manager.m_keysFileKey
           held == [manager EXCEPT
                      !.m_keys[u] = [address |-> a, pass |-> pass], !.m_cached = @ \union {u},
                      !.m_cachedPasswords = @ \union {pass}]
           listed == [held EXCEPT !.m_keyInfo[a] = pass, !.m_addrLookup[a] = u, !.m_uuidLookup[u] = a]
<1>1. manager \in managers /\ cachedHeld(manager)
  BY ManagerIs DEF Import
<1>2. held \in managers /\ held.m_keysFileKey = key
  BY <1>1 DEF managers, keyContents
<1>3. cachedHeld(held)
  BY <1>1, KeysAssumption DEF managers, cachedHeld, keyContents
<1>4. PICK order \in orders(held.m_keys) : Operate(held, storeSave(held, order, listed) \o writeKeysFile(listed))
  BY DEF Import
<1>5. UNCHANGED <<master, saving>>
  BY DEF Import
<1> HIDE DEF held
<1>6. listed \in managers /\ listed.m_keysFileKey = key /\ cachedHeld(listed)
  BY <1>2, <1>3 DEF managers, cachedHeld
<1> HIDE DEF listed
<1>7. held \in managersUnder(key) /\ listed \in managersUnder(key)
  BY <1>2, <1>3, <1>6 DEF managersUnder
<1> HIDE DEF key
<1>8. storeSave(held, order, listed) \o writeKeysFile(listed) \in Seq(keyWrites(key) \cup keysWrites(key))
  BY <1>7, StoreSaveIs, WritesOf
<1> QED BY <1>4, <1>5, <1>7, <1>8, OperateKeeps DEF key

\* Asking for a password leaves the manager what else it had.
LEMMA AskingIs ==
  ASSUME NEW m \in managers, NEW u \in Uuids, NEW asked \in Passwords
  PROVE  /\ asking(m, u, asked) \in managers
         /\ asking(m, u, asked).m_keys = m.m_keys
         /\ asking(m, u, asked).m_cached = m.m_cached
         /\ asking(m, u, asked).m_keysFileKey = m.m_keysFileKey
<1> DEFINE pass == getPassword(m, u, asked)
           noted == [m EXCEPT !.m_cachedPasswords = (@ \union {pass}) \ {none}]
<1>1. pass \in Passwords \cup {none}
  BY PasswordIs
<1> HIDE DEF pass
<1>2. /\ noted \in managers /\ noted.m_keys = m.m_keys /\ noted.m_cached = m.m_cached
      /\ noted.m_keysFileKey = m.m_keysFileKey
  BY <1>1 DEF managers
<1>3. asking(m, u, asked) \in {m, noted}
  BY DEF asking, pass
<1> HIDE DEF noted
<1> QED BY <1>2, <1>3

\* A look at a key.
LEMMA SecretKeeps ==
  ASSUME KeysInv, NEW u \in Uuids, NEW asked \in Passwords, Secret(u, asked)
  PROVE  KeysInv'
<1> DEFINE key == manager.m_keysFileKey
           b == asking(manager, u, asked)
           pass == getPassword(manager, u, asked)
           m == [b EXCEPT !.m_cached = IF decrypts(manager, u, pass) THEN @ \union {u} ELSE @]
<1>1. manager \in managers /\ cachedHeld(manager) /\ manager.m_keys[u] # none
  BY ManagerIs DEF Secret
<1>2. b \in managers /\ b.m_keys = manager.m_keys /\ b.m_cached = manager.m_cached /\ b.m_keysFileKey = key
  BY <1>1, AskingIs
<1>3. Operate(m, <<>>) /\ UNCHANGED <<master, saving>>
  BY DEF Secret
<1> HIDE DEF pass, b
<1>4. m \in managers /\ m.m_keysFileKey = key /\ cachedHeld(m)
  BY <1>1, <1>2 DEF managers, cachedHeld
<1> HIDE DEF m
<1>5. m \in managersUnder(key)
  BY <1>4 DEF managersUnder
<1> HIDE DEF key
<1>6. <<>> \in Seq(keyWrites(key) \cup keysWrites(key))
  OBVIOUS
<1> QED BY <1>3, <1>5, <1>6, OperateKeeps DEF key

\* recode is of a key the store holds.
LEMMA RecodeKeeps ==
  ASSUME KeysInv, NEW a \in Accounts, NEW new \in Passwords, NEW asked \in Passwords, Recode(a, new, asked)
  PROVE  KeysInv'
<1> DEFINE key == manager.m_keysFileKey
           u == manager.m_addrLookup[a]
           b == asking(manager, u, asked)
           m == recoded(b, u, new)
           listed == [m EXCEPT !.m_keyInfo[a] = new]
<1>1. manager \in managers /\ cachedHeld(manager)
  BY ManagerIs DEF Recode
<1>2. u \in Uuids /\ hasSecret(manager, u, getPassword(manager, u, asked))
  BY <1>1 DEF managers, Recode
<1>3. PICK order \in orders(m.m_keys) : Operate(m, storeSave(m, order, listed) \o writeKeysFile(listed))
  BY DEF Recode
<1>4. UNCHANGED <<master, saving>>
  BY DEF Recode
<1>5. manager.m_keys[u] \in keyContents
  BY <1>1, <1>2 DEF hasSecret, decrypts, managers, cachedHeld
<1> HIDE DEF u
<1>6. b \in managers /\ b.m_keys = manager.m_keys /\ b.m_cached = manager.m_cached /\ b.m_keysFileKey = key
  BY <1>1, <1>2, AskingIs
<1> HIDE DEF b
<1>7. m \in managers /\ m.m_keysFileKey = key
  BY <1>2, <1>5, <1>6 DEF recoded, managers, keyContents
<1>8. cachedHeld(m)
  <2>1. [manager.m_keys[u] EXCEPT !.pass = new] # none
    BY <1>5, KeysAssumption DEF keyContents
  <2> QED BY <1>1, <1>2, <1>6, <2>1 DEF recoded, managers, cachedHeld
<1> HIDE DEF m
<1>9. listed \in managers /\ listed.m_keysFileKey = key /\ cachedHeld(listed)
  BY <1>7, <1>8 DEF managers, cachedHeld
<1> HIDE DEF listed
<1>10. m \in managersUnder(key) /\ listed \in managersUnder(key)
  BY <1>7, <1>8, <1>9 DEF managersUnder
<1> HIDE DEF key
<1>11. storeSave(m, order, listed) \o writeKeysFile(listed) \in Seq(keyWrites(key) \cup keysWrites(key))
  BY <1>10, StoreSaveIs, WritesOf
<1> QED BY <1>3, <1>4, <1>10, <1>11, OperateKeeps DEF key

\* The operations that rewrite the keys file only.
LEMMA ListingKeeps ==
  ASSUME KeysInv,
         \/ \E u \in Uuids, pass \in Passwords : ImportExisting(u, pass)
         \/ \E a \in Accounts : ImportBrain(a)
  PROVE  KeysInv'
<1> DEFINE key == manager.m_keysFileKey
<1>1. manager \in managers /\ cachedHeld(manager)
  BY ManagerIs DEF ImportExisting, ImportBrain
<1>2. UNCHANGED <<master, saving>>
  BY DEF ImportExisting, ImportBrain
<1>3. ASSUME NEW m \in managers, m.m_keysFileKey = key, cachedHeld(m), Operate(m, writeKeysFile(m))
      PROVE  KeysInv'
  <2>1. m \in managersUnder(key)
    BY <1>3 DEF managersUnder
  <2> HIDE DEF key
  <2>2. writeKeysFile(m) \in Seq(keyWrites(key) \cup keysWrites(key))
    BY <2>1, WriteKeysFileIs
  <2> QED BY <1>2, <1>3, <2>1, <2>2, OperateKeeps DEF key
<1>4. ASSUME NEW u \in Uuids, NEW pass \in Passwords, ImportExisting(u, pass)
      PROVE  KeysInv'
  <2> DEFINE b == manager.m_keys[u].address
             m == [manager EXCEPT !.m_uuidLookup[u] = b, !.m_addrLookup[b] = u, !.m_keyInfo[b] = pass,
                     !.m_cached = @ \union {u}, !.m_cachedPasswords = @ \union {pass}]
  <2>1. manager.m_keys[u] # none /\ Operate(m, writeKeysFile(m))
    BY <1>4 DEF ImportExisting
  <2>2. b \in Accounts
    BY <1>1, <2>1 DEF managers, keyContents
  <2>3. m \in managers /\ m.m_keysFileKey = key
    BY <1>1, <2>2 DEF managers
  <2>4. cachedHeld(m)
    BY <1>1, <2>1, <2>2 DEF managers, cachedHeld
  <2> HIDE DEF m
  <2> QED BY <1>3, <2>1, <2>3, <2>4
<1>5. ASSUME NEW a \in Accounts, ImportBrain(a)
      PROVE  KeysInv'
  <2> DEFINE m == [manager EXCEPT !.m_keyInfo[a] = IF @ = none THEN "brain" ELSE @]
  <2>1. m \in managers /\ m.m_keysFileKey = key /\ Operate(m, writeKeysFile(m))
    BY <1>1, <1>5 DEF managers, ImportBrain
  <2>2. cachedHeld(m)
    BY <1>1 DEF managers, cachedHeld
  <2> HIDE DEF m
  <2> QED BY <1>3, <2>1, <2>2
<1> QED BY <1>4, <1>5

\* The removal of an address, and of the key it has.
LEMMA KillKeeps ==
  ASSUME KeysInv, NEW a \in Accounts, KillAccount(a)
  PROVE  KeysInv'
<1> DEFINE key == manager.m_keysFileKey
           u == manager.m_addrLookup[a]
           forgotten == [manager EXCEPT !.m_addrLookup[a] = none, !.m_keyInfo[a] = none]
           unlisted == [forgotten EXCEPT !.m_uuidLookup[u] = none, !.m_cached = @ \ {u}]
           killed == [unlisted EXCEPT !.m_keys[u] = none]
<1>1. manager \in managers /\ cachedHeld(manager) /\ UNCHANGED <<master, saving>>
  BY ManagerIs DEF KillAccount
<1>2. \/ u = none /\ Operate(forgotten, writeKeysFile(forgotten))
      \/ u # none /\ Operate(killed, writeKeysFile(killed))
      \/ u # none /\ Operate(unlisted, replaceFile(u, none, killed) \o writeKeysFile(killed))
  BY DEF KillAccount
<1>3. u \in Uuids \cup {none}
  BY <1>1 DEF managers
<1> HIDE DEF u
<1>4. /\ forgotten \in managers /\ forgotten.m_keysFileKey = key
      /\ forgotten.m_keys = manager.m_keys /\ forgotten.m_cached = manager.m_cached
  BY <1>1 DEF managers
<1>5. forgotten \in managersUnder(key)
  BY <1>1, <1>4 DEF managersUnder, cachedHeld
<1> HIDE DEF forgotten
<1>6. u # none => /\ unlisted \in managers /\ unlisted.m_keysFileKey = key
                  /\ unlisted.m_keys = manager.m_keys /\ unlisted.m_cached = manager.m_cached \ {u}
  BY <1>3, <1>4 DEF managers
<1> HIDE DEF unlisted
<1>7. u # none => /\ killed \in managers /\ killed.m_keysFileKey = key
                  /\ killed.m_keys = [manager.m_keys EXCEPT ![u] = none] /\ killed.m_cached = manager.m_cached \ {u}
  BY <1>3, <1>6 DEF managers
<1> HIDE DEF killed
<1>8. u # none => unlisted \in managersUnder(key) /\ killed \in managersUnder(key)
  BY <1>1, <1>3, <1>6, <1>7 DEF managersUnder, cachedHeld, managers
<1> HIDE DEF key
<1>9. CASE u = none /\ Operate(forgotten, writeKeysFile(forgotten))
  <2>1. writeKeysFile(forgotten) \in Seq(keyWrites(key) \cup keysWrites(key))
    BY <1>5, WriteKeysFileIs
  <2> QED BY <1>1, <1>5, <1>9, <2>1, OperateKeeps DEF key
<1>10. CASE u # none /\ Operate(killed, writeKeysFile(killed))
  <2>1. writeKeysFile(killed) \in Seq(keyWrites(key) \cup keysWrites(key))
    BY <1>8, <1>10, WriteKeysFileIs
  <2> QED BY <1>1, <1>8, <1>10, <2>1, OperateKeeps DEF key
<1>11. CASE u # none /\ Operate(unlisted, replaceFile(u, none, killed) \o writeKeysFile(killed))
  <2>1. [file |-> u, content |-> none, after |-> killed] \in keyWrites(key)
    BY <1>3, <1>8, <1>11 DEF keyWrites
  <2>2. replaceFile(u, none, killed) \in Seq(keyWrites(key))
    BY <2>1 DEF replaceFile
  <2>3. replaceFile(u, none, killed) \o writeKeysFile(killed) \in Seq(keyWrites(key) \cup keysWrites(key))
    BY <1>8, <1>11, <2>2, WritesOf
  <2> QED BY <1>1, <1>8, <1>11, <2>3, OperateKeeps DEF key
<1> QED BY <1>2, <1>9, <1>10, <1>11

\* Wherever a process dies and whichever write fails, the password last set
\* opens the keys file that is there, unless a save ended between its salt and
\* its keys file and none was whole since; for users who do not mistype the
\* password, as the code keeps the key of a load that failed.
THEOREM KeysFileStaysOpen ==
  ASSUME Typos = {}
  PROVE  KeysSpec => []KeysFileOpens
<1>1. KeysInit => KeysInv
  <2> SUFFICES ASSUME KeysInit PROVE KeysInv
    OBVIOUS
  <2>1. KeysTypeOK
    BY DEF KeysInit, KeysTypeOK
  <2>2. SavingInOrder /\ WritingUnderKey /\ KeysAreMasters
    BY DEF KeysInit, SavingInOrder, WritingUnderKey, KeysAreMasters
  <2> QED BY <2>1, <2>2 DEF KeysInv
<1>2. KeysInv /\ [KeysNext]_keyVars => KeysInv'
  <2> SUFFICES ASSUME KeysInv, [KeysNext]_keyVars PROVE KeysInv'
    OBVIOUS
  <2>1. CASE UNCHANGED keyVars
    <3>1. UNCHANGED <<keyFiles, salt, keysFile, manager, todo, saving, master, broken, operations, deaths, failures>>
      BY <2>1 DEF keyVars
    <3>2. KeysTypeOK'
      BY <3>1 DEF KeysInv, KeysTypeOK, cachedHeld
    <3>3. SavingInOrder' /\ WritingUnderKey' /\ KeysAreMasters'
      BY <3>1 DEF KeysInv, SavingInOrder, WritingUnderKey, KeysAreMasters, saltWrites, atKeysFile
    <3> QED BY <3>2, <3>3 DEF KeysInv
  <2>2. CASE Construct \/ Step \/ FileFails \/ Die
    BY <2>2, ConstructKeeps, StepKeeps, CutKeeps
  <2>3. ASSUME NEW pass \in Passwords, Create(pass) \/ Save(pass) \/ Load(pass)
        PROVE  KeysInv'
    <3>1. CASE Load(pass)
      BY <3>1, LoadKeeps
    <3>2. CASE Create(pass) \/ Save(pass)
      <4>1. /\ Operate(manager, masterWrites(manager, pass)) /\ saving' = pass
            /\ manager # none /\ UNCHANGED master
        BY <3>2 DEF Create, Save
      <4> QED BY <4>1, MasterKeeps
    <3> QED BY <2>3, <3>1, <3>2
  <2>4. ASSUME NEW a \in Accounts, NEW pass \in Passwords,
               \/ \E u \in Uuids : Import(a, u, pass)
               \/ \E asked \in Passwords : Recode(a, pass, asked)
        PROVE  KeysInv'
    BY <2>4, ImportKeeps, RecodeKeeps
  <2>5. ASSUME NEW u \in Uuids, NEW pass \in Passwords, Secret(u, pass) \/ ImportExisting(u, pass)
        PROVE  KeysInv'
    BY <2>5, ListingKeeps, SecretKeeps
  <2>6. ASSUME NEW a \in Accounts, ImportBrain(a) \/ KillAccount(a)
        PROVE  KeysInv'
    BY <2>6, ListingKeeps, KillKeeps
  <2> QED BY <2>1, <2>2, <2>3, <2>4, <2>5, <2>6 DEF KeysNext
<1>3. KeysInv => KeysFileOpens
  <2> SUFFICES ASSUME KeysInv, keysFile # none, ~broken, todo = <<>>
               PROVE  keysFile # torn /\ keysFile.key = <<master, salt>>
    BY DEF KeysFileOpens
  <2>1. keysFile # torn
    BY KeysAssumption DEF KeysInv, KeysTypeOK
  <2>2. ~atKeysFile
    BY DEF atKeysFile
  <2> QED BY <2>1, <2>2 DEF KeysInv, KeysAreMasters
<1> QED BY <1>1, <1>2, <1>3, PTL DEF KeysSpec
=============================================================================
