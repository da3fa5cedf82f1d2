------------------------------ MODULE PBFTProof ------------------------------
(***************************************************************************)
(* Machine-checked proofs about the loop with which dev::eth::PBFTClient   *)
(* makes blocks, for any transactions, prices and bounds, and about uncles.*)
(*                                                                         *)
(* SignedAsPrepared speaks of blocks that were signed.  What is signed was *)
(* committed under one lock and played back under another, so PBFTInv says *)
(* of the working block, wherever the client's thread is, that it has run  *)
(* its transactions on its parent's state and nothing else (Played), and   *)
(* of the block that is being broadcast that nobody changed it since       *)
(* (BroadcastAsCommitted).  From Played it follows that a block with       *)
(* transactions is refused when it is played back: they were run before    *)
(* (OthersAreRefused).                                                     *)
(*                                                                         *)
(* Block tries the transactions of the queue one after the other, which is *)
(* a fold.  Such a fold exists as a function (FoldExists), and what every  *)
(* transaction keeps the whole keeps (FoldInduction).                      *)
(*                                                                         *)
(* Uncles, of blocks in any tree, for any window and clocks. The           *)
(* search of commitToSeal goes from ancestor to ancestor, the test of enact*)
(* from an uncle's number to an ancestor, and they agree because every     *)
(* ancestor is a generation older (AboveIs). A block stays as it is while  *)
(* the tree grows (AboveSame, PassesSame). An uncle cannot be rewarded     *)
(* twice because the kin of all ancestors it could be reached from, and    *)
(* they themselves, are excluded (RewardedOnceIn).                         *)
(***************************************************************************)
EXTENDS PBFT, Uncles, FiniteSetTheorems, SequenceTheorems, WellFoundedInduction, TLAPS

\* A set of numbers that holds 0 and with a number the next one holds them all.
LEMMA EveryNumber ==
  ASSUME NEW S, 0 \in S, \A n \in Nat : n \in S => n + 1 \in S
  PROVE  Nat \subseteq S
<1> SUFFICES ASSUME Nat \ S # {}
             PROVE  FALSE
  OBVIOUS
<1>1. PICK n \in Nat \ S : \A m \in Nat \ S : ~(<<m, n>> \in OpToRel(<, Nat))
  BY NatLessThanWellFounded, WFMin
<1>2. n - 1 \in Nat
  OBVIOUS
<1>3. <<n - 1, n>> \in OpToRel(<, Nat)
  BY <1>2 DEF OpToRel
<1>4. n - 1 \in S
  BY <1>1, <1>2, <1>3
<1> QED BY <1>2, <1>4

-----------------------------------------------------------------------------
(* Folds over sequences.                                                   *)

\* The last of some places of a sequence.
LEMMA LastPlace ==
  ASSUME NEW n \in Nat, NEW s \in SUBSET (1 .. n + 1)
  PROVE  /\ s \ {n + 1} \in SUBSET (1 .. n)
         /\ n + 1 \in s => Max(s) = n + 1
<1>1. n + 1 \in s => \A x \in s : (\A y \in s : x >= y) <=> x = n + 1
  OBVIOUS
<1>2. n + 1 \in s => Max(s) = n + 1
  BY <1>1 DEF Max
<1> QED BY <1>2

\* What a function is on the places of a sequence follows from what it is on
\* none of them and from how each place goes on from those before it.
LEMMA FoldInduction ==
  ASSUME NEW n \in Nat, NEW V, NEW g, g[{}] \in V,
         \A s \in SUBSET (1 .. n) : s # {} /\ g[s \ {Max(s)}] \in V => g[s] \in V
  PROVE  g[1 .. n] \in V
<1> DEFINE Good == {k \in Nat : k <= n => \A s \in SUBSET (1 .. k) : g[s] \in V}
<1>1. 0 \in Good
  <2>1. \A s \in SUBSET (1 .. 0) : s = {}
    OBVIOUS
  <2> QED BY <2>1
<1>2. ASSUME NEW k \in Nat, k \in Good
      PROVE  k + 1 \in Good
  <2> SUFFICES ASSUME k + 1 <= n, NEW s \in SUBSET (1 .. k + 1)
               PROVE  g[s] \in V
    OBVIOUS
  <2>1. \A r \in SUBSET (1 .. k) : g[r] \in V
    BY <1>2
  <2>2. CASE k + 1 \notin s
    <3>1. s \in SUBSET (1 .. k)
      BY <2>2
    <3> QED BY <2>1, <3>1
  <2>3. CASE k + 1 \in s
    <3>1. s \ {k + 1} \in SUBSET (1 .. k) /\ Max(s) = k + 1
      BY <2>3, LastPlace
    <3>2. s \in SUBSET (1 .. n) /\ s # {}
      BY <2>3
    <3>3. g[s \ {Max(s)}] \in V
      BY <2>1, <3>1
    <3> QED BY <3>2, <3>3
  <2> QED BY <2>2, <2>3
<1>3. n \in Good
  <2> HIDE DEF Good
  <2> QED BY <1>1, <1>2, EveryNumber
<1> QED BY <1>3

\* Folding seq with G from first is a function.
HasFold(n, V, first, seq, G) ==
    \E f \in [SUBSET (1 .. n) -> V] :
        /\ f[{}] = first
        /\ \A s \in SUBSET (1 .. n) : s # {} => f[s] = G[<<f[s \ {Max(s)}], seq[Max(s)]>>]

\* A fold whose results stay in a set exists.
LEMMA FoldExists ==
  ASSUME NEW n \in Nat, NEW V, NEW first \in V, NEW T, NEW seq \in [1 .. n -> T], NEW G \in [V \X T -> V]
  PROVE  HasFold(n, V, first, seq, G)
<1> DEFINE Folds(f, k) == \A s \in SUBSET (1 .. k) :
                              f[s] = IF s = {} THEN first ELSE G[<<f[s \ {Max(s)}], seq[Max(s)]>>]
           Folded(k) == \E f \in [SUBSET (1 .. k) -> V] : Folds(f, k)
           Good == {k \in Nat : k <= n => Folded(k)}
<1>1. 0 \in Good
  <2>1. \A s \in SUBSET (1 .. 0) : s = {}
    OBVIOUS
  <2>2. [s \in SUBSET (1 .. 0) |-> first] \in [SUBSET (1 .. 0) -> V]
    OBVIOUS
  <2>3. Folds([s \in SUBSET (1 .. 0) |-> first], 0)
    BY <2>1
  <2> QED BY <2>2, <2>3
<1>2. ASSUME NEW k \in Nat, k \in Good
      PROVE  k + 1 \in Good
  <2> SUFFICES ASSUME k + 1 <= n
               PROVE  Folded(k + 1)
    <3> HIDE DEF Folded
    <3> QED OBVIOUS
  <2>1. PICK f \in [SUBSET (1 .. k) -> V] : Folds(f, k)
    <3>1. Folded(k)
      <4> HIDE DEF Folded
      <4> QED BY <1>2
    <3> HIDE DEF Folds
    <3> QED BY <3>1
  <2> DEFINE next(s) == IF k + 1 \in s THEN G[<<f[s \ {k + 1}], seq[k + 1]>>] ELSE f[s]
             h == [s \in SUBSET (1 .. k + 1) |-> next(s)]
  <2>2. ASSUME NEW s \in SUBSET (1 .. k + 1)
        PROVE  s \ {k + 1} \in SUBSET (1 .. k) /\ (k + 1 \in s => Max(s) = k + 1)
    BY LastPlace
  <2>3. seq[k + 1] \in T
    OBVIOUS
  <2>4. h \in [SUBSET (1 .. k + 1) -> V]
    <3> SUFFICES ASSUME NEW s \in SUBSET (1 .. k + 1)
                 PROVE  next(s) \in V
      OBVIOUS
    <3>1. CASE k + 1 \in s
      <4>1. f[s \ {k + 1}] \in V
        BY <2>2
      <4> QED BY <3>1, <4>1, <2>3
    <3>2. CASE k + 1 \notin s
      <4>1. s \in SUBSET (1 .. k)
        BY <3>2, <2>2
      <4> QED BY <3>2, <4>1
    <3> QED BY <3>1, <3>2
  <2>5. Folds(h, k + 1)
    <3> SUFFICES ASSUME NEW s \in SUBSET (1 .. k + 1)
                 PROVE  h[s] = IF s = {} THEN first ELSE G[<<h[s \ {Max(s)}], seq[Max(s)]>>]
      OBVIOUS
    <3>1. CASE k + 1 \in s
      <4> DEFINE r == s \ {k + 1}
      <4>1. r \in SUBSET (1 .. k) /\ Max(s) = k + 1 /\ r \in SUBSET (1 .. k + 1) /\ k + 1 \notin r
        BY <3>1, <2>2
      <4>2. h[r] = f[r]
        BY <4>1
      <4>3. h[s] = G[<<f[r], seq[k + 1]>>]
        BY <3>1
      <4> HIDE DEF h
      <4> QED BY <3>1, <4>1, <4>2, <4>3
    <3>2. CASE k + 1 \notin s
      <4>1. s \in SUBSET (1 .. k) /\ s \in SUBSET (1 .. k + 1)
        BY <3>2, <2>2
      <4>2. h[s] = f[s]
        BY <3>2
      <4>3. s \ {Max(s)} \in SUBSET (1 .. k) /\ s \ {Max(s)} \in SUBSET (1 .. k + 1) /\ k + 1 \notin s \ {Max(s)}
        BY <3>2, <4>1
      <4>4. h[s \ {Max(s)}] = f[s \ {Max(s)}]
        BY <4>3
      <4>5. f[s] = IF s = {} THEN first ELSE G[<<f[s \ {Max(s)}], seq[Max(s)]>>]
        BY <2>1, <4>1
      <4> HIDE DEF h, Folds
      <4> QED BY <4>2, <4>4, <4>5
    <3> QED BY <3>1, <3>2
  <2> HIDE DEF h, Folds
  <2> QED BY <2>4, <2>5
<1>3. n \in Good
  <2> HIDE DEF Good
  <2> QED BY <1>1, <1>2, EveryNumber
<1>4. Folded(n)
  <2> HIDE DEF Folded
  <2> QED BY <1>3
<1>5. PICK f \in [SUBSET (1 .. n) -> V] : Folds(f, n)
  <2> HIDE DEF Folds
  <2> QED BY <1>4
<1>6. {} \in SUBSET (1 .. n)
  OBVIOUS
<1>7. f[{}] = first
  BY <1>5, <1>6
<1>8. \A s \in SUBSET (1 .. n) : s # {} => f[s] = G[<<f[s \ {Max(s)}], seq[Max(s)]>>]
  BY <1>5
<1> HIDE DEF Folds
<1> QED BY <1>7, <1>8 DEF HasFold

\* There is a last one among some places.
LEMMA LastIsOne ==
  ASSUME NEW n \in Nat, NEW s \in SUBSET (1 .. n), s # {}
  PROVE  Max(s) \in s /\ s \ {Max(s)} \in SUBSET (1 .. n)
<1> DEFINE Good == {k \in Nat : \A r \in SUBSET (1 .. k) : r # {} => Max(r) \in r}
<1>1. 0 \in Good
  <2>1. \A r \in SUBSET (1 .. 0) : r = {}
    OBVIOUS
  <2> QED BY <2>1
<1>2. ASSUME NEW k \in Nat, k \in Good
      PROVE  k + 1 \in Good
  <2> SUFFICES ASSUME NEW r \in SUBSET (1 .. k + 1), r # {}
               PROVE  Max(r) \in r
    OBVIOUS
  <2>1. CASE k + 1 \in r
    BY <2>1, LastPlace
  <2>2. CASE k + 1 \notin r
    <3>1. r \in SUBSET (1 .. k)
      BY <2>2
    <3> QED BY <1>2, <3>1
  <2> QED BY <2>1, <2>2
<1>3. n \in Good
  <2> HIDE DEF Good
  <2> QED BY <1>1, <1>2, EveryNumber
<1> QED BY <1>3

-----------------------------------------------------------------------------
(* The transaction queue and Block's transactions.                         *)

\* The queue holds transactions that were submitted.
LEMMA QueueKeeps ==
  ASSUME NEW q \in Queues, NEW t \in Submissions
  PROVE  /\ tqDrop(q, t) \in Queues /\ tqDropGood(q, t) \in Queues /\ tqSetFuture(q, t) \in Queues
         /\ \A retry : tqImport(q, t, retry) \in Queues
<1>1. ASSUME NEW r \in Queues, NEW A \in SUBSET Submissions, NEW B \in SUBSET Submissions, NEW C \in SUBSET Submissions
      PROVE  /\ [current |-> A, future |-> B, dropped |-> C] \in Queues
             /\ [r EXCEPT !.current = A, !.future = B] \in Queues
             /\ [r EXCEPT !.current = A, !.future = B, !.dropped = C] \in Queues
  BY DEF Queues
<1>2. q.current \in SUBSET Submissions /\ q.future \in SUBSET Submissions /\ q.dropped \in SUBSET Submissions
  BY DEF Queues
<1>3. tqDrop(q, t) \in Queues
  BY <1>1, <1>2 DEF tqDrop
<1>4. tqDropGood(q, t) \in Queues
  <2> DEFINE left == tqDrop(q, t)
             next == {u \in left.future : u.nonce = t.nonce + 1}
  <2>1. left \in Queues
    BY <1>3
  <2>2. left.current \in SUBSET Submissions /\ left.future \in SUBSET Submissions
    BY <2>1 DEF Queues
  <2> DEFINE A == left.current \cup next
             B == left.future \ next
  <2>3. tqDropGood(q, t) = [left EXCEPT !.current = A, !.future = B]
    BY DEF tqDropGood
  <2>4. A \in SUBSET Submissions /\ B \in SUBSET Submissions
    BY <2>2
  <2> HIDE DEF left, A, B
  <2>5. [left EXCEPT !.current = A, !.future = B] \in Queues
    BY <1>1, <2>1, <2>4
  <2> QED BY <2>3, <2>5
<1>5. tqSetFuture(q, t) \in Queues
  BY <1>1, <1>2 DEF tqSetFuture
<1>6. ASSUME NEW retry
      PROVE  tqImport(q, t, retry) \in Queues
  <2> DEFINE current == {u \in q.current : u.nonce # t.nonce} \cup {t}
             next == {u \in q.future : u.nonce = t.nonce + 1}
             future == {u \in q.future : u.nonce \notin {t.nonce, t.nonce + 1}}
             A == current \cup next
             C == q.dropped \ {t}
  <2>1. tqImport(q, t, retry) \in {q, [current |-> A, future |-> future, dropped |-> C]}
    BY DEF tqImport
  <2>2. A \in SUBSET Submissions /\ future \in SUBSET Submissions /\ C \in SUBSET Submissions
    BY <1>2
  <2> HIDE DEF A, future, C
  <2>3. [current |-> A, future |-> future, dropped |-> C] \in Queues
    BY <1>1, <2>2
  <2> QED BY <2>1, <2>3
<1> QED BY <1>3, <1>4, <1>5, <1>6

\* What was included in a block leaves the queue.
LEMMA DropsKeep ==
  ASSUME NEW q \in Queues, NEW txs \in Seq(Submissions)
  PROVE  FoldLeft(tqDropGood, q, txs) \in Queues
<1> DEFINE n == Len(txs)
           step(r, t) == tqDropGood(r, t)
           E(it) == [s \in SUBSET (1 .. n) |-> IF s = {} THEN q ELSE step(it[s \ {Max(s)}], txs[Max(s)])]
           G == [p \in Queues \X Submissions |-> step(p[1], p[2])]
<1>1. n \in Nat /\ DOMAIN txs = 1 .. n /\ txs \in [1 .. n -> Submissions]
  OBVIOUS
<1>2. FoldLeft(tqDropGood, q, txs) = (CHOOSE it : it = E(it))[1 .. n]
  BY <1>1 DEF FoldLeft, MapThenFoldSet
<1>3. \A r \in Queues, t \in Submissions : step(r, t) \in Queues /\ G[<<r, t>>] = step(r, t)
  BY QueueKeeps
<1>4. G \in [Queues \X Submissions -> Queues]
  BY QueueKeeps
<1> HIDE DEF n, step, G
<1>5. \A s \in SUBSET (1 .. n) : s # {} => txs[Max(s)] \in Submissions /\ s \ {Max(s)} \in SUBSET (1 .. n)
  <2> SUFFICES ASSUME NEW s \in SUBSET (1 .. n), s # {}
               PROVE  txs[Max(s)] \in Submissions /\ s \ {Max(s)} \in SUBSET (1 .. n)
    OBVIOUS
  <2>1. Max(s) \in s /\ s \ {Max(s)} \in SUBSET (1 .. n)
    BY <1>1, LastIsOne
  <2> QED BY <1>1, <2>1
<1>6. \E f : f = E(f)
  <2>1. PICK f \in [SUBSET (1 .. n) -> Queues] :
            /\ f[{}] = q
            /\ \A s \in SUBSET (1 .. n) : s # {} => f[s] = G[<<f[s \ {Max(s)}], txs[Max(s)]>>]
    <3>1. HasFold(n, Queues, q, txs, G)
      BY <1>1, <1>4, FoldExists
    <3> QED BY <3>1 DEF HasFold
  <2>2. \A s \in SUBSET (1 .. n) : f[s] = IF s = {} THEN q ELSE step(f[s \ {Max(s)}], txs[Max(s)])
    BY <2>1, <1>3, <1>5
  <2>3. f = E(f)
    BY <2>1, <2>2
  <2> QED BY <2>3
<1>7. PICK g : g = E(g) /\ FoldLeft(tqDropGood, q, txs) = g[1 .. n]
  <2> HIDE DEF E
  <2> QED BY <1>2, <1>6
<1>8. g[{}] = q /\ \A s \in SUBSET (1 .. n) : s # {} => g[s] = step(g[s \ {Max(s)}], txs[Max(s)])
  BY <1>7
<1>9. g[{}] \in Queues /\ \A s \in SUBSET (1 .. n) : s # {} /\ g[s \ {Max(s)}] \in Queues => g[s] \in Queues
  BY <1>3, <1>5, <1>8
<1>10. g[1 .. n] \in Queues
  BY <1>1, <1>9, FoldInduction, Zenon
<1> QED BY <1>7, <1>10

\* What is resubmitted is in the queue again.
LEMMA ImportsKeep ==
  ASSUME NEW q \in Queues, NEW txs \in Seq(Submissions)
  PROVE  FoldLeft(LAMBDA r, t : tqImport(r, t, TRUE), q, txs) \in Queues
<1> DEFINE n == Len(txs)
           step(r, t) == tqImport(r, t, TRUE)
           E(it) == [s \in SUBSET (1 .. n) |-> IF s = {} THEN q ELSE step(it[s \ {Max(s)}], txs[Max(s)])]
           G == [p \in Queues \X Submissions |-> step(p[1], p[2])]
           final == FoldLeft(LAMBDA r, t : tqImport(r, t, TRUE), q, txs)
<1>1. n \in Nat /\ DOMAIN txs = 1 .. n /\ txs \in [1 .. n -> Submissions]
  OBVIOUS
<1>2. final = (CHOOSE it : it = E(it))[1 .. n]
  BY <1>1 DEF FoldLeft, MapThenFoldSet
<1>3. \A r \in Queues, t \in Submissions : step(r, t) \in Queues /\ G[<<r, t>>] = step(r, t)
  BY QueueKeeps
<1>4. G \in [Queues \X Submissions -> Queues]
  BY QueueKeeps
<1> HIDE DEF n, step, G, final
<1>5. \A s \in SUBSET (1 .. n) : s # {} => txs[Max(s)] \in Submissions /\ s \ {Max(s)} \in SUBSET (1 .. n)
  <2> SUFFICES ASSUME NEW s \in SUBSET (1 .. n), s # {}
               PROVE  txs[Max(s)] \in Submissions /\ s \ {Max(s)} \in SUBSET (1 .. n)
    OBVIOUS
  <2>1. Max(s) \in s /\ s \ {Max(s)} \in SUBSET (1 .. n)
    BY <1>1, LastIsOne
  <2> QED BY <1>1, <2>1
<1>6. \E f : f = E(f)
  <2>1. PICK f \in [SUBSET (1 .. n) -> Queues] :
            /\ f[{}] = q
            /\ \A s \in SUBSET (1 .. n) : s # {} => f[s] = G[<<f[s \ {Max(s)}], txs[Max(s)]>>]
    <3>1. HasFold(n, Queues, q, txs, G)
      BY <1>1, <1>4, FoldExists
    <3> QED BY <3>1 DEF HasFold
  <2>2. \A s \in SUBSET (1 .. n) : f[s] = IF s = {} THEN q ELSE step(f[s \ {Max(s)}], txs[Max(s)])
    BY <2>1, <1>3, <1>5
  <2>3. f = E(f)
    BY <2>1, <2>2
  <2> QED BY <2>3
<1>7. PICK g : g = E(g) /\ final = g[1 .. n]
  <2> HIDE DEF E
  <2> QED BY <1>2, <1>6
<1>8. g[{}] = q /\ \A s \in SUBSET (1 .. n) : s # {} => g[s] = step(g[s \ {Max(s)}], txs[Max(s)])
  BY <1>7
<1>9. g[{}] \in Queues /\ \A s \in SUBSET (1 .. n) : s # {} /\ g[s \ {Max(s)}] \in Queues => g[s] \in Queues
  BY <1>3, <1>5, <1>8
<1>10. g[1 .. n] \in Queues
  BY <1>1, <1>9, FoldInduction, Zenon
<1> QED BY <1>7, <1>10 DEF final

\* Any finite set of transactions has a last one in the order of the queue.
LEMMA LastTransaction ==
  ASSUME NEW n \in Nat, NEW S \in SUBSET Submissions, IsFiniteSet(S), Cardinality(S) = n, S # {}
  PROVE  \E m \in S : \A u \in S : ~before(m, u)
<1> DEFINE HasLast(R) == \E m \in R : \A u \in R : ~before(m, u)
           Good == {k \in Nat : \A R \in SUBSET Submissions :
                        IsFiniteSet(R) /\ Cardinality(R) = k /\ R # {} => HasLast(R)}
<1>1. /\ \A t, u \in Submissions : before(t, u) => ~before(u, t)
      /\ \A t, u, v \in Submissions : before(t, u) /\ before(u, v) => before(t, v)
  <2>1. \A t \in Submissions : t.nonce \in Nat /\ t.price \in Nat
    BY SubmissionsAssumption
  <2> QED BY <2>1 DEF before
<1>2. 0 \in Good
  BY FS_EmptySet
<1>3. ASSUME NEW k \in Nat, k \in Good
      PROVE  k + 1 \in Good
  <2> SUFFICES ASSUME NEW R \in SUBSET Submissions, IsFiniteSet(R), Cardinality(R) = k + 1, R # {}
               PROVE  HasLast(R)
    <3> HIDE DEF HasLast
    <3> QED OBVIOUS
  <2>1. PICK x \in R : TRUE
    OBVIOUS
  <2> DEFINE Q == R \ {x}
  <2>2. IsFiniteSet(Q) /\ Cardinality(Q) = k
    <3>1. IsFiniteSet(Q) /\ Cardinality(Q) = Cardinality(R) - 1
      BY <2>1, FS_RemoveElement
    <3> QED BY <3>1
  <2>3. Q \in SUBSET Submissions
    OBVIOUS
  <2>4. Q # {} => HasLast(Q)
    <3> HIDE DEF HasLast, Q
    <3> QED BY <1>3, <2>2, <2>3
  <2>5. CASE Q = {}
    <3>1. \A u \in R : u = x
      BY <2>5
    <3> QED BY <1>1, <2>1, <3>1
  <2>6. CASE Q # {}
    <3>1. PICK m \in Q : \A u \in Q : ~before(m, u)
      BY <2>4, <2>6
    <3>2. CASE before(m, x)
      <4>1. \A u \in Q : ~before(x, u)
        BY <1>1, <2>1, <3>1, <3>2
      <4>2. ~before(x, x)
        BY <1>1, <2>1
      <4> QED BY <2>1, <4>1, <4>2
    <3>3. CASE ~before(m, x)
      BY <2>1, <3>1, <3>3
    <3> QED BY <3>2, <3>3
  <2> QED BY <2>5, <2>6
<1>4. n \in Good
  <2> HIDE DEF Good
  <2> QED BY <1>2, <1>3, EveryNumber
<1> HIDE DEF HasLast
<1>5. HasLast(S)
  BY <1>4
<1> QED BY <1>5 DEF HasLast

\* Any finite set of transactions can be put in the order of the queue.
LEMMA Sortable ==
  ASSUME NEW S \in SUBSET Submissions, IsFiniteSet(S)
  PROVE  \E ts \in SetToSeqs(S) : \A i, j \in DOMAIN ts : i < j => ~before(ts[j], ts[i])
<1> DEFINE Sorts(ts, R, k) ==
             /\ ts \in [1 .. k -> R]
             /\ \A i, j \in 1 .. k : i < j => ts[i] # ts[j] /\ ~before(ts[j], ts[i])
           HasOrder(R, k) == \E ts : Sorts(ts, R, k)
           Good == {k \in Nat : \A R \in SUBSET Submissions :
                        IsFiniteSet(R) /\ Cardinality(R) = k => HasOrder(R, k)}
<1>1. 0 \in Good
  <2> SUFFICES ASSUME NEW R \in SUBSET Submissions
               PROVE  HasOrder(R, 0)
    OBVIOUS
  <2>1. Sorts([i \in 1 .. 0 |-> i], R, 0)
    OBVIOUS
  <2> QED BY <2>1
<1>2. ASSUME NEW k \in Nat, k \in Good
      PROVE  k + 1 \in Good
  <2> SUFFICES ASSUME NEW R \in SUBSET Submissions, IsFiniteSet(R), Cardinality(R) = k + 1
               PROVE  HasOrder(R, k + 1)
    <3> HIDE DEF HasOrder
    <3> QED OBVIOUS
  <2>1. R # {}
    BY FS_EmptySet
  <2>2. PICK m \in R : \A u \in R : ~before(m, u)
    BY <2>1, LastTransaction
  <2> DEFINE Q == R \ {m}
  <2>3. IsFiniteSet(Q) /\ Cardinality(Q) = k
    <3>1. IsFiniteSet(Q) /\ Cardinality(Q) = Cardinality(R) - 1
      BY <2>2, FS_RemoveElement
    <3> QED BY <3>1
  <2>4. PICK ts : Sorts(ts, Q, k)
    <3>1. Q \in SUBSET Submissions
      OBVIOUS
    <3>2. HasOrder(Q, k)
      <4> HIDE DEF HasOrder, Q
      <4> QED BY <1>2, <2>3, <3>1
    <3> QED BY <3>2
  <2> DEFINE all == [i \in 1 .. k + 1 |-> IF i <= k THEN ts[i] ELSE m]
  <2>5. \A i \in 1 .. k : ts[i] \in R /\ ts[i] # m /\ i \in 1 .. k + 1
    BY <2>4
  <2>6. all \in [1 .. k + 1 -> R]
    BY <2>2, <2>5
  <2>7. ASSUME NEW i \in 1 .. k + 1, NEW j \in 1 .. k + 1, i < j
        PROVE  all[i] # all[j] /\ ~before(all[j], all[i])
    <3>1. i \in 1 .. k /\ all[i] = ts[i]
      BY <2>7
    <3>2. CASE j \in 1 .. k
      <4>1. all[j] = ts[j]
        BY <3>2
      <4> QED BY <2>4, <2>7, <3>1, <3>2, <4>1
    <3>3. CASE j = k + 1
      <4>1. all[j] = m
        BY <3>3
      <4> QED BY <2>2, <2>5, <3>1, <4>1
    <3> QED BY <3>2, <3>3
  <2> HIDE DEF all
  <2>8. Sorts(all, R, k + 1)
    BY <2>6, <2>7
  <2> HIDE DEF Sorts
  <2> QED BY <2>8
<1>3. Cardinality(S) \in Good
  <2>1. Cardinality(S) \in Nat
    BY FS_CardinalityType
  <2> HIDE DEF Good
  <2> QED BY <1>1, <1>2, <2>1, EveryNumber
<1> DEFINE n == Cardinality(S)
<1>4. n \in Nat
  BY FS_CardinalityType
<1>5. PICK ts : Sorts(ts, S, n)
  <2>1. HasOrder(S, n)
    <3> HIDE DEF HasOrder
    <3> QED BY <1>3
  <2> HIDE DEF Sorts
  <2> QED BY <2>1
<1> HIDE DEF n
<1>6. \A i, j \in 1 .. n : ts[i] = ts[j] => i = j
  <2> SUFFICES ASSUME NEW i \in 1 .. n, NEW j \in 1 .. n, i # j
               PROVE  ts[i] # ts[j]
    OBVIOUS
  <2>1. i < j \/ j < i
    OBVIOUS
  <2> QED BY <1>5, <2>1
<1>7. ts \in SetToSeqs(S)
  BY <1>5, <1>6 DEF SetToSeqs, n
<1> QED BY <1>5, <1>7

\* What is taken from the queue is a sequence of transactions.
LEMMA TopAreSubmitted ==
  ASSUME NEW q \in Queues, NEW avoid
  PROVE  topTransactions(q, avoid) \in Seq(Submissions)
<1> DEFINE S == q.current \ avoid
<1>1. S \in SUBSET Submissions /\ IsFiniteSet(S)
  <2>1. S \in SUBSET Submissions
    BY DEF Queues
  <2> QED BY <2>1, SubmissionsAssumption, FS_Subset
<1>2. Cardinality(S) \in Nat
  BY <1>1, FS_CardinalityType
<1>3. \E ts \in SetToSeqs(S) : \A i, j \in DOMAIN ts : i < j => ~before(ts[j], ts[i])
  <2> HIDE DEF S
  <2> QED BY <1>1, Sortable
<1>4. topTransactions(q, avoid) \in SetToSeqs(S)
  BY <1>3 DEF topTransactions
<1> HIDE DEF S
<1>5. topTransactions(q, avoid) \in [1 .. Cardinality(S) -> S]
  BY <1>4 DEF SetToSeqs
<1> QED BY <1>1, <1>2, <1>5

-----------------------------------------------------------------------------
(* Operations of Block.                                                    *)

\* What the blocks like b have in common.
LEMMA BlockFields ==
  ASSUME NEW b, NEW x \in BlocksOf(b)
  PROVE  /\ x.m_previousBlock = b.m_previousBlock /\ x.m_currentBlock = b.m_currentBlock
         /\ x.m_transactions \in Seq(Submissions)
         /\ x.m_state \in States /\ x.m_precommit \in States /\ x.m_committedToSeal \in BOOLEAN
         /\ x.m_currentTxs = b.m_currentTxs /\ x.sealed = b.sealed /\ x.m_author = b.m_author
         /\ BlocksOf(x) = BlocksOf(b)
<1>1. /\ x.m_previousBlock = b.m_previousBlock /\ x.m_currentBlock = b.m_currentBlock
      /\ x.m_currentTxs = b.m_currentTxs /\ x.sealed = b.sealed /\ x.m_author = b.m_author
  BY DEF BlocksOf
<1>2. /\ x.m_transactions \in Seq(Submissions)
      /\ x.m_state \in States /\ x.m_precommit \in States /\ x.m_committedToSeal \in BOOLEAN
  BY Zenon DEF BlocksOf
<1>3. BlocksOf(x) = BlocksOf(b)
  BY <1>1 DEF BlocksOf
<1> QED BY <1>1, <1>2, <1>3

\* Counting a nonce up.
LEMMA NonceFollows ==
  ASSUME NEW s \in States, NEW k \in Nat
  PROVE  /\ advanced(s, k) \in States /\ advanced(s, k).nonce = s.nonce + k
         /\ [advanced(s, k) EXCEPT !.nonce = @ + 1] = advanced(s, k + 1)
<1>1. \A n \in Nat : /\ advanced(s, n) \in States
                     /\ advanced(s, n).nonce = s.nonce + n /\ advanced(s, n).rewards = s.rewards
  BY DEF States, advanced
<1>2. PICK r \in States : r = advanced(s, k) /\ r.nonce = s.nonce + k /\ r.rewards = s.rewards
  BY <1>1
<1>3. PICK v \in States : v = advanced(s, k + 1) /\ v.nonce = s.nonce + (k + 1) /\ v.rewards = s.rewards
  BY <1>1
<1>4. PICK u : u = [r EXCEPT !.nonce = @ + 1]
  OBVIOUS
<1>5. u \in States /\ u.nonce = r.nonce + 1 /\ u.rewards = r.rewards
  BY <1>4 DEF States
<1>6. s.nonce \in Nat
  BY DEF States
<1>7. u.nonce = v.nonce /\ u.rewards = v.rewards
  BY <1>2, <1>3, <1>5, <1>6
<1>8. u = v
  BY <1>5, <1>7 DEF States
<1> QED BY <1>1, <1>2, <1>3, <1>4, <1>8

\* The state before the rewards is the one that the transactions made.
LEMMA UncommitKeeps ==
  ASSUME NEW b, Played(b)
  PROVE  /\ Played(uncommitToSeal(b)) /\ uncommitToSeal(b) \in BlocksOf(b)
         /\ uncommitToSeal(b).m_transactions = b.m_transactions
         /\ ~uncommitToSeal(b).m_committedToSeal
<1>1. b \in BlocksOf(b)
  BY DEF Played
<1>2. b.m_committedToSeal \in BOOLEAN /\ b.m_precommit \in States /\ b.m_state \in States
  BY <1>1, BlockFields
<1>3. CASE ~b.m_committedToSeal
  BY <1>1, <1>3 DEF uncommitToSeal
<1>4. CASE b.m_committedToSeal
  <2> DEFINE c == [b EXCEPT !.m_state = b.m_precommit, !.m_committedToSeal = FALSE]
  <2>1. uncommitToSeal(b) = c
    BY <1>4 DEF uncommitToSeal
  <2>2. c \in BlocksOf(b)
    BY <1>1, <1>2 DEF BlocksOf
  <2>3. c.m_transactions = b.m_transactions /\ c.m_state = b.m_precommit /\ c.m_committedToSeal = FALSE
    BY <1>1 DEF BlocksOf
  <2>4. c.m_previousBlock = b.m_previousBlock /\ BlocksOf(c) = BlocksOf(b)
    BY <2>2, BlockFields
  <2>5. uncommitToSeal(c) = c
    BY <2>3 DEF uncommitToSeal
  <2> HIDE DEF c
  <2>6. c.m_state.nonce = b.m_previousBlock.state.nonce + Len(b.m_transactions)
    <3>1. c.m_state = advanced(b.m_previousBlock.state, Len(b.m_transactions))
      BY <2>1 DEF Played
    <3>2. b.m_previousBlock.state \in States /\ b.m_transactions \in Seq(Submissions)
      BY <1>1, BlockFields DEF Played
    <3>3. Len(b.m_transactions) \in Nat
      BY <3>2
    <3> QED BY <3>1, <3>2, <3>3, NonceFollows
  <2>7. Played(c)
    BY <2>1, <2>2, <2>3, <2>4, <2>5, <2>6 DEF Played
  <2> QED BY <2>1, <2>2, <2>3, <2>7
<1> QED BY <1>2, <1>3, <1>4

\* A transaction that fits is appended, and its sender's nonce follows.
LEMMA ExecuteKeeps ==
  ASSUME NEW b, Played(b), NEW t \in Submissions, t.nonce = b.m_state.nonce
  PROVE  Played(execute(b, t)) /\ execute(b, t) \in BlocksOf(b)
<1> DEFINE open == uncommitToSeal(b)
           parent == b.m_previousBlock.state
           k == Len(b.m_transactions)
           txs == Append(open.m_transactions, t)
           state == [open.m_state EXCEPT !.nonce = @ + 1]
           done == [open EXCEPT !.m_state = state, !.m_transactions = txs]
<1>1. Played(open) /\ open \in BlocksOf(b) /\ open.m_transactions = b.m_transactions /\ ~open.m_committedToSeal
  BY UncommitKeeps
<1>2. execute(b, t) = done
  BY DEF execute
<1>3. parent \in States /\ k \in Nat /\ b.m_transactions \in Seq(Submissions)
  <2>1. b \in BlocksOf(b) /\ parent \in States
    BY DEF Played
  <2> QED BY <2>1, BlockFields
<1>4. txs \in Seq(Submissions) /\ Len(txs) = k + 1 /\ DOMAIN txs = 1 .. k + 1
  BY <1>1, <1>3
<1>5. \A i \in 1 .. k : txs[i] = b.m_transactions[i]
  BY <1>1, <1>3
<1>6. txs[k + 1] = t
  BY <1>1, <1>3
<1>7. open.m_state = advanced(parent, k)
  BY DEF Played
<1>8. state = advanced(parent, k + 1) /\ state \in States /\ state.nonce = parent.nonce + (k + 1)
  <2>1. state = [advanced(parent, k) EXCEPT !.nonce = @ + 1]
    BY <1>7
  <2> HIDE DEF state, parent, k
  <2>2. k + 1 \in Nat
    BY <1>3
  <2>3. state = advanced(parent, k + 1)
    BY <1>3, <2>1, NonceFollows
  <2> QED BY <1>3, <2>2, <2>3, NonceFollows
<1> HIDE DEF state, txs, k, open
<1>9. done \in BlocksOf(b) /\ done.m_state = state /\ done.m_transactions = txs /\ ~done.m_committedToSeal
  <2>1. open \in BlocksOf(b)
    BY <1>1
  <2>2. done \in BlocksOf(b)
    BY <2>1, <1>4, <1>8 DEF BlocksOf
  <2>3. done.m_state = state /\ done.m_transactions = txs
    BY <2>1 DEF BlocksOf
  <2>4. done.m_committedToSeal = open.m_committedToSeal
    BY <2>1 DEF BlocksOf
  <2> QED BY <1>1, <2>2, <2>3, <2>4
<1> HIDE DEF done
<1>10. done.m_previousBlock = b.m_previousBlock /\ BlocksOf(done) = BlocksOf(b)
  BY <1>9, BlockFields
<1>11. uncommitToSeal(done) = done
  BY <1>9 DEF uncommitToSeal
<1>12. t.nonce = parent.nonce + k
  BY DEF Played, k
<1>13. \A i \in 1 .. k : b.m_transactions[i].nonce = parent.nonce + i - 1
  <2>1. DOMAIN b.m_transactions = 1 .. k
    BY <1>3 DEF k
  <2> QED BY <2>1 DEF Played
<1>14. \A i \in 1 .. k + 1 : txs[i].nonce = parent.nonce + i - 1
  <2> SUFFICES ASSUME NEW i \in 1 .. k + 1
               PROVE  txs[i].nonce = parent.nonce + i - 1
    OBVIOUS
  <2>1. CASE i \in 1 .. k
    BY <2>1, <1>5, <1>13
  <2>2. CASE i = k + 1
    <3>1. parent.nonce \in Nat
      BY <1>3 DEF States
    <3> QED BY <2>2, <1>3, <1>6, <1>12, <3>1
  <2> QED BY <1>3, <2>1, <2>2
<1>15. Played(done)
  BY <1>3, <1>4, <1>8, <1>9, <1>10, <1>11, <1>14 DEF Played
<1> QED BY <1>2, <1>9, <1>15

\* A transaction that is tried is executed, or leaves the block as it was
\* before the rewards; the queue may drop or postpone it.
LEMMA TryKeeps ==
  ASSUME NEW b, NEW s \in [b : BlocksOf(b), q : Queues], Played(s.b), NEW t \in Submissions
  PROVE  tryTransaction(s, t) \in [b : BlocksOf(b), q : Queues] /\ Played(tryTransaction(s, t).b)
<1> DEFINE open == uncommitToSeal(s.b)
           done == execute(s.b, t)
           r == tryTransaction(s, t)
<1>1. s.b \in BlocksOf(b) /\ s.q \in Queues
  OBVIOUS
<1>2. BlocksOf(s.b) = BlocksOf(b)
  BY <1>1, BlockFields
<1>3. Played(open) /\ open \in BlocksOf(b)
  BY <1>2, UncommitKeeps
<1>4. executable(s.b, t) => Played(done) /\ done \in BlocksOf(b)
  BY <1>2, ExecuteKeeps DEF executable
<1>5. refuse(s.q, open, t) \in Queues /\ tqDrop(s.q, t) \in Queues
  <2>1. refuse(s.q, open, t) \in {tqDrop(s.q, t), tqSetFuture(s.q, t), s.q}
    BY DEF refuse
  <2> QED BY <1>1, <2>1, QueueKeeps
<1>6. t.price \in Nat /\ ask \in Nat
  BY SubmissionsAssumption, BlockConstants
<1>7. \/ r = s
      \/ executable(s.b, t) /\ r = [b |-> done, q |-> s.q]
      \/ \E x \in {refuse(s.q, open, t), tqDrop(s.q, t), s.q} : r = [b |-> open, q |-> x] \/ r = [b |-> s.b, q |-> x]
  <2> DEFINE x == IF Len(s.b.m_transactions) < gasLimit THEN refuse(s.q, open, t)
                  ELSE IF gasLimit = 0 THEN tqDrop(s.q, t) ELSE s.q
             y == IF 10 * t.price < 9 * ask THEN tqDrop(s.q, t) ELSE s.q
  <2>1. x \in {refuse(s.q, open, t), tqDrop(s.q, t), s.q} /\ y \in {refuse(s.q, open, t), tqDrop(s.q, t), s.q}
    OBVIOUS
  <2>2. /\ t \in ToSet(s.b.m_transactions) /\ t.price >= ask => r = s
        /\ t \in ToSet(s.b.m_transactions) /\ t.price < ask => r = s \/ r = [b |-> s.b, q |-> y]
        /\ t \notin ToSet(s.b.m_transactions) /\ t.price >= ask /\ executable(s.b, t) => r = [b |-> done, q |-> s.q]
        /\ t \notin ToSet(s.b.m_transactions) /\ t.price >= ask /\ ~executable(s.b, t) => r = [b |-> open, q |-> x]
        /\ t \notin ToSet(s.b.m_transactions) /\ t.price < ask => r = [b |-> s.b, q |-> y]
    BY <1>6 DEF tryTransaction
  <2>3. t.price >= ask \/ t.price < ask
    BY <1>6
  <2> HIDE DEF x, y, r, open, done
  <2> QED BY <2>1, <2>2, <2>3
<1> HIDE DEF r, open, done
<1>8. CASE r = s
  BY <1>8 DEF r
<1>9. CASE executable(s.b, t) /\ r = [b |-> done, q |-> s.q]
  <2>1. r \in [b : BlocksOf(b), q : Queues] /\ r.b = done
    BY <1>1, <1>4, <1>9
  <2> QED BY <1>4, <1>9, <2>1 DEF r
<1>10. ASSUME NEW x \in {refuse(s.q, open, t), tqDrop(s.q, t), s.q},
              r = [b |-> open, q |-> x] \/ r = [b |-> s.b, q |-> x]
       PROVE  tryTransaction(s, t) \in [b : BlocksOf(b), q : Queues] /\ Played(tryTransaction(s, t).b)
  <2>1. x \in Queues
    BY <1>1, <1>5
  <2>2. r \in [b : BlocksOf(b), q : Queues] /\ r.b \in {open, s.b}
    BY <1>1, <1>3, <1>10, <2>1
  <2> QED BY <1>3, <2>2 DEF r
<1> QED BY <1>7, <1>8, <1>9, <1>10

\* sync with the queue: the block goes on, the queue holds what was submitted.
LEMMA SyncKeeps ==
  ASSUME NEW b, Played(b), NEW q \in Queues
  PROVE  /\ Played(syncTransactions(b, q).b) /\ syncTransactions(b, q).b \in BlocksOf(b)
         /\ syncTransactions(b, q).q \in Queues
<1> DEFINE Pairs == [b : BlocksOf(b), q : Queues]
           V == {s \in Pairs : Played(s.b)}
           txs == topTransactions(q, ToSet(b.m_transactions))
           n == Len(txs)
           first == [b |-> b, q |-> q]
           step(r, t) == tryTransaction(r, t)
           E(it) == [s \in SUBSET (1 .. n) |-> IF s = {} THEN first ELSE step(it[s \ {Max(s)}], txs[Max(s)])]
           G == [p \in V \X Submissions |-> step(p[1], p[2])]
           final == FoldLeft(tryTransaction, first, txs)
<1>1. n \in Nat /\ DOMAIN txs = 1 .. n /\ txs \in [1 .. n -> Submissions]
  <2>1. txs \in Seq(Submissions)
    BY TopAreSubmitted
  <2> HIDE DEF txs
  <2> QED BY <2>1
<1>2. first \in V
  BY DEF Played
<1>3. final = (CHOOSE it : it = E(it))[1 .. n]
  <2> HIDE DEF txs, first
  <2> QED BY <1>1 DEF FoldLeft, MapThenFoldSet
<1>4. ASSUME NEW r \in V, NEW t \in Submissions
      PROVE  step(r, t) \in V
  <2>1. r \in [b : BlocksOf(b), q : Queues] /\ Played(r.b)
    OBVIOUS
  <2>2. step(r, t) \in [b : BlocksOf(b), q : Queues] /\ Played(step(r, t).b)
    BY <2>1, TryKeeps
  <2> QED BY <2>2
<1> HIDE DEF step, V, first, txs, n, final
<1>5. G \in [V \X Submissions -> V] /\ \A r \in V, t \in Submissions : G[<<r, t>>] = step(r, t)
  BY <1>4
<1> HIDE DEF G
<1>6. \A s \in SUBSET (1 .. n) : s # {} => txs[Max(s)] \in Submissions /\ s \ {Max(s)} \in SUBSET (1 .. n)
  <2> SUFFICES ASSUME NEW s \in SUBSET (1 .. n), s # {}
               PROVE  txs[Max(s)] \in Submissions /\ s \ {Max(s)} \in SUBSET (1 .. n)
    OBVIOUS
  <2>1. Max(s) \in s /\ s \ {Max(s)} \in SUBSET (1 .. n)
    BY <1>1, LastIsOne
  <2> QED BY <1>1, <2>1
<1>7. \E f : f = E(f)
  <2>1. PICK f \in [SUBSET (1 .. n) -> V] :
            /\ f[{}] = first
            /\ \A s \in SUBSET (1 .. n) : s # {} => f[s] = G[<<f[s \ {Max(s)}], txs[Max(s)]>>]
    <3>1. HasFold(n, V, first, txs, G)
      BY <1>1, <1>2, <1>5, FoldExists
    <3> QED BY <3>1 DEF HasFold
  <2>2. \A s \in SUBSET (1 .. n) : f[s] = IF s = {} THEN first ELSE step(f[s \ {Max(s)}], txs[Max(s)])
    BY <2>1, <1>5, <1>6
  <2>3. f = E(f)
    BY <2>1, <2>2
  <2> QED BY <2>3
<1>8. PICK g : g = E(g) /\ final = g[1 .. n]
  <2> HIDE DEF E
  <2> QED BY <1>3, <1>7
<1>9. g[{}] = first /\ \A s \in SUBSET (1 .. n) : s # {} => g[s] = step(g[s \ {Max(s)}], txs[Max(s)])
  BY <1>8
<1>10. g[{}] \in V /\ \A s \in SUBSET (1 .. n) : s # {} /\ g[s \ {Max(s)}] \in V => g[s] \in V
  BY <1>2, <1>4, <1>6, <1>9
<1>11. g[1 .. n] \in V
  BY <1>1, <1>10, FoldInduction, Zenon
<1>12. final \in V
  BY <1>8, <1>11
<1>13. syncTransactions(b, q).b = final.b /\ syncTransactions(b, q).q = final.q
  BY DEF syncTransactions, final, first, txs
<1>14. final.b \in BlocksOf(b) /\ final.q \in Queues /\ Played(final.b)
  BY <1>12 DEF V
<1> QED BY <1>13, <1>14

\* resetCurrent starts from the parent's state.
LEMMA ResetKeeps ==
  ASSUME NEW b, b \in BlocksOf(b), b.m_previousBlock.state \in States
  PROVE  /\ Played(resetCurrent(b)) /\ ~isSealed(resetCurrent(b))
         /\ resetCurrent(b).m_previousBlock = b.m_previousBlock /\ resetCurrent(b).m_transactions = << >>
         /\ resetCurrent(b).m_state = b.m_previousBlock.state
<1> DEFINE parent == b.m_previousBlock.state
           next == [NoHeader EXCEPT !.number = b.m_previousBlock.number + 1]
           c == [b EXCEPT !.m_transactions = << >>, !.m_currentBlock = next, !.sealed = FALSE,
                          !.m_state = parent, !.m_precommit = parent, !.m_committedToSeal = FALSE]
           R == [m_previousBlock : {b.m_previousBlock}, m_transactions : Seq(Submissions),
                 m_state : States, m_precommit : States, m_committedToSeal : BOOLEAN,
                 m_currentBlock : {next}, m_currentTxs : {b.m_currentTxs}, sealed : {FALSE}, m_author : {b.m_author}]
<1>1. resetCurrent(b) = c
  BY DEF resetCurrent
<1>2. << >> \in Seq(Submissions)
  OBVIOUS
<1>3. PICK h : h = next
  OBVIOUS
<1> HIDE DEF next
<1>4. c \in R
  BY <1>2 DEF BlocksOf
<1>5. /\ c.m_transactions = << >> /\ c.m_state = parent /\ c.m_precommit = parent /\ c.m_committedToSeal = FALSE
      /\ c.sealed = FALSE /\ c.m_previousBlock = b.m_previousBlock /\ c.m_currentBlock = next
      /\ c.m_currentTxs = b.m_currentTxs /\ c.m_author = b.m_author
  BY DEF BlocksOf
<1> HIDE DEF c
<1>6. c \in BlocksOf(c)
  BY <1>4, <1>5 DEF BlocksOf
<1>7. uncommitToSeal(c) = c
  BY <1>5 DEF uncommitToSeal
<1>8. Len(c.m_transactions) = 0 /\ DOMAIN c.m_transactions = {}
  BY <1>5
<1>9. parent = advanced(parent, 0) /\ parent.nonce = parent.nonce + 0
  BY DEF States, advanced
<1>10. Played(c)
  BY <1>5, <1>6, <1>7, <1>8, <1>9 DEF Played
<1> QED BY <1>1, <1>5, <1>10 DEF isSealed

\* A new Block on a head.
LEMMA FreshIsPlayed ==
  ASSUME NEW h, h.state \in States, NEW a
  PROVE  LET fresh == syncChain(NewBlock(a), h).block
         IN  /\ Played(fresh) /\ ~isSealed(fresh)
             /\ fresh.m_previousBlock = h /\ fresh.m_transactions = << >> /\ fresh.m_state = h.state
<1> DEFINE b == [NewBlock(a) EXCEPT !.m_previousBlock = h]
<1>1. Genesis.state \in States
  BY DEF Genesis, States
<1>2. << >> \in Seq(Submissions)
  OBVIOUS
<1>3. /\ b.m_previousBlock = h /\ b.m_transactions = << >> /\ b.m_state = Genesis.state /\ b.m_precommit = Genesis.state
      /\ b.m_committedToSeal = FALSE
  BY DEF NewBlock
<1>4. b \in BlocksOf(b)
  BY <1>1, <1>2 DEF NewBlock, BlocksOf
<1>5. syncChain(NewBlock(a), h).block = resetCurrent(b)
  <2>1. NewBlock(a).m_currentBlock = NoHeader /\ NewBlock(a).m_previousBlock = NoHeader
    BY DEF NewBlock
  <2>2. ~(h # NewBlock(a).m_currentBlock /\ h = NewBlock(a).m_previousBlock)
    BY <2>1
  <2>3. syncChain(NewBlock(a), h) = [block |-> resetCurrent(b), changed |-> TRUE]
    BY <2>2 DEF syncChain
  <2> QED BY <2>3
<1> HIDE DEF b
<1> QED BY <1>3, <1>4, <1>5, ResetKeeps

\* commitToSeal keeps the state it started from, whether or not there was a
\* commitment before, and puts the one with rewards into the header.
LEMMA CommitKeeps ==
  ASSUME NEW b, Played(b)
  PROVE  LET c == commitToSeal(b)
         IN  /\ Played(c) /\ c.m_committedToSeal /\ c.m_state = applyRewards(c.m_precommit)
             /\ c.m_currentBlock = header(c) /\ GoodHeader(header(c))
             /\ c.m_previousBlock = b.m_previousBlock /\ c.m_transactions = b.m_transactions /\ c.sealed = b.sealed
<1> DEFINE u == uncommitted(b)
           s == applyRewards(u.m_state)
           r == [u EXCEPT !.m_state = s]
           h == header(r)
           c == [r EXCEPT !.m_currentTxs = b.m_transactions, !.m_currentBlock = h, !.m_committedToSeal = TRUE]
           parent == b.m_previousBlock.state
           k == Len(b.m_transactions)
<1>1. commitToSeal(b) = c
  BY DEF commitToSeal
<1>2. b \in BlocksOf(b) /\ parent \in States /\ b.m_transactions \in Seq(Submissions)
  BY BlockFields DEF Played
<1>3. u \in BlocksOf(b) /\ u.m_state = uncommitToSeal(b).m_state /\ u.m_precommit = u.m_state /\ u.m_transactions = b.m_transactions
  <2>1. CASE b.m_committedToSeal
    <3>1. uncommitToSeal(b) = [b EXCEPT !.m_state = b.m_precommit, !.m_committedToSeal = FALSE] /\ u = uncommitToSeal(b)
      BY <2>1 DEF uncommitted, uncommitToSeal
    <3>2. u.m_state = b.m_precommit /\ u.m_precommit = b.m_precommit /\ u.m_transactions = b.m_transactions
      BY <3>1, <1>2 DEF BlocksOf
    <3> QED BY <3>1, <3>2, UncommitKeeps
  <2>2. CASE ~b.m_committedToSeal
    <3>1. uncommitToSeal(b) = b /\ u = [b EXCEPT !.m_precommit = b.m_state]
      BY <2>2 DEF uncommitted, uncommitToSeal
    <3>2. b.m_state \in States
      BY <1>2, BlockFields
    <3>3. u \in BlocksOf(b)
      BY <3>1, <3>2, <1>2 DEF BlocksOf
    <3>4. u.m_state = b.m_state /\ u.m_precommit = b.m_state /\ u.m_transactions = b.m_transactions
      BY <3>1, <1>2 DEF BlocksOf
    <3> QED BY <3>1, <3>3, <3>4
  <2> QED BY <2>1, <2>2
<1>4. u.m_state = advanced(parent, k)
  BY <1>3 DEF Played
<1>5. u.m_state \in States /\ u.m_state.nonce = parent.nonce + k
  <2>1. k \in Nat
    BY <1>2
  <2> QED BY <1>2, <1>4, <2>1, NonceFollows
<1>6. s \in States /\ s.nonce = u.m_state.nonce
  <2>1. \A x \in States : applyRewards(x) \in States /\ applyRewards(x).nonce = x.nonce
    BY DEF applyRewards, States, blockReward
  <2> QED BY <1>5, <2>1
<1>7. s = applyRewards(u.m_precommit)
  BY <1>3
<1> HIDE DEF u, s
<1>8. /\ r \in BlocksOf(b) /\ r.m_state = s /\ r.m_transactions = b.m_transactions /\ r.m_precommit = u.m_precommit
  <2>1. r \in BlocksOf(b)
    BY <1>3, <1>6 DEF BlocksOf
  <2>2. r.m_state = s /\ r.m_transactions = u.m_transactions /\ r.m_precommit = u.m_precommit
    BY <1>3 DEF BlocksOf
  <2> QED BY <1>3, <2>1, <2>2
<1>9. r.m_previousBlock = b.m_previousBlock /\ r.sealed = b.sealed /\ r.m_author = b.m_author
  BY <1>8, BlockFields
<1> HIDE DEF r
<1>10. h = [number |-> b.m_previousBlock.number + 1, parent |-> b.m_previousBlock, txs |-> b.m_transactions,
            author |-> b.m_author, state |-> s]
  BY <1>8, <1>9 DEF header
<1>11. GoodHeader(h)
  BY <1>2, <1>6, <1>10 DEF GoodHeader
<1> HIDE DEF h
<1>12. /\ c.m_currentBlock = h /\ c.m_currentTxs = b.m_transactions /\ c.m_committedToSeal = TRUE
       /\ c.m_previousBlock = b.m_previousBlock /\ c.m_transactions = b.m_transactions /\ c.sealed = b.sealed
       /\ c.m_author = b.m_author /\ c.m_state = s /\ c.m_precommit = u.m_precommit
  <2>1. /\ c.m_currentBlock = h /\ c.m_currentTxs = b.m_transactions /\ c.m_committedToSeal = TRUE
        /\ c.m_previousBlock = r.m_previousBlock /\ c.m_transactions = r.m_transactions /\ c.sealed = r.sealed
        /\ c.m_author = r.m_author /\ c.m_state = r.m_state /\ c.m_precommit = r.m_precommit
    BY <1>8 DEF BlocksOf
  <2> QED BY <1>8, <1>9, <2>1
<1>13. c \in [m_previousBlock : {b.m_previousBlock}, m_transactions : Seq(Submissions),
              m_state : States, m_precommit : States, m_committedToSeal : BOOLEAN,
              m_currentBlock : {h}, m_currentTxs : {b.m_transactions}, sealed : {b.sealed}, m_author : {b.m_author}]
  BY <1>8 DEF BlocksOf
<1> HIDE DEF c
<1>14. c \in BlocksOf(c)
  BY <1>12, <1>13 DEF BlocksOf
<1>15. header(c) = h
  BY <1>10, <1>12 DEF header
<1>16. uncommitToSeal(c).m_state = u.m_state
  <2>1. uncommitToSeal(c) = [c EXCEPT !.m_state = c.m_precommit, !.m_committedToSeal = FALSE]
    BY <1>12 DEF uncommitToSeal
  <2>2. uncommitToSeal(c).m_state = c.m_precommit
    BY <2>1, <1>14 DEF BlocksOf
  <2> QED BY <1>3, <1>12, <2>2
<1>17. Played(c)
  <2>1. \A i \in DOMAIN b.m_transactions : b.m_transactions[i].nonce = parent.nonce + i - 1
    BY DEF Played
  <2> QED BY <1>2, <1>4, <1>5, <1>6, <1>12, <1>14, <1>16, <2>1 DEF Played
<1> QED BY <1>1, <1>7, <1>11, <1>12, <1>15, <1>17

\* A copy takes the source's state for its state before rewards.
LEMMA CopyKeeps ==
  ASSUME NEW b, Played(b)
  PROVE  /\ CopyBlock(b).m_transactions = b.m_transactions /\ b.m_transactions \in Seq(Submissions)
         /\ b.m_transactions = << >> /\ b.m_state = b.m_previousBlock.state =>
                Played(CopyBlock(b)) /\ CopyBlock(b).sealed = b.sealed
<1> DEFINE c == [b EXCEPT !.m_precommit = b.m_state, !.m_committedToSeal = FALSE]
<1>1. b \in BlocksOf(b) /\ b.m_previousBlock.state \in States /\ b.m_state \in States /\ b.m_transactions \in Seq(Submissions)
  BY BlockFields DEF Played
<1>2. CopyBlock(b) = c
  BY DEF CopyBlock
<1>3. c \in BlocksOf(b)
  BY <1>1 DEF BlocksOf
<1>4. c.m_transactions = b.m_transactions /\ c.m_state = b.m_state /\ c.m_committedToSeal = FALSE
  BY <1>1 DEF BlocksOf
<1> HIDE DEF c
<1>5. c.m_previousBlock = b.m_previousBlock /\ c.sealed = b.sealed /\ BlocksOf(c) = BlocksOf(b)
  BY <1>3, BlockFields
<1>6. uncommitToSeal(c) = c
  BY <1>4 DEF uncommitToSeal
<1>7. b.m_transactions = << >> /\ b.m_state = b.m_previousBlock.state => Played(c)
  <2> SUFFICES ASSUME b.m_transactions = << >>, b.m_state = b.m_previousBlock.state
               PROVE  Played(c)
    OBVIOUS
  <2> DEFINE parent == b.m_previousBlock.state
  <2>1. parent = advanced(parent, 0) /\ parent.nonce = parent.nonce + 0
    BY <1>1 DEF States, advanced
  <2>2. Len(c.m_transactions) = 0 /\ DOMAIN c.m_transactions = {}
    BY <1>4
  <2> QED BY <1>1, <1>3, <1>4, <1>5, <1>6, <2>1, <2>2 DEF Played
<1> QED BY <1>1, <1>2, <1>4, <1>5, <1>7

\* What the client goes on from after a new head.
LEMMA AfterHeadIsPlayed ==
  ASSUME NEW h, h.state \in States
  PROVE  /\ Played(afterHead(h)) /\ ~isSealed(afterHead(h)) /\ afterHead(h).m_transactions \in Seq(Submissions)
<1> DEFINE fresh == syncChain(NewBlock("us"), h).block
           copy == CopyBlock(fresh)
<1>1. Played(fresh) /\ ~isSealed(fresh) /\ fresh.m_previousBlock = h /\ fresh.m_transactions = << >> /\ fresh.m_state = h.state
  BY FreshIsPlayed
<1> HIDE DEF fresh
<1>2. Played(copy) /\ copy.sealed = fresh.sealed /\ copy.m_transactions = << >>
  BY <1>1, CopyKeeps
<1>3. ~isSealed(copy)
  BY <1>1, <1>2 DEF isSealed
<1>4. afterHead(h) = copy
  BY <1>3 DEF afterHead, fresh
<1>5. << >> \in Seq(Submissions)
  OBVIOUS
<1> HIDE DEF copy
<1> QED BY <1>2, <1>3, <1>4, <1>5

\* Executing nothing changes nothing.
LEMMA NothingExecuted ==
  ASSUME NEW b
  PROVE  /\ b.m_transactions = << >> => exec(b) = b
         /\ FoldLeft(LAMBDA c, t : execute(c, t), b, << >>) = b
         /\ FoldLeft(execute, b, << >>) = b
<1> DEFINE One == [s \in SUBSET {} |-> b]
<1>1. \A s \in SUBSET {} : s = {}
  OBVIOUS
<1>2. DOMAIN << >> = {}
  OBVIOUS
<1>3. ASSUME b.m_transactions = << >>
      PROVE  exec(b) = b
  <2> DEFINE step(c, t) == [execute(c, t) EXCEPT !.m_transactions = b.m_transactions]
             E(it) == [s \in SUBSET {} |-> IF s = {} THEN b ELSE step(it[s \ {Max(s)}], b.m_transactions[Max(s)])]
  <2>1. exec(b) = (CHOOSE it : it = E(it))[{}]
    BY <1>2, <1>3 DEF exec, FoldLeft, MapThenFoldSet
  <2> HIDE DEF step
  <2>2. \A it : E(it) = One
    BY <1>1
  <2>3. (CHOOSE it : it = E(it)) = One
    <3> HIDE DEF E, One
    <3> QED BY <2>2
  <2> QED BY <2>1, <2>3
<1>4. FoldLeft(LAMBDA c, t : execute(c, t), b, << >>) = b /\ FoldLeft(execute, b, << >>) = b
  <2> DEFINE step(c, t) == execute(c, t)
             nothing == << >>
             E(it) == [s \in SUBSET {} |-> IF s = {} THEN b ELSE step(it[s \ {Max(s)}], nothing[Max(s)])]
  <2>1. FoldLeft(LAMBDA c, t : execute(c, t), b, << >>) = (CHOOSE it : it = E(it))[{}]
    BY <1>2 DEF FoldLeft, MapThenFoldSet
  <2>2. FoldLeft(execute, b, << >>) = (CHOOSE it : it = E(it))[{}]
    BY <1>2 DEF FoldLeft, MapThenFoldSet
  <2> HIDE DEF step, nothing
  <2>3. \A it : E(it) = One
    BY <1>1
  <2>4. (CHOOSE it : it = E(it)) = One
    <3> HIDE DEF E, One
    <3> QED BY <2>3
  <2> QED BY <2>1, <2>2, <2>4
<1> QED BY <1>3, <1>4

\* Executing one transaction.
LEMMA OneExecuted ==
  ASSUME NEW b, NEW t
  PROVE  FoldLeft(execute, b, <<t>>) = execute(b, t)
<1> DEFINE step(c, u) == execute(c, u)
           txs == <<t>>
           E(it) == [s \in SUBSET (1 .. 1) |-> IF s = {} THEN b ELSE step(it[s \ {Max(s)}], txs[Max(s)])]
           Two == [s \in SUBSET (1 .. 1) |-> IF s = {} THEN b ELSE step(b, t)]
<1>1. DOMAIN txs = 1 .. 1 /\ txs[1] = t
  <2>1. DOMAIN <<t>> = 1 .. 1
    OBVIOUS
  <2>2. <<t>>[1] = t
    OBVIOUS
  <2> QED BY <2>1, <2>2
<1>2. FoldLeft(execute, b, txs) = (CHOOSE it : it = E(it))[1 .. 1]
  BY <1>1 DEF FoldLeft, MapThenFoldSet
<1> HIDE DEF step, txs
<1>3. \A s \in SUBSET (1 .. 1) : s = {} \/ s = {1}
  <2>1. 1 .. 1 = {1}
    OBVIOUS
  <2> QED BY <2>1, Zenon
<1>4. Max({1}) = 1 /\ {1} \ {1} = {} /\ 1 .. 1 = {1} /\ {1} # {}
  BY DEF Max
<1>5. Two = E(Two)
  <2>1. Two[{}] = b
    OBVIOUS
  <2>2. \A s \in SUBSET (1 .. 1) : s # {} => Two[s] = step(Two[s \ {Max(s)}], txs[Max(s)])
    <3> SUFFICES ASSUME NEW s \in SUBSET (1 .. 1), s # {}
                 PROVE  Two[s] = step(Two[s \ {Max(s)}], txs[Max(s)])
      OBVIOUS
    <3>1. s = {1} /\ Max(s) = 1 /\ s \ {Max(s)} = {}
      BY <1>3, <1>4
    <3>2. Two[s] = step(b, t)
      OBVIOUS
    <3> QED BY <1>1, <2>1, <3>1, <3>2
  <2>3. \A s \in SUBSET (1 .. 1) : Two[s] = IF s = {} THEN b ELSE step(Two[s \ {Max(s)}], txs[Max(s)])
    BY <2>1, <2>2
  <2> QED BY <2>3
<1>6. PICK g : g = E(g) /\ FoldLeft(execute, b, txs) = g[1 .. 1]
  <2> HIDE DEF E, Two
  <2> QED BY <1>2, <1>5
<1>7. g[{}] = b /\ g[1 .. 1] = step(g[(1 .. 1) \ {Max(1 .. 1)}], txs[Max(1 .. 1)])
  BY <1>4, <1>6
<1>8. g[1 .. 1] = step(b, t)
  BY <1>1, <1>4, <1>7
<1> QED BY <1>6, <1>8 DEF step, txs

\* A block without transactions that promises the rewards on its parent's
\* state can be played back.
LEMMA EmptyIsEnacted ==
  ASSUME NEW h, h.txs = << >>, h.state = applyRewards(h.parent.state)
  PROVE  enactOn(h)
<1> DEFINE b == resetCurrent([NewBlock(h.author) EXCEPT !.m_previousBlock = h.parent])
<1>1. b.m_state = h.parent.state
  BY DEF resetCurrent, NewBlock
<1>2. enacted(h) = b
  <2> HIDE DEF b
  <2>1. FoldLeft(LAMBDA c, t : execute(c, t), b, << >>) = b
    BY NothingExecuted
  <2> QED BY <2>1 DEF enacted, b
<1>3. agrees(h)
  BY <1>1, <1>2 DEF agrees
<1>4. Len(h.txs) <= gasLimit /\ DOMAIN h.txs = {}
  BY BlockConstants
<1> QED BY <1>3, <1>4 DEF enactOn

\* What was resubmitted after a block was submitted before.
LEMMA ResubmittedKeep ==
  ASSUME PBFTTypes, NEW h, GoodHeader(h)
  PROVE  resubmitted(h) \in Queues
<1> DEFINE q == FoldLeft(tqDropGood, tq, h.txs)
           r == FoldLeft(LAMBDA p, t : tqImport(p, t, TRUE), q, m_postSeal.m_transactions)
<1>1. q \in Queues
  BY DropsKeep DEF PBFTTypes, GoodHeader
<1>2. r \in Queues
  <2> HIDE DEF q
  <2> QED BY <1>1, ImportsKeep DEF PBFTTypes
<1>3. resubmitted(h) \in {q, r}
  <2> DEFINE sealedBefore == isSealed(m_postSeal) /\ m_postSeal.m_currentBlock = h
  <2>1. resubmitted(h) = IF sealedBefore THEN q ELSE r
    BY DEF resubmitted
  <2> HIDE DEF q, r, sealedBefore
  <2> QED BY <2>1
<1> HIDE DEF q, r
<1> QED BY <1>1, <1>2, <1>3

-----------------------------------------------------------------------------
(* The client's thread and the others.                                     *)

\* A client that has just been started.
LEMMA PBFTInitial == PBFTInit => PBFTInv
<1> SUFFICES ASSUME PBFTInit
             PROVE  PBFTInv
  OBVIOUS
<1>1. Genesis.state \in States /\ Genesis.txs = << >> /\ << >> \in Seq(Submissions)
  BY DEF Genesis, States
<1>2. GoodHeader(chain)
  BY <1>1 DEF PBFTInit, GoodHeader
<1>3. Played(m_working) /\ m_postSeal.m_transactions = << >>
  <2>1. Played(afresh) /\ afresh.m_transactions = << >>
    BY <1>1, FreshIsPlayed DEF afresh
  <2> QED BY <2>1 DEF PBFTInit
<1>4. tq \in Queues
  BY DEF PBFTInit, Queues
<1>5. /\ sealing \in [stage : {"blocks", "rejig", "prepared", "generated", "executed"}, header : {sealing.header},
                      tx_num : Nat, view : {sealing.view}, generated : BOOLEAN]
      /\ sealing.stage = "blocks"
  BY DEF PBFTInit, NotSealing
<1>6. PBFTTypes
  BY <1>1, <1>2, <1>3, <1>4, <1>5 DEF PBFTTypes, PBFTInit
<1> QED BY <1>3, <1>5, <1>6 DEF PBFTInv, PBFTInit, BroadcastAsCommitted, At

\* The client's thread between two blocks: it imports, or leaves things alone.
LEMMA BetweenBlocks ==
  ASSUME PBFTInv, SyncBlockQueue \/ NotNow \/ SealedAlready
  PROVE  /\ PBFTTypes' /\ Played(m_working)' /\ sealing'.stage \in {"blocks", "rejig"}
         /\ UNCHANGED <<prepared, committed>>
<1> DEFINE SealingOk == sealing' \in [stage : {"blocks", "rejig", "prepared", "generated", "executed"}, header : {sealing'.header},
                                      tx_num : Nat, view : {sealing'.view}, generated : BOOLEAN]
<1>1. Leave \/ GoTo("rejig")
  BY DEF SyncBlockQueue, NotNow, SealedAlready
<1>2. SealingOk /\ sealing'.stage \in {"blocks", "rejig"}
  <2>1. CASE Leave
    BY <2>1 DEF Leave, NotSealing
  <2>2. CASE GoTo("rejig")
    BY <2>2 DEF GoTo, PBFTInv, PBFTTypes
  <2> QED BY <1>1, <2>1, <2>2
<1>3. CASE NotNow \/ SealedAlready
  BY <1>2, <1>3 DEF NotNow, SealedAlready, PBFTInv, PBFTTypes, outside, history, GoodHeader, Played, BlocksOf, uncommitToSeal
<1>4. CASE SyncBlockQueue
  <2> DEFINE h == Head(bq)
  <2>1. UNCHANGED <<prepared, committed>>
    BY <1>4 DEF SyncBlockQueue, history
  <2>2. CASE UNCHANGED <<chain, tq, m_working, m_postSeal>> /\ bq' \in {<< >>, bq}
    <3>1. bq' # << >> => bq' = <<Head(bq')>> /\ GoodHeader(Head(bq'))
      BY <2>2 DEF PBFTInv, PBFTTypes
    <3>2. PBFTTypes'
      BY <1>2, <2>2, <3>1 DEF PBFTInv, PBFTTypes, GoodHeader
    <3>3. Played(m_working)'
      BY <2>2 DEF PBFTInv
    <3> QED BY <1>2, <2>1, <3>2, <3>3
  <2>3. CASE /\ bq # << >> /\ bq' = Tail(bq)
             /\ chain' = h /\ m_working' = afterHead(h) /\ m_postSeal' = afterHead(h) /\ tq' = resubmitted(h)
    <3>1. GoodHeader(h) /\ bq = <<h>>
      BY <2>3 DEF PBFTInv, PBFTTypes
    <3>2. bq' = << >>
      <4>1. \A t : Tail(<<t>>) = << >>
        OBVIOUS
      <4> HIDE DEF h
      <4> QED BY <2>3, <3>1, <4>1
    <3>3. tq' \in Queues
      BY <2>3, <3>1, ResubmittedKeep DEF PBFTInv
    <3>4. Played(afterHead(h)) /\ afterHead(h).m_transactions \in Seq(Submissions)
      BY <3>1, AfterHeadIsPlayed DEF GoodHeader
    <3> HIDE DEF h
    <3>5. PBFTTypes'
      BY <1>2, <2>3, <3>1, <3>2, <3>3, <3>4 DEF PBFTTypes, GoodHeader
    <3>6. Played(m_working)'
      BY <2>3, <3>4
    <3> QED BY <1>2, <2>1, <3>5, <3>6
  <2>4. \/ UNCHANGED <<chain, tq, m_working, m_postSeal>> /\ bq' \in {<< >>, bq}
        \/ /\ bq # << >> /\ bq' = Tail(bq)
           /\ chain' = h /\ m_working' = afterHead(h) /\ m_postSeal' = afterHead(h) /\ tq' = resubmitted(h)
    <3>1. bq # << >> => Tail(bq) = << >>
      <4> SUFFICES ASSUME bq # << >>
                   PROVE  Tail(bq) = << >>
        OBVIOUS
      <4>1. bq = <<h>>
        BY DEF PBFTInv, PBFTTypes
      <4>2. \A t : Tail(<<t>>) = << >>
        OBVIOUS
      <4> HIDE DEF h
      <4> QED BY <4>1, <4>2
    <3> HIDE DEF h
    <3> QED BY <1>4, <3>1 DEF SyncBlockQueue, h
  <2> QED BY <2>2, <2>3, <2>4
<1> QED BY <1>3, <1>4

\* What rejigSealing takes from the queue.
LEMMA TakenKeeps ==
  ASSUME PBFTInv, NEW room
  PROVE  LET s == taken(room)
         IN  Played(s.b) /\ s.b.sealed = m_working.sealed /\ s.q \in Queues
<1> DEFINE s == taken(room)
           all == syncTransactions(m_working, tq)
<1>1. Played(m_working) /\ tq \in Queues
  BY DEF PBFTInv, PBFTTypes
<1>2. Played(all.b) /\ all.b \in BlocksOf(m_working) /\ all.q \in Queues
  BY <1>1, SyncKeeps
<1>3. all.b.sealed = m_working.sealed
  BY <1>2, BlockFields
<1> HIDE DEF all
<1>4. (s.b = m_working /\ s.q = tq) \/ s = all
  BY DEF taken, all
<1> HIDE DEF s
<1>5. Played(s.b) /\ s.b.sealed = m_working.sealed /\ s.q \in Queues
  BY <1>1, <1>2, <1>3, <1>4
<1> QED BY <1>5 DEF s

\* The block is committed, or left for the next interval.
LEMMA PrepareKeeps ==
  ASSUME PBFTInv, NEW room, Prepare(room)
  PROVE  /\ PBFTTypes' /\ Played(m_working)' /\ BroadcastAsCommitted' /\ ~At("executed")'
         /\ UNCHANGED <<prepared, committed>>
<1> DEFINE s == taken(room)
           block == commitToSeal(s.b)
<1>1. Played(s.b) /\ s.b.sealed = m_working.sealed /\ s.q \in Queues
  BY TakenKeeps
<1>2. ~isSealed(m_working) /\ tq' = s.q /\ UNCHANGED <<prepared, committed, chain, bq>>
  BY DEF Prepare, outside, history
<1>3. m_postSeal' \in {CopyBlock(s.b), m_postSeal}
  BY DEF Prepare
<1>4. \/ m_working' = s.b /\ Leave
      \/ /\ m_working' = block
         /\ sealing' = [stage |-> "prepared", header |-> block.m_currentBlock,
                        tx_num |-> Len(block.m_transactions), view |-> -1, generated |-> FALSE]
  BY DEF Prepare
<1>5. /\ Played(block) /\ block.m_committedToSeal /\ block.m_state = applyRewards(block.m_precommit)
      /\ block.m_currentBlock = header(block) /\ block.sealed = s.b.sealed
  BY <1>1, CommitKeeps
<1> HIDE DEF s, block
<1>6. m_postSeal'.m_transactions \in Seq(Submissions)
  BY <1>1, <1>3, CopyKeeps DEF PBFTInv, PBFTTypes
<1>7. GoodHeader(chain') /\ (bq' # << >> => bq' = <<Head(bq')>> /\ GoodHeader(Head(bq')))
  BY <1>2 DEF PBFTInv, PBFTTypes
<1>8. CASE m_working' = s.b /\ Leave
  <2>1. /\ sealing' \in [stage : {"blocks", "rejig", "prepared", "generated", "executed"}, header : {sealing'.header},
                         tx_num : Nat, view : {sealing'.view}, generated : BOOLEAN]
        /\ sealing'.stage = "blocks"
    BY <1>8 DEF Leave, NotSealing
  <2>2. PBFTTypes'
    BY <1>1, <1>2, <1>6, <1>7, <2>1 DEF PBFTTypes, GoodHeader
  <2>3. Played(m_working)'
    BY <1>1, <1>8
  <2> QED BY <1>2, <2>1, <2>2, <2>3 DEF BroadcastAsCommitted, At
<1>9. CASE /\ m_working' = block
           /\ sealing' = [stage |-> "prepared", header |-> block.m_currentBlock,
                          tx_num |-> Len(block.m_transactions), view |-> -1, generated |-> FALSE]
  <2>1. Len(block.m_transactions) \in Nat
    <3>1. block.m_transactions \in Seq(Submissions)
      BY <1>5, CopyKeeps
    <3> QED BY <3>1
  <2>2. /\ sealing' \in [stage : {"blocks", "rejig", "prepared", "generated", "executed"}, header : {sealing'.header},
                         tx_num : Nat, view : {sealing'.view}, generated : BOOLEAN]
        /\ sealing'.stage = "prepared" /\ sealing'.header = block.m_currentBlock
        /\ sealing'.tx_num = Len(block.m_transactions)
    BY <1>9, <2>1
  <2>3. PBFTTypes'
    BY <1>1, <1>2, <1>6, <1>7, <2>2 DEF PBFTTypes, GoodHeader
  <2>4. Played(m_working)'
    BY <1>5, <1>9
  <2>5. ~isSealed(m_working')
    BY <1>1, <1>2, <1>5, <1>9 DEF isSealed
  <2>6. BroadcastAsCommitted'
    BY <1>5, <1>9, <2>2, <2>5 DEF BroadcastAsCommitted, At
  <2> QED BY <1>2, <2>2, <2>3, <2>4, <2>6 DEF At
<1> QED BY <1>4, <1>8, <1>9

\* generateSeal notes what it broadcast.
LEMMA GenerateSealKeeps ==
  ASSUME PBFTInv, GenerateSeal
  PROVE  /\ PBFTTypes' /\ Played(m_working)' /\ BroadcastAsCommitted' /\ ~At("executed")'
         /\ prepared \subseteq prepared' /\ UNCHANGED committed
<1>1. PICK generated \in BOOLEAN :
        /\ sealing' = [sealing EXCEPT !.stage = "generated", !.view = m_view, !.generated = generated]
        /\ prepared' = IF generated THEN prepared \union {[view |-> m_view, header |-> sealing.header]} ELSE prepared
  BY DEF GenerateSeal
<1>2. At("prepared") /\ UNCHANGED <<m_working, m_postSeal, chain, bq, tq, committed>>
  BY DEF GenerateSeal, outside
<1>3. /\ sealing' \in [stage : {"blocks", "rejig", "prepared", "generated", "executed"}, header : {sealing'.header},
                       tx_num : Nat, view : {sealing'.view}, generated : BOOLEAN]
      /\ sealing'.stage = "generated" /\ sealing'.header = sealing.header /\ sealing'.tx_num = sealing.tx_num
      /\ sealing'.view = m_view /\ sealing'.generated = generated
  <2>1. sealing \in [stage : {"blocks", "rejig", "prepared", "generated", "executed"}, header : {sealing.header},
                     tx_num : Nat, view : {sealing.view}, generated : BOOLEAN]
    BY DEF PBFTInv, PBFTTypes
  <2>2. sealing' = [stage |-> "generated", header |-> sealing.header, tx_num |-> sealing.tx_num,
                    view |-> m_view, generated |-> generated]
    BY <1>1, <2>1
  <2>3. sealing.tx_num \in Nat
    BY <2>1
  <2> QED BY <2>2, <2>3
<1>4. PBFTTypes'
  BY <1>2, <1>3 DEF PBFTInv, PBFTTypes, GoodHeader
<1>5. BroadcastAsCommitted'
  <2>1. sealing.stage \in {"prepared", "generated"}
    BY <1>2 DEF At
  <2>2. /\ ~isSealed(m_working) /\ m_working.m_committedToSeal
        /\ m_working.m_state = applyRewards(m_working.m_precommit)
        /\ sealing.header = header(m_working) /\ m_working.m_currentBlock = sealing.header
        /\ sealing.tx_num = Len(m_working.m_transactions)
    BY <2>1 DEF PBFTInv, BroadcastAsCommitted
  <2>3. sealing'.generated => [view |-> sealing'.view, header |-> sealing'.header] \in prepared'
    BY <1>1, <1>3
  <2> QED BY <1>2, <1>3, <2>2, <2>3 DEF BroadcastAsCommitted, isSealed
<1>6. Played(m_working)'
  BY <1>2 DEF PBFTInv
<1> QED BY <1>1, <1>2, <1>3, <1>4, <1>5, <1>6 DEF At

\* Only a block without transactions is not refused: the transactions of any
\* other were run on its state when it was prepared.
LEMMA OthersAreRefused ==
  ASSUME NEW b, Played(b), ~refused(b)
  PROVE  b.m_transactions = << >>
<1> DEFINE open == uncommitToSeal(b)
           parent == b.m_previousBlock.state
           k == Len(b.m_transactions)
<1> SUFFICES ASSUME b.m_transactions # << >>
             PROVE  FALSE
  OBVIOUS
<1>1. b \in BlocksOf(b) /\ parent \in States /\ b.m_transactions \in Seq(Submissions)
  BY BlockFields DEF Played
<1>2. k \in Nat /\ k > 0 /\ 1 \in DOMAIN b.m_transactions /\ Head(b.m_transactions) = b.m_transactions[1]
  BY <1>1
<1>3. b.m_transactions[1].nonce = parent.nonce + 1 - 1
  BY <1>2 DEF Played
<1>4. open.m_state = advanced(parent, k)
  BY DEF Played
<1>5. open.m_state.nonce = parent.nonce + k
  <2> HIDE DEF open, parent, k
  <2> QED BY <1>1, <1>2, <1>4, NonceFollows
<1>6. parent.nonce \in Nat
  BY <1>1 DEF States
<1>7. Head(b.m_transactions).nonce = open.m_state.nonce
  BY DEF refused, executable
<1> HIDE DEF open, parent, k
<1> QED BY <1>2, <1>3, <1>5, <1>6, <1>7

\* Sealing goes back to the state before the rewards.
LEMMA SealKeeps ==
  ASSUME NEW b, Played(b), b.m_committedToSeal, b.m_currentBlock = header(b)
  PROVE  LET c == commitToSealAfterExecTx(b)
         IN  /\ c.m_currentBlock = header(b)
             /\ Played(sealBlock(c, c.m_currentBlock))
<1> DEFINE h == [b.m_currentBlock EXCEPT !.state = b.m_state]
           c == [b EXCEPT !.m_currentBlock = h, !.m_committedToSeal = TRUE]
           head == [c.m_currentBlock EXCEPT !.txs = c.m_currentTxs]
           d == [c EXCEPT !.m_currentBlock = head, !.sealed = TRUE, !.m_state = c.m_precommit]
           parent == b.m_previousBlock.state
           k == Len(b.m_transactions)
<1>1. b \in BlocksOf(b) /\ parent \in States /\ b.m_transactions \in Seq(Submissions)
      /\ b.m_precommit \in States /\ b.m_state \in States
  BY BlockFields DEF Played
<1>2. k \in Nat
  BY <1>1
<1>3. b.m_precommit = advanced(parent, k)
  <2>1. uncommitToSeal(b) = [b EXCEPT !.m_state = b.m_precommit, !.m_committedToSeal = FALSE]
    BY DEF uncommitToSeal
  <2>2. uncommitToSeal(b).m_state = b.m_precommit
    BY <1>1, <2>1 DEF BlocksOf
  <2> QED BY <2>2 DEF Played
<1>4. h = header(b)
  BY DEF header
<1>5. commitToSealAfterExecTx(b) = c
  BY <1>1 DEF commitToSealAfterExecTx, BlocksOf
<1> HIDE DEF h
<1>6. /\ c.m_currentBlock = h /\ c.m_currentTxs = b.m_currentTxs /\ c.m_precommit = b.m_precommit
      /\ c \in [m_previousBlock : {b.m_previousBlock}, m_transactions : Seq(Submissions),
                m_state : States, m_precommit : States, m_committedToSeal : BOOLEAN,
                m_currentBlock : {h}, m_currentTxs : {b.m_currentTxs}, sealed : {b.sealed}, m_author : {b.m_author}]
      /\ c.m_transactions = b.m_transactions /\ c.m_committedToSeal = TRUE
  BY <1>1 DEF BlocksOf
<1>7. sealBlock(c, c.m_currentBlock) = d
  BY DEF sealBlock
<1> HIDE DEF c, head
<1>8. /\ d \in [m_previousBlock : {b.m_previousBlock}, m_transactions : Seq(Submissions),
                m_state : States, m_precommit : States, m_committedToSeal : BOOLEAN,
                m_currentBlock : {head}, m_currentTxs : {b.m_currentTxs}, sealed : {TRUE}, m_author : {b.m_author}]
      /\ d.m_transactions = b.m_transactions /\ d.m_committedToSeal = TRUE
      /\ d.m_state = b.m_precommit /\ d.m_precommit = b.m_precommit /\ d.m_previousBlock = b.m_previousBlock
      /\ d.m_currentBlock = head /\ d.sealed = TRUE /\ d.m_currentTxs = b.m_currentTxs /\ d.m_author = b.m_author
  BY <1>1, <1>6
<1> HIDE DEF d
<1>9. d \in BlocksOf(d)
  BY <1>8 DEF BlocksOf
<1>10. uncommitToSeal(d).m_state = d.m_precommit
  <2>1. uncommitToSeal(d) = [d EXCEPT !.m_state = d.m_precommit, !.m_committedToSeal = FALSE]
    BY <1>8 DEF uncommitToSeal
  <2> QED BY <2>1, <1>9 DEF BlocksOf
<1>11. d.m_state.nonce = parent.nonce + k
  <2>1. d.m_state = advanced(parent, k) /\ parent \in States
    BY <1>1, <1>3, <1>8
  <2> HIDE DEF parent, k
  <2> QED BY <1>2, <2>1, NonceFollows
<1>12. \A i \in DOMAIN b.m_transactions : b.m_transactions[i].nonce = parent.nonce + i - 1
  BY DEF Played
<1>13. Played(d)
  BY <1>1, <1>3, <1>8, <1>9, <1>10, <1>11, <1>12 DEF Played
<1> QED BY <1>4, <1>5, <1>6, <1>7, <1>13

\* The working block is reset.
LEMMA WorkingReset ==
  ASSUME PBFTInv
  PROVE  Played(resetCurrent(m_working))
<1>1. m_working \in BlocksOf(m_working) /\ m_working.m_previousBlock.state \in States
  BY DEF PBFTInv, Played
<1> QED BY <1>1, ResetKeeps

\* What was broadcast is dropped, or, if it has no transactions, sealed again.
LEMMA ExecutePreparedKeeps ==
  ASSUME PBFTInv, ExecutePrepared
  PROVE  /\ PBFTTypes' /\ Played(m_working)' /\ ~(sealing'.stage \in {"prepared", "generated"})
         /\ At("executed")' => Signable(sealing'.header, sealing'.view)
         /\ UNCHANGED <<prepared, committed>>
<1> DEFINE block == commitToSealAfterExecTx(exec(m_working))
           Continues ==
             /\ ~isSealed(m_working) /\ ~refused(m_working) /\ sealing.generated
             /\ m_working' = sealBlock(block, block.m_currentBlock)
             /\ m_postSeal' = executeTransaction
             /\ sealing' = [sealing EXCEPT !.stage = "executed", !.header = block.m_currentBlock]
             /\ UNCHANGED tq
           Stops ==
             /\ m_working' = resetCurrent(m_working) /\ Leave /\ UNCHANGED m_postSeal
             /\ \/ tq' = tq
                \/ refused(m_working) /\ tq' = tqDrop(tq, Head(m_working.m_transactions))
<1>1. UNCHANGED <<chain, bq, prepared, committed>> /\ At("generated")
  BY DEF ExecutePrepared, outside, history
<1>2. Continues \/ Stops
  BY DEF ExecutePrepared
<1>3. Played(m_working) /\ m_working.m_transactions \in Seq(Submissions)
  BY CopyKeeps DEF PBFTInv
<1>4. GoodHeader(chain') /\ (bq' # << >> => bq' = <<Head(bq')>> /\ GoodHeader(Head(bq')))
  BY <1>1 DEF PBFTInv, PBFTTypes
<1> HIDE DEF block
<1>5. CASE Stops
  <2>1. /\ sealing' \in [stage : {"blocks", "rejig", "prepared", "generated", "executed"}, header : {sealing'.header},
                         tx_num : Nat, view : {sealing'.view}, generated : BOOLEAN]
        /\ sealing'.stage = "blocks"
    BY <1>5 DEF Leave, NotSealing
  <2>2. tq' \in Queues
    <3>1. tq \in Queues
      BY DEF PBFTInv, PBFTTypes
    <3>2. refused(m_working) => Head(m_working.m_transactions) \in Submissions
      BY <1>3 DEF refused
    <3> QED BY <1>5, <3>1, <3>2, QueueKeeps
  <2>3. Played(m_working)'
    BY <1>5, WorkingReset
  <2>4. PBFTTypes'
    BY <1>4, <1>5, <2>1, <2>2 DEF PBFTInv, PBFTTypes, GoodHeader
  <2> QED BY <1>1, <2>1, <2>3, <2>4 DEF At
<1>6. CASE Continues
  <2>1. m_working.m_transactions = << >>
    BY <1>3, <1>6, OthersAreRefused
  <2>2. exec(m_working) = m_working
    BY <2>1, NothingExecuted
  <2>3. /\ m_working.m_committedToSeal /\ m_working.m_state = applyRewards(m_working.m_precommit)
        /\ sealing.header = header(m_working) /\ m_working.m_currentBlock = header(m_working)
        /\ [view |-> sealing.view, header |-> sealing.header] \in prepared
    BY <1>1, <1>6 DEF PBFTInv, BroadcastAsCommitted, At
  <2>4. block.m_currentBlock = header(m_working) /\ Played(m_working)'
    BY <1>3, <1>6, <2>2, <2>3, SealKeeps DEF block
  <2>5. /\ sealing' \in [stage : {"blocks", "rejig", "prepared", "generated", "executed"}, header : {sealing'.header},
                         tx_num : Nat, view : {sealing'.view}, generated : BOOLEAN]
        /\ sealing'.stage = "executed" /\ sealing'.header = sealing.header /\ sealing'.view = sealing.view
    <3>1. sealing \in [stage : {"blocks", "rejig", "prepared", "generated", "executed"}, header : {sealing.header},
                       tx_num : Nat, view : {sealing.view}, generated : BOOLEAN]
      BY DEF PBFTInv, PBFTTypes
    <3>2. sealing' = [stage |-> "executed", header |-> sealing.header, tx_num |-> sealing.tx_num,
                      view |-> sealing.view, generated |-> sealing.generated]
      BY <1>6, <2>3, <2>4, <3>1
    <3>3. sealing.tx_num \in Nat /\ sealing.generated \in BOOLEAN
      BY <3>1, Zenon
    <3> QED BY <3>2, <3>3
  <2>6. PBFTTypes'
    <3>1. m_postSeal' = m_postSeal
      BY <1>6, <2>1 DEF executeTransaction
    <3> QED BY <1>4, <1>6, <2>5, <3>1 DEF PBFTInv, PBFTTypes, GoodHeader
  <2>7. Signable(sealing.header, sealing.view)
    <3> DEFINE h == header(m_working)
               parent == m_working.m_previousBlock.state
    <3>1. /\ h.txs = << >> /\ h.state = m_working.m_state /\ h.parent = m_working.m_previousBlock
      BY <2>1 DEF header
    <3>2. parent \in States /\ m_working \in BlocksOf(m_working)
      BY <1>3 DEF Played
    <3>3. m_working.m_state \in States
      BY <3>2, BlockFields
    <3>4. m_working.m_precommit = parent
      <4>1. uncommitToSeal(m_working).m_state = m_working.m_precommit
        BY <2>3, <3>2 DEF uncommitToSeal, BlocksOf
      <4>2. uncommitToSeal(m_working).m_state = advanced(parent, 0)
        BY <1>3, <2>1 DEF Played
      <4>3. advanced(parent, 0) = parent
        BY <3>2 DEF States, advanced
      <4> QED BY <4>1, <4>2, <4>3
    <3>5. h.state = applyRewards(h.parent.state)
      BY <2>3, <3>1, <3>4
    <3> HIDE DEF h
    <3>6. enactOn(h)
      BY <3>1, <3>5, EmptyIsEnacted
    <3>7. GoodHeader(h)
      BY <3>1, <3>3 DEF GoodHeader
    <3>8. sealing.header = h
      BY <2>3 DEF h
    <3>9. PICK p \in prepared : p = [view |-> sealing.view, header |-> h]
      BY <2>3, <3>8
    <3> QED BY <3>6, <3>7, <3>8, <3>9 DEF Signable
  <2> QED BY <1>1, <2>4, <2>5, <2>6, <2>7 DEF At
<1> QED BY <1>2, <1>5, <1>6

\* What may be signed may be signed later.
LEMMA SignableLater ==
  ASSUME NEW h, NEW view, Signable(h, view), prepared \subseteq prepared'
  PROVE  Signable(h, view)'
BY DEF Signable, GoodHeader

\* The prepared block is signed, or its view is over.
LEMMA GenerateCommitKeeps ==
  ASSUME PBFTInv, GenerateCommit
  PROVE  /\ PBFTTypes' /\ Played(m_working)' /\ sealing'.stage = "blocks"
         /\ \A c \in committed' : Signable(c.header, c.view)
         /\ UNCHANGED prepared
<1>1. At("executed") /\ UNCHANGED <<m_working, chain, bq, tq, prepared>> /\ Leave
  BY DEF GenerateCommit, outside
<1>2. /\ sealing' \in [stage : {"blocks", "rejig", "prepared", "generated", "executed"}, header : {sealing'.header},
                       tx_num : Nat, view : {sealing'.view}, generated : BOOLEAN]
      /\ sealing'.stage = "blocks"
  BY <1>1 DEF Leave, NotSealing
<1>3. m_postSeal'.m_transactions \in Seq(Submissions)
  <2>1. m_postSeal' \in {CopyBlock(m_working), m_postSeal}
    BY DEF GenerateCommit
  <2> QED BY <2>1, CopyKeeps DEF PBFTInv, PBFTTypes
<1>4. PBFTTypes'
  BY <1>1, <1>2, <1>3 DEF PBFTInv, PBFTTypes, GoodHeader
<1>5. \A c \in committed' : Signable(c.header, c.view)
  <2>1. committed' \subseteq committed \union {[view |-> sealing.view, header |-> sealing.header]}
    BY DEF GenerateCommit, generateCommit
  <2>2. Signable(sealing.header, sealing.view)
    BY <1>1 DEF PBFTInv
  <2>3. \A c \in committed : Signable(c.header, c.view)
    BY DEF PBFTInv
  <2>4. PICK d : d = [view |-> sealing.view, header |-> sealing.header]
    OBVIOUS
  <2>5. d.view = sealing.view /\ d.header = sealing.header
    BY <2>4
  <2>6. \A c \in committed' : c \in committed \/ c = d
    BY <2>1, <2>4
  <2> QED BY <2>2, <2>3, <2>5, <2>6
<1>6. Played(m_working)'
  BY <1>1 DEF PBFTInv
<1> QED BY <1>1, <1>2, <1>4, <1>5, <1>6

\* A block that was agreed on is ours, or another node's on the same head.
LEMMA SubmittedIsGood ==
  ASSUME PBFTInv, SubmitSealed
  PROVE  bq' = <<Head(bq')>> /\ GoodHeader(Head(bq'))
<1> DEFINE other(ts) == commitToSeal(FoldLeft(execute, syncChain(NewBlock("other"), chain).block, ts)).m_currentBlock
           next == {u \in Submissions : u.nonce = chain.state.nonce}
<1>1. PICK h \in {c.header : c \in committed} \union {other(ts) : ts \in {<< >>} \union {<<t>> : t \in next}} :
          bq' = <<h>>
  BY DEF SubmitSealed
<1>2. Head(bq') = h
  <2>1. \A x : Head(<<x>>) = x
    OBVIOUS
  <2> QED BY <1>1, <2>1
<1>3. CASE h \in {c.header : c \in committed}
  <2>1. PICK c \in committed : h = c.header
    BY <1>3
  <2> QED BY <1>1, <1>2, <2>1 DEF PBFTInv, Signable
<1>4. CASE \E ts \in {<< >>} \union {<<t>> : t \in next} : h = other(ts)
  <2> DEFINE fresh == syncChain(NewBlock("other"), chain).block
  <2>1. /\ Played(fresh) /\ fresh.m_state = chain.state
    BY FreshIsPlayed DEF PBFTInv, PBFTTypes, GoodHeader
  <2> HIDE DEF fresh
  <2>2. \A b : Played(b) => GoodHeader(commitToSeal(b).m_currentBlock)
    <3> SUFFICES ASSUME NEW b, Played(b)
                 PROVE  GoodHeader(commitToSeal(b).m_currentBlock)
      OBVIOUS
    <3> DEFINE c == commitToSeal(b)
    <3>1. c.m_currentBlock = header(c) /\ GoodHeader(header(c))
      BY CommitKeeps
    <3> HIDE DEF c
    <3>2. GoodHeader(c.m_currentBlock)
      BY <3>1
    <3> QED BY <3>2 DEF c
  <2>3. FoldLeft(execute, fresh, << >>) = fresh
    BY NothingExecuted
  <2>4. ASSUME NEW t \in next
        PROVE  GoodHeader(commitToSeal(FoldLeft(execute, fresh, <<t>>)).m_currentBlock)
    <3>1. FoldLeft(execute, fresh, <<t>>) = execute(fresh, t)
      BY OneExecuted
    <3>2. Played(execute(fresh, t))
      BY <2>1, ExecuteKeeps
    <3> QED BY <2>2, <3>1, <3>2
  <2>5. GoodHeader(commitToSeal(FoldLeft(execute, fresh, << >>)).m_currentBlock)
    BY <2>1, <2>2, <2>3
  <2>6. PICK ts : ts \in {<< >>} \union {<<t>> : t \in next} /\ h = commitToSeal(FoldLeft(execute, fresh, ts)).m_currentBlock
    BY <1>4 DEF fresh
  <2>7. CASE ts = << >>
    BY <1>1, <1>2, <2>5, <2>6, <2>7
  <2>8. CASE ts \in {<<t>> : t \in next}
    BY <1>1, <1>2, <2>4, <2>6, <2>8
  <2> QED BY <2>6, <2>7, <2>8
<1> HIDE DEF other, next
<1> QED BY <1>1, <1>3, <1>4

\* Other threads leave what is broadcast as it is.
LEMMA OthersKeep ==
  ASSUME PBFTInv,
         \/ \E t \in Submissions : SubmitTransaction(t)
         \/ StartSealing \/ StopSealing \/ ChangeView \/ OnViewChange \/ SubmitSealed
  PROVE  /\ PBFTTypes' /\ Played(m_working)' /\ BroadcastAsCommitted'
         /\ UNCHANGED <<sealing, prepared, committed>>
<1>1. UNCHANGED <<sealing, prepared, committed, m_postSeal, chain>>
  BY DEF SubmitTransaction, StartSealing, StopSealing, ChangeView, OnViewChange, SubmitSealed, outside, history
<1>2. tq' \in Queues
  <2>1. tq \in Queues
    BY DEF PBFTInv, PBFTTypes
  <2>2. CASE \E t \in Submissions : SubmitTransaction(t)
    BY <2>1, <2>2, QueueKeeps DEF SubmitTransaction
  <2>3. CASE StartSealing \/ StopSealing \/ ChangeView \/ OnViewChange \/ SubmitSealed
    BY <2>1, <2>3 DEF StartSealing, StopSealing, ChangeView, OnViewChange, SubmitSealed
  <2> QED BY <2>2, <2>3
<1>3. bq' # << >> => bq' = <<Head(bq')>> /\ GoodHeader(Head(bq'))
  <2>1. CASE SubmitSealed
    BY <2>1, SubmittedIsGood
  <2>2. CASE UNCHANGED bq
    BY <2>2 DEF PBFTInv, PBFTTypes
  <2> QED BY <2>1, <2>2 DEF SubmitTransaction, StartSealing, StopSealing, ChangeView, OnViewChange, outside
<1>4. m_working' = m_working \/ (isSealed(m_working) /\ m_working' = resetCurrent(m_working))
  BY DEF SubmitTransaction, StartSealing, StopSealing, ChangeView, OnViewChange, SubmitSealed
<1>5. PBFTTypes'
  BY <1>1, <1>2, <1>3 DEF PBFTInv, PBFTTypes, GoodHeader
<1>6. Played(m_working)'
  BY <1>4, WorkingReset DEF PBFTInv
<1>7. BroadcastAsCommitted'
  BY <1>1, <1>4 DEF PBFTInv, BroadcastAsCommitted, At
<1> QED BY <1>1, <1>5, <1>6, <1>7

\* Every step keeps the invariant.
LEMMA PBFTStep == PBFTInv /\ [PBFTNext]_pbftVars => PBFTInv'
<1> SUFFICES ASSUME PBFTInv, [PBFTNext]_pbftVars
             PROVE  PBFTInv'
  OBVIOUS
<1>1. \A c \in committed : Signable(c.header, c.view)
  BY DEF PBFTInv
<1>2. ASSUME prepared \subseteq prepared', \A c \in committed' : Signable(c.header, c.view)
      PROVE  \A c \in committed' : Signable(c.header, c.view)'
  BY <1>2, SignableLater
<1>3. CASE SyncBlockQueue \/ NotNow \/ SealedAlready
  BY <1>1, <1>2, <1>3, BetweenBlocks DEF PBFTInv, BroadcastAsCommitted, At
<1>4. CASE \E room \in 0..m_maxBlockTranscations : Prepare(room)
  BY <1>1, <1>2, <1>4, PrepareKeeps DEF PBFTInv, At
<1>5. CASE GenerateSeal
  BY <1>1, <1>2, <1>5, GenerateSealKeeps DEF PBFTInv, At
<1>6. CASE ExecutePrepared
  <2>1. /\ PBFTTypes' /\ Played(m_working)' /\ ~(sealing'.stage \in {"prepared", "generated"})
        /\ At("executed")' => Signable(sealing'.header, sealing'.view)
        /\ UNCHANGED <<prepared, committed>>
    BY <1>6, ExecutePreparedKeeps
  <2>2. At("executed")' => Signable(sealing.header, sealing.view)'
    BY <2>1 DEF Signable, GoodHeader
  <2> QED BY <1>1, <1>2, <2>1, <2>2 DEF PBFTInv, BroadcastAsCommitted
<1>7. CASE GenerateCommit
  BY <1>2, <1>7, GenerateCommitKeeps DEF PBFTInv, BroadcastAsCommitted, At
<1>8. CASE \/ \E t \in Submissions : SubmitTransaction(t)
           \/ StartSealing \/ StopSealing \/ ChangeView \/ OnViewChange \/ SubmitSealed
  <2>1. /\ PBFTTypes' /\ Played(m_working)' /\ BroadcastAsCommitted'
        /\ UNCHANGED <<sealing, prepared, committed>>
    BY <1>8, OthersKeep
  <2>2. At("executed")' => Signable(sealing.header, sealing.view)'
    BY <2>1 DEF PBFTInv, At, Signable, GoodHeader
  <2> QED BY <1>1, <1>2, <2>1, <2>2 DEF PBFTInv
<1>9. CASE UNCHANGED pbftVars
  BY <1>9 DEF pbftVars, PBFTInv, PBFTTypes, BroadcastAsCommitted, At, Signable, GoodHeader
<1> QED BY <1>3, <1>4, <1>5, <1>6, <1>7, <1>8, <1>9 DEF PBFTNext, PBFTSteps

\* A block that is signed was broadcast in the same view, on the same parent
\* and with the same transactions, and can be played back.
\* Code: PBFTClient.cpp:233-423, PBFT.cpp:185-209, Block.cpp:542-589, 1035-1058.
THEOREM BlocksSignedAsPrepared == PBFTSpec => []SignedAsPrepared
<1>1. PBFTInv => SignedAsPrepared
  BY DEF PBFTInv, Signable, SignedAsPrepared
<1> QED BY <1>1, PBFTInitial, PBFTStep, PTL DEF PBFTSpec

-----------------------------------------------------------------------------
(* Uncles.                                                                 *)

\* What a step is repeated on, as a function of how often.
repeats(f, b, s) == \A i \in Nat : f[i] = IF i = 0 THEN b ELSE s[f[i - 1]]

LEMMA Repeated ==
  ASSUME NEW D, NEW b \in D, NEW s \in [D -> D]
  PROVE  \E f \in [Nat -> D] : repeats(f, b, s)
<1> DEFINE Upto(g, k) == g \in [0 .. k -> D] /\ g[0] = b /\ \A i \in 0 .. k : i # 0 => g[i] = s[g[i - 1]]
<1>1. \A k \in Nat : \E g : Upto(g, k)
  <2> DEFINE Good == {k \in Nat : \E g : Upto(g, k)}
  <2>1. 0 \in Good
    <3> DEFINE g == [i \in 0 .. 0 |-> b]
    <3>1. Upto(g, 0)
      OBVIOUS
    <3> QED BY <3>1
  <2>2. ASSUME NEW k \in Nat, k \in Good
        PROVE  k + 1 \in Good
    <3>1. PICK g : Upto(g, k)
      BY <2>2
    <3> DEFINE h == [i \in 0 .. k + 1 |-> IF i = k + 1 THEN s[g[k]] ELSE g[i]]
    <3>2. Upto(h, k + 1)
      <4>1. h \in [0 .. k + 1 -> D]
        BY <3>1
      <4>2. h[0] = b
        BY <3>1
      <4>3. ASSUME NEW i \in 0 .. k + 1, i # 0
            PROVE  h[i] = s[h[i - 1]]
        BY <3>1, <4>3
      <4> HIDE DEF h
      <4> QED BY <4>1, <4>2, <4>3
    <3> HIDE DEF Upto, h
    <3> QED BY <3>2
  <2> HIDE DEF Good
  <2>3. Nat \subseteq Good
    BY <2>1, <2>2, EveryNumber
  <2> QED BY <2>3 DEF Good
<1>2. ASSUME NEW k \in Nat, NEW m \in Nat, NEW g, NEW h, Upto(g, k), Upto(h, m)
      PROVE  \A i \in Nat : i <= k /\ i <= m => g[i] = h[i]
  <2> DEFINE Same == {i \in Nat : i <= k /\ i <= m => g[i] = h[i]}
  <2>1. 0 \in Same
    BY <1>2
  <2>2. ASSUME NEW i \in Nat, i \in Same
        PROVE  i + 1 \in Same
    <3> SUFFICES ASSUME i + 1 <= k, i + 1 <= m
                 PROVE  g[i + 1] = h[i + 1]
      OBVIOUS
    <3>1. g[i] = h[i]
      BY <2>2
    <3>2. i + 1 \in 0 .. k /\ i + 1 \in 0 .. m /\ i + 1 # 0 /\ (i + 1) - 1 = i
      OBVIOUS
    <3>3. g[i + 1] = s[g[(i + 1) - 1]] /\ h[i + 1] = s[h[(i + 1) - 1]]
      BY <1>2, <3>2
    <3> QED BY <3>1, <3>2, <3>3
  <2> HIDE DEF Same
  <2>3. Nat \subseteq Same
    BY <2>1, <2>2, EveryNumber
  <2> QED BY <2>3 DEF Same
<1> DEFINE G(k) == CHOOSE g : Upto(g, k)
           f == [k \in Nat |-> G(k)[k]]
<1>3. \A k \in Nat : Upto(G(k), k)
  <2> HIDE DEF Upto
  <2> QED BY <1>1
<1>4. f \in [Nat -> D]
  <2> HIDE DEF G
  <2> QED BY <1>3
<1>5. ASSUME NEW k \in Nat
      PROVE  f[k] = IF k = 0 THEN b ELSE s[f[k - 1]]
  <2>1. CASE k = 0
    <3> HIDE DEF G
    <3> QED BY <1>3, <2>1
  <2>2. CASE k # 0
    <3>1. k - 1 \in Nat /\ k - 1 <= k
      BY <2>2
    <3>2. f[k] = G(k)[k] /\ f[k - 1] = G(k - 1)[k - 1]
      BY <3>1
    <3>3. G(k)[k] = s[G(k)[k - 1]]
      <4> HIDE DEF G
      <4> QED BY <1>3, <2>2
    <3>4. G(k)[k - 1] = G(k - 1)[k - 1]
      <4> HIDE DEF G, Upto
      <4> QED BY <1>2, <1>3, <3>1
    <3> HIDE DEF f, G
    <3> QED BY <2>2, <3>2, <3>3, <3>4
  <2> QED BY <2>1, <2>2
<1> HIDE DEF f
<1> QED BY <1>4, <1>5 DEF repeats

\* A tree of blocks, and the operators of Uncles for any tree.
up(t, h, f, i) == IF i = 0 THEN h ELSE (IF f[i - 1] = 0 THEN 0 ELSE t[f[i - 1]].parent)
above(t, h, n) == (CHOOSE f : f = [i \in Nat |-> up(t, h, f, i)])[n]

TreeShape(t) ==
    /\ t = [i \in 1 .. Len(t) |-> t[i]] /\ Len(t) \in Nat \ {0}
    /\ t[1].parent = 0 /\ t[1].number = 0 /\ t[1].uncles = << >>
    /\ \A i \in 1 .. Len(t) : /\ t[i].number \in Nat
                              /\ i # 1 => t[i].parent \in 1 .. i - 1 /\ t[i].number = t[t[i].parent].number + 1

LEMMA AboveSteps ==
  ASSUME NEW t, TreeShape(t), NEW h \in 0 .. Len(t)
  PROVE  /\ above(t, h, 0) = h
         /\ \A n \in Nat : /\ above(t, h, n) \in 0 .. Len(t)
                           /\ above(t, h, n + 1) = IF above(t, h, n) = 0 THEN 0 ELSE t[above(t, h, n)].parent
<1> DEFINE D == 0 .. Len(t)
           s == [x \in D |-> IF x = 0 THEN 0 ELSE t[x].parent]
<1>1. s \in [D -> D]
  <2> SUFFICES ASSUME NEW x \in D, x # 0
               PROVE  t[x].parent \in D
    OBVIOUS
  <2>1. x \in 1 .. Len(t) /\ Len(t) \in Nat
    BY DEF TreeShape
  <2>2. t[x].parent \in 0 .. x - 1
    BY <2>1 DEF TreeShape
  <2> QED BY <2>1, <2>2
<1>2. PICK f \in [Nat -> D] : repeats(f, h, s)
  <2> HIDE DEF D, s
  <2>1. h \in D
    BY DEF D
  <2> QED BY <1>1, <2>1, Repeated
<1>3. \A g \in [Nat -> D] : \A i \in Nat : (IF i = 0 THEN h ELSE s[g[i - 1]]) = up(t, h, g, i)
  <2> SUFFICES ASSUME NEW g \in [Nat -> D], NEW i \in Nat, i # 0
               PROVE  s[g[i - 1]] = up(t, h, g, i)
    BY DEF up
  <2>1. i - 1 \in Nat /\ g[i - 1] \in D
    <3> HIDE DEF D, s
    <3>1. i - 1 \in Nat
      OBVIOUS
    <3> QED BY <3>1
  <2> QED BY <2>1 DEF up
<1>4. f = [i \in Nat |-> up(t, h, f, i)]
  <2> HIDE DEF D, s
  <2>1. f = [i \in Nat |-> f[i]]
    OBVIOUS
  <2>2. \A i \in Nat : f[i] = up(t, h, f, i)
    BY <1>2, <1>3 DEF repeats
  <2> QED BY <2>1, <2>2
<1> DEFINE g == CHOOSE k : k = [i \in Nat |-> up(t, h, k, i)]
<1>5. g = [i \in Nat |-> up(t, h, g, i)]
  BY <1>4
<1>6. \A n : above(t, h, n) = g[n]
  BY DEF above
<1> HIDE DEF g
<1>7. g[0] = h
  BY <1>5 DEF up
<1>8. \A n \in Nat : g[n + 1] = IF g[n] = 0 THEN 0 ELSE t[g[n]].parent
  <2> SUFFICES ASSUME NEW n \in Nat
               PROVE  g[n + 1] = IF g[n] = 0 THEN 0 ELSE t[g[n]].parent
    OBVIOUS
  <2>1. n + 1 \in Nat /\ n + 1 # 0 /\ (n + 1) - 1 = n
    OBVIOUS
  <2>2. g[n + 1] = up(t, h, g, n + 1)
    BY <1>5, <2>1
  <2> QED BY <2>1, <2>2 DEF up
<1>9. \A n \in Nat : g[n] \in D
  <2> DEFINE Good == {n \in Nat : g[n] \in D}
  <2>1. 0 \in Good
    BY <1>7
  <2>2. ASSUME NEW n \in Nat, n \in Good
        PROVE  n + 1 \in Good
    <3>1. g[n + 1] = s[g[n]]
      BY <1>8, <2>2
    <3> HIDE DEF s, D
    <3> QED BY <1>1, <2>2, <3>1
  <2> HIDE DEF Good
  <2>3. Nat \subseteq Good
    BY <2>1, <2>2, EveryNumber
  <2> QED BY <2>3 DEF Good
<1> QED BY <1>6, <1>7, <1>8, <1>9

\* An ancestor is as many generations older, and beyond the first there is none.
LEMMA AboveIs ==
  ASSUME NEW t, TreeShape(t), NEW h \in 1 .. Len(t)
  PROVE  \A n \in Nat : /\ n <= t[h].number => /\ above(t, h, n) \in 1 .. h
                                               /\ t[above(t, h, n)].number = t[h].number - n
                        /\ n > t[h].number => above(t, h, n) = 0
<1> DEFINE a(n) == above(t, h, n)
           Good == {n \in Nat : /\ n <= t[h].number => a(n) \in 1 .. h /\ t[a(n)].number = t[h].number - n
                                /\ n > t[h].number => a(n) = 0}
<1>1. Len(t) \in Nat \ {0} /\ h \in 0 .. Len(t) /\ t[h].number \in Nat
  BY DEF TreeShape
<1>2. a(0) = h /\ \A n \in Nat : a(n + 1) = IF a(n) = 0 THEN 0 ELSE t[a(n)].parent
  BY <1>1, AboveSteps
<1>3. 0 \in Good
  <2> DEFINE x == a(0)
             m == t[h].number
  <2>1. x = h /\ h \in 1 .. h /\ m \in Nat /\ m - 0 = m /\ ~(0 > m)
    <3> DEFINE l == Len(t)
    <3>1. l \in Nat /\ h \in 1 .. l /\ m \in Nat /\ x = h
      BY <1>1, <1>2
    <3> HIDE DEF l, m, x
    <3> QED BY <3>1
  <2> HIDE DEF x
  <2>2. x \in 1 .. h /\ t[x].number = m - 0
    BY <2>1
  <2> QED BY <2>1, <2>2 DEF x
<1>4. ASSUME NEW n \in Nat, n \in Good
      PROVE  n + 1 \in Good
  <2> DEFINE x == a(n)
             y == a(n + 1)
             m == t[h].number
  <2>1. y = IF x = 0 THEN 0 ELSE t[x].parent
    BY <1>2
  <2>2. (n <= m => x \in 1 .. h /\ t[x].number = m - n) /\ (n > m => x = 0)
    BY <1>4
  <2> SUFFICES /\ n + 1 <= m => y \in 1 .. h /\ t[y].number = m - (n + 1)
               /\ n + 1 > m => y = 0
    OBVIOUS
  <2> HIDE DEF x, y
  <2>3. CASE n + 1 <= m
    <3>1. x \in 1 .. h /\ t[x].number = m - n /\ m - n # 0 /\ m \in Nat
      BY <1>1, <2>2, <2>3
    <3>2. x \in 1 .. Len(t) /\ x # 1
      BY <1>1, <3>1 DEF TreeShape
    <3>3. t[x].parent \in 1 .. x - 1 /\ t[x].number = t[t[x].parent].number + 1
      BY <3>2 DEF TreeShape
    <3>4. y = t[x].parent
      BY <2>1, <3>2
    <3>5. y \in 1 .. h /\ y \in 1 .. Len(t)
      BY <1>1, <3>1, <3>2, <3>3, <3>4
    <3>6. t[y].number \in Nat
      BY <3>5 DEF TreeShape
    <3> HIDE DEF m
    <3>7. t[y].number = m - (n + 1)
      BY <3>1, <3>3, <3>4, <3>6
    <3> QED BY <2>3, <3>1, <3>5, <3>7
  <2>4. CASE n = m
    <3>1. x \in 1 .. h /\ t[x].number = 0
      BY <1>1, <2>2, <2>4
    <3>2. x \in 1 .. Len(t) /\ x # 0
      BY <1>1, <3>1
    <3>3. x = 1
      <4> SUFFICES ASSUME x # 1
                   PROVE  FALSE
        OBVIOUS
      <4>1. t[x].parent \in 1 .. x - 1 /\ t[x].number = t[t[x].parent].number + 1
        BY <3>2 DEF TreeShape
      <4>2. t[x].parent \in 1 .. Len(t)
        BY <1>1, <3>2, <4>1
      <4>3. t[t[x].parent].number \in Nat
        BY <4>2 DEF TreeShape
      <4> QED BY <3>1, <4>1, <4>3
    <3>4. y = 0
      BY <2>1, <3>3 DEF TreeShape
    <3> QED BY <1>1, <2>4, <3>4
  <2>5. CASE n > m
    BY <1>1, <2>1, <2>2, <2>5
  <2> QED BY <1>1, <2>3, <2>4, <2>5
<1>5. Nat \subseteq Good
  <2> HIDE DEF Good
  <2> QED BY <1>3, <1>4, EveryNumber
<1> QED BY <1>5

\* The ancestors of a block are its parent and the parent's ancestors.
LEMMA AboveParent ==
  ASSUME NEW t, TreeShape(t), NEW h \in 1 .. Len(t)
  PROVE  \A n \in Nat : above(t, h, n + 1) = above(t, t[h].parent, n)
<1> DEFINE p == t[h].parent
           Good == {n \in Nat : above(t, h, n + 1) = above(t, p, n)}
<1>1. h \in 0 .. Len(t) /\ p \in 0 .. Len(t) /\ h # 0
  <2>1. Len(t) \in Nat
    BY DEF TreeShape
  <2>2. h = 1 => p = 0
    BY DEF TreeShape
  <2>3. h # 1 => p \in 1 .. h - 1
    BY DEF TreeShape
  <2> HIDE DEF p
  <2> QED BY <2>1, <2>2, <2>3
<1>2. /\ above(t, h, 0) = h /\ above(t, p, 0) = p
      /\ \A n \in Nat : /\ above(t, h, n + 1) = IF above(t, h, n) = 0 THEN 0 ELSE t[above(t, h, n)].parent
                        /\ above(t, p, n + 1) = IF above(t, p, n) = 0 THEN 0 ELSE t[above(t, p, n)].parent
  <2> HIDE DEF p
  <2> QED BY <1>1, AboveSteps
<1>3. 0 \in Good
  <2>1. above(t, h, 0 + 1) = p
    BY <1>1, <1>2
  <2> QED BY <1>2, <2>1
<1>4. ASSUME NEW n \in Nat, n \in Good
      PROVE  n + 1 \in Good
  <2> HIDE DEF p
  <2>1. above(t, h, n + 1) = above(t, p, n)
    BY <1>4
  <2>2. n + 1 \in Nat
    OBVIOUS
  <2>3. above(t, h, (n + 1) + 1) = IF above(t, h, n + 1) = 0 THEN 0 ELSE t[above(t, h, n + 1)].parent
    BY <1>2, <2>2
  <2> QED BY <1>2, <2>1, <2>2, <2>3
<1>5. Nat \subseteq Good
  <2> HIDE DEF Good
  <2> QED BY <1>3, <1>4, EveryNumber
<1> QED BY <1>5

\* The kin of a block, and the test of its uncles, for any tree.
kinIn(t, h) == IF h \in {0, 1} THEN {} ELSE {t[h].parent} \cup ToSet(t[h].uncles)
excludedIn(t, p) == {p} \cup UNION {kinIn(t, above(t, p, i)) : i \in 0 .. Generations - 1}
fitsIn(t, p, u) ==
    LET depth == t[p].number + 1 - t[u].number
    IN  depth \in 1 .. Generations /\ above(t, p, depth) = t[u].parent
passesIn(t, p, us) ==
    /\ Len(us) <= MaxUncles /\ \A u \in ToSet(us) : fitsIn(t, p, u)
    /\ ToSet(us) \cap excludedIn(t, p) = {} /\ IsInjective(us)

LEMMA InTheTree ==
  /\ \A h, n : ancestor(h, n) = above(tree, h, n)
  /\ \A p : excludedBy(p) = excludedIn(tree, p)
  /\ \A p, u : uncleFits(p, u) = fitsIn(tree, p, u)
  /\ \A p, us : enactUncles(p, us) = passesIn(tree, p, us)
<1>1. \A h, n : ancestor(h, n) = above(tree, h, n)
  BY DEF ancestor, parentOf, above, up
<1>2. \A h : kinOf(h) = kinIn(tree, h)
  BY DEF kinOf, kinIn, genesisHash
<1>3. \A p : excludedBy(p) = excludedIn(tree, p)
  BY <1>1, <1>2 DEF excludedBy, allKinFrom, excludedIn
<1>4. \A p, u : uncleFits(p, u) = fitsIn(tree, p, u)
  BY <1>1 DEF uncleFits, fitsIn
<1>5. \A p, us : enactUncles(p, us) = passesIn(tree, p, us)
  BY <1>3, <1>4 DEF enactUncles, passesIn
<1> QED BY <1>1, <1>3, <1>4, <1>5

\* A tree that has grown by a block.
Grown(t, s) == Len(s) = Len(t) + 1 /\ \A i \in 1 .. Len(t) : s[i] = t[i]

LEMMA AboveSame ==
  ASSUME NEW t, TreeShape(t), NEW s, TreeShape(s), Grown(t, s), NEW h \in 1 .. Len(t)
  PROVE  \A n \in Nat : above(s, h, n) = above(t, h, n)
<1> DEFINE Good == {n \in Nat : above(s, h, n) = above(t, h, n)}
<1>1. Len(t) \in Nat \ {0} /\ h \in 0 .. Len(t) /\ h \in 0 .. Len(s)
  <2>1. Len(t) \in Nat \ {0} /\ Len(s) = Len(t) + 1
    BY DEF TreeShape, Grown
  <2> QED BY <2>1
<1>2. /\ above(t, h, 0) = h
      /\ \A n \in Nat : /\ above(t, h, n) \in 0 .. Len(t)
                        /\ above(t, h, n + 1) = IF above(t, h, n) = 0 THEN 0 ELSE t[above(t, h, n)].parent
  BY <1>1, AboveSteps
<1>3. /\ above(s, h, 0) = h
      /\ \A n \in Nat : above(s, h, n + 1) = IF above(s, h, n) = 0 THEN 0 ELSE s[above(s, h, n)].parent
  BY <1>1, AboveSteps
<1>4. 0 \in Good
  BY <1>2, <1>3
<1>5. ASSUME NEW n \in Nat, n \in Good
      PROVE  n + 1 \in Good
  <2> DEFINE x == above(t, h, n)
  <2>1. above(s, h, n) = x /\ x \in 0 .. Len(t)
    BY <1>2, <1>5
  <2>2. x # 0 => s[x] = t[x]
    <3> HIDE DEF x
    <3>1. x # 0 => x \in 1 .. Len(t)
      BY <1>1, <2>1
    <3> QED BY <3>1 DEF Grown
  <2>3. above(t, h, n + 1) = IF x = 0 THEN 0 ELSE t[x].parent
    BY <1>2
  <2>4. above(s, h, n + 1) = IF x = 0 THEN 0 ELSE s[x].parent
    BY <1>3, <2>1
  <2> HIDE DEF x
  <2>5. above(s, h, n + 1) = above(t, h, n + 1)
    BY <2>2, <2>3, <2>4
  <2> QED BY <2>5
<1>6. Nat \subseteq Good
  <2> HIDE DEF Good
  <2> QED BY <1>4, <1>5, EveryNumber
<1> QED BY <1>6

\* Uncles that pass still do when the tree has grown.
LEMMA PassesSame ==
  ASSUME NEW t, TreeShape(t), NEW s, TreeShape(s), Grown(t, s), NEW p \in 1 .. Len(t),
         NEW us \in Seq(1 .. Len(t))
  PROVE  passesIn(s, p, us) = passesIn(t, p, us)
<1>1. Len(t) \in Nat /\ Generations \in Nat
  BY UnclesAssumption DEF TreeShape
<1>2. \A n \in Nat : above(s, p, n) = above(t, p, n) /\ above(t, p, n) \in 0 .. Len(t)
  <2>1. p \in 0 .. Len(t)
    BY <1>1
  <2> QED BY <2>1, AboveSame, AboveSteps
<1>3. \A h \in 0 .. Len(t) : kinIn(s, h) = kinIn(t, h)
  <2> SUFFICES ASSUME NEW h \in 0 .. Len(t), h \notin {0, 1}
               PROVE  s[h] = t[h]
    BY DEF kinIn
  <2>1. h \in 1 .. Len(t)
    BY <1>1
  <2> QED BY <2>1 DEF Grown
<1>4. excludedIn(s, p) = excludedIn(t, p)
  <2>1. \A i \in 0 .. Generations - 1 : kinIn(s, above(s, p, i)) = kinIn(t, above(t, p, i))
    BY <1>1, <1>2, <1>3
  <2>2. {kinIn(s, above(s, p, i)) : i \in 0 .. Generations - 1} = {kinIn(t, above(t, p, i)) : i \in 0 .. Generations - 1}
    BY <2>1
  <2> QED BY <2>2 DEF excludedIn
<1>5. \A u \in 1 .. Len(t) : fitsIn(s, p, u) = fitsIn(t, p, u)
  <2> SUFFICES ASSUME NEW u \in 1 .. Len(t)
               PROVE  fitsIn(s, p, u) = fitsIn(t, p, u)
    OBVIOUS
  <2>1. s[u] = t[u] /\ s[p] = t[p]
    BY DEF Grown
  <2> DEFINE depth == t[p].number + 1 - t[u].number
  <2>2. depth \in 1 .. Generations => above(s, p, depth) = above(t, p, depth)
    <3> HIDE DEF depth
    <3> QED BY <1>1, <1>2
  <2> QED BY <2>1, <2>2 DEF fitsIn
<1>6. ToSet(us) \subseteq 1 .. Len(t)
  BY DEF ToSet
<1>7. (\A u \in ToSet(us) : fitsIn(s, p, u)) <=> (\A u \in ToSet(us) : fitsIn(t, p, u))
  BY <1>5, <1>6
<1> QED BY <1>4, <1>7 DEF passesIn

\* UnclesInv, for any tree.
BlockIn(t, i) ==
    /\ DOMAIN t[i] = {"parent", "number", "timestamp", "uncles", "ours"}
    /\ t[i].number \in Nat /\ t[i].timestamp \in Nat
    /\ i # 1 => /\ t[i].parent \in 1 .. i - 1
                /\ t[i].timestamp > t[t[i].parent].timestamp /\ t[i].number = t[t[i].parent].number + 1
                /\ t[i].uncles \in Seq(1 .. i - 1) /\ passesIn(t, t[i].parent, t[i].uncles)
TreeIs(t) ==
    /\ t = [i \in 1 .. Len(t) |-> t[i]] /\ Len(t) \in Nat \ {0}
    /\ t[1] = [parent |-> 0, number |-> 0, timestamp |-> 0, uncles |-> << >>, ours |-> FALSE]
    /\ \A i \in 1 .. Len(t) : BlockIn(t, i)

LEMMA InvIs == (UnclesInv <=> TreeIs(tree)) /\ (UnclesInv' <=> TreeIs(tree'))
<1>1. \A i : isBlock(i) <=> BlockIn(tree, i)
  BY InTheTree DEF isBlock, BlockIn, verify, genesisHash
<1>2. tree = [i \in 1 .. Len(tree) |-> tree[i]] => DOMAIN tree = 1 .. Len(tree)
  OBVIOUS
<1>3. UnclesInv <=> TreeIs(tree)
  BY <1>1, <1>2 DEF UnclesInv, TreeIs, genesisHash
<1>4. /\ \A h, n : ancestor(h, n)' = above(tree', h, n)
      /\ \A p, us : enactUncles(p, us)' = passesIn(tree', p, us)
  <2>1. \A h, n : ancestor(h, n)' = above(tree', h, n)
    BY DEF ancestor, parentOf, above, up
  <2>2. \A h : kinOf(h)' = kinIn(tree', h)
    BY DEF kinOf, kinIn, genesisHash
  <2>3. \A p : excludedBy(p)' = excludedIn(tree', p)
    BY <2>1, <2>2 DEF excludedBy, allKinFrom, excludedIn
  <2>4. \A p, u : uncleFits(p, u)' = fitsIn(tree', p, u)
    BY <2>1 DEF uncleFits, fitsIn
  <2>5. \A p, us : enactUncles(p, us)' = passesIn(tree', p, us)
    BY <2>3, <2>4 DEF enactUncles, passesIn
  <2> QED BY <2>1, <2>5
<1>5. \A i : isBlock(i)' <=> BlockIn(tree', i)
  BY <1>4 DEF isBlock, BlockIn, verify, genesisHash
<1>6. tree' = [i \in 1 .. Len(tree') |-> tree'[i]] => DOMAIN tree' = 1 .. Len(tree')
  OBVIOUS
<1>7. UnclesInv' <=> TreeIs(tree')
  BY <1>5, <1>6 DEF UnclesInv, TreeIs, genesisHash
<1> QED BY <1>3, <1>7

LEMMA ShapeIs ==
  ASSUME NEW t, TreeIs(t)
  PROVE  TreeShape(t)
<1>1. \A i \in 1 .. Len(t) : /\ t[i].number \in Nat
                             /\ i # 1 => t[i].parent \in 1 .. i - 1 /\ t[i].number = t[t[i].parent].number + 1
  BY DEF TreeIs, BlockIn
<1>2. t[1].parent = 0 /\ t[1].number = 0 /\ t[1].uncles = << >>
  BY DEF TreeIs
<1> QED BY <1>1, <1>2 DEF TreeIs, TreeShape

\* A block whose uncles pass makes the tree grow.
LEMMA GrowKeeps ==
  ASSUME NEW t, TreeIs(t), NEW p \in 1 .. Len(t), NEW us \in Seq(1 .. Len(t)), passesIn(t, p, us),
         NEW time \in Nat, time > t[p].timestamp, NEW own
  PROVE  TreeIs(Append(t, [parent |-> p, number |-> t[p].number + 1, timestamp |-> time, uncles |-> us, ours |-> own]))
<1> DEFINE b == [parent |-> p, number |-> t[p].number + 1, timestamp |-> time, uncles |-> us, ours |-> own]
           s == Append(t, b)
           l == Len(t)
<1>1. l \in Nat \ {0} /\ TreeShape(t) /\ t = [i \in 1 .. l |-> t[i]] /\ \A i \in 1 .. l : BlockIn(t, i)
  BY ShapeIs DEF TreeIs
<1>2. t \in Seq({t[i] : i \in 1 .. l} \union {b})
  <2> DEFINE S == {t[i] : i \in 1 .. l} \union {b}
  <2>1. t \in [1 .. l -> S]
    <3> HIDE DEF l, b
    <3> QED BY <1>1
  <2>2. l \in Nat
    BY <1>1
  <2> HIDE DEF S, l
  <2>3. t \in Seq(S)
    BY <2>1, <2>2
  <2> QED BY <2>3 DEF S, l
<1>3. s = [i \in 1 .. l + 1 |-> IF i = l + 1 THEN b ELSE t[i]] /\ Len(s) = l + 1
  <2> DEFINE S == {t[i] : i \in 1 .. l} \union {b}
  <2>1. t \in Seq(S) /\ b \in S
    BY <1>2
  <2> HIDE DEF S, b
  <2>2. /\ s \in Seq(S) /\ Len(s) = Len(t) + 1 /\ s[Len(t) + 1] = b
        /\ \A i \in 1 .. Len(t) : s[i] = t[i]
    BY <2>1, AppendProperties
  <2>3. s = [i \in 1 .. Len(s) |-> s[i]]
    <3> HIDE DEF s
    <3> QED BY <2>2
  <2>4. \A i \in 1 .. l + 1 : s[i] = IF i = l + 1 THEN b ELSE t[i]
    <3>1. \A i \in 1 .. l + 1 : i # l + 1 => i \in 1 .. l
      BY <1>1
    <3> HIDE DEF s
    <3> QED BY <2>2, <3>1
  <2> HIDE DEF s
  <2> QED BY <2>2, <2>3, <2>4
<1>4. Grown(t, s) /\ s[l + 1] = b /\ s = [i \in 1 .. l + 1 |-> s[i]]
  <2>1. \A i \in 1 .. l : i \in 1 .. l + 1 /\ i # l + 1
    BY <1>1
  <2>2. l + 1 \in 1 .. l + 1
    BY <1>1
  <2>3. s = [i \in 1 .. l + 1 |-> s[i]]
    BY <1>3
  <2> HIDE DEF s, b
  <2> QED BY <1>3, <2>1, <2>2, <2>3 DEF Grown
<1> HIDE DEF s
<1>5. 1 .. l + 1 = (1 .. l) \union {l + 1} /\ 1 \in 1 .. l /\ p \in 1 .. l
  BY <1>1
<1>6. /\ DOMAIN b = {"parent", "number", "timestamp", "uncles", "ours"} /\ b.number = t[p].number + 1
      /\ b.parent = p /\ b.timestamp = time /\ b.uncles = us
  OBVIOUS
<1>7. t[p].number \in Nat /\ t[p].number + 1 \in Nat /\ l + 1 # 1 /\ (l + 1) - 1 = l
  BY <1>1, <1>5 DEF BlockIn
<1> HIDE DEF b
<1>8. TreeShape(s)
  <2>1. s[1] = t[1]
    BY <1>4, <1>5 DEF Grown
  <2>2. ASSUME NEW i \in 1 .. l + 1
        PROVE  /\ s[i].number \in Nat
               /\ i # 1 => s[i].parent \in 1 .. i - 1 /\ s[i].number = s[s[i].parent].number + 1
    <3>1. CASE i \in 1 .. l
      <4>1. s[i] = t[i]
        BY <1>4, <3>1 DEF Grown
      <4>2. i # 1 => t[i].parent \in 1 .. i - 1 /\ t[i].number = t[t[i].parent].number + 1
        BY <1>1, <3>1 DEF TreeShape
      <4>3. i # 1 => t[i].parent \in 1 .. l
        BY <1>1, <3>1, <4>2
      <4>4. i # 1 => s[t[i].parent] = t[t[i].parent]
        BY <1>4, <4>3 DEF Grown
      <4>5. t[i].number \in Nat
        BY <1>1, <3>1 DEF TreeShape
      <4> QED BY <4>1, <4>2, <4>4, <4>5
    <3>2. CASE i = l + 1
      <4>1. s[i] = b /\ s[p] = t[p]
        BY <1>4, <1>5, <3>2 DEF Grown
      <4> QED BY <1>5, <1>6, <1>7, <3>2, <4>1
    <3> QED BY <1>5, <3>1, <3>2
  <2>3. Len(s) = l + 1 /\ l + 1 \in Nat \ {0}
    BY <1>1, <1>3
  <2>4. s[1].parent = 0 /\ s[1].number = 0 /\ s[1].uncles = << >>
    BY <1>1, <2>1 DEF TreeShape
  <2> HIDE DEF l
  <2> QED BY <1>4, <2>2, <2>3, <2>4 DEF TreeShape
<1>9. ASSUME NEW i \in 1 .. l + 1
      PROVE  BlockIn(s, i)
  <2>1. CASE i \in 1 .. l
    <3>1. s[i] = t[i] /\ BlockIn(t, i)
      BY <1>1, <1>4, <2>1 DEF Grown
    <3>2. CASE i = 1
      BY <3>1, <3>2 DEF BlockIn
    <3>3. CASE i # 1
      <4> DEFINE q == t[i].parent
                 vs == t[i].uncles
      <4>1. q \in 1 .. i - 1 /\ vs \in Seq(1 .. i - 1) /\ passesIn(t, q, vs)
        BY <3>1, <3>3 DEF BlockIn
      <4>2. q \in 1 .. l
        BY <1>1, <2>1, <4>1
      <4>3. vs \in Seq(1 .. l)
        <5>1. 1 .. i - 1 \subseteq 1 .. l
          BY <1>1, <2>1
        <5> DEFINE A == 1 .. i - 1
                   B == 1 .. l
        <5>2. vs \in Seq(A) /\ A \subseteq B
          BY <4>1, <5>1
        <5> HIDE DEF vs, A, B
        <5>3. Seq(A) \subseteq Seq(B)
          BY <5>2
        <5>4. vs \in Seq(B)
          BY <5>2, <5>3
        <5> QED BY <5>4 DEF B
      <4>4. passesIn(s, q, vs)
        <5> HIDE DEF q, vs
        <5> QED BY <1>1, <1>4, <1>8, <4>1, <4>2, <4>3, PassesSame
      <4>5. s[q] = t[q]
        BY <1>4, <4>2 DEF Grown
      <4> QED BY <3>1, <3>3, <4>4, <4>5 DEF BlockIn
    <3> QED BY <3>2, <3>3
  <2>2. CASE i = l + 1
    <3>1. s[i] = b /\ s[p] = t[p]
      BY <1>4, <1>5, <2>2 DEF Grown
    <3>2. passesIn(s, p, us)
      BY <1>1, <1>4, <1>8, PassesSame
    <3>3. p \in 1 .. i - 1 /\ us \in Seq(1 .. i - 1)
      BY <1>7, <2>2
    <3> QED BY <1>6, <1>7, <3>1, <3>2, <3>3 DEF BlockIn
  <2> QED BY <1>5, <2>1, <2>2
<1>10. s[1] = t[1]
  BY <1>4, <1>5 DEF Grown
<1>11. Len(s) = l + 1 /\ l + 1 \in Nat \ {0}
  BY <1>1, <1>3
<1>12. TreeIs(s)
  <2> HIDE DEF l
  <2> QED BY <1>4, <1>9, <1>10, <1>11 DEF TreeIs
<1> QED BY <1>12 DEF s, b

\* No chain rewards an uncle twice.
LEMMA RewardedOnceIn ==
  ASSUME NEW t, TreeIs(t), NEW i \in 1 .. Len(t), NEW n \in 1 .. t[i].number
  PROVE  LET j == above(t, i, n)
         IN  ToSet(t[i].uncles) \cap ToSet(t[j].uncles) = {} /\ j \notin ToSet(t[i].uncles)
<1> DEFINE j == above(t, i, n)
           p == t[i].parent
           l == Len(t)
           high == t[i].number
<1>1. TreeShape(t) /\ l \in Nat \ {0} /\ Generations \in Nat
  BY ShapeIs, UnclesAssumption DEF TreeIs
<1>2. high \in Nat /\ n \in Nat /\ n >= 1 /\ n <= high /\ t[1].number = 0
  <2>1. high \in Nat /\ t[1].number = 0
    BY <1>1 DEF TreeShape
  <2> QED BY <2>1
<1>3. i # 1
  BY <1>2
<1>4. p \in 1 .. i - 1 /\ p \in 1 .. l /\ t[p].number \in Nat /\ high = t[p].number + 1 /\ passesIn(t, p, t[i].uncles)
  <2>1. p \in 1 .. i - 1 /\ high = t[p].number + 1 /\ passesIn(t, p, t[i].uncles)
    BY <1>3 DEF TreeIs, BlockIn
  <2>2. p \in 1 .. l
    BY <1>1, <2>1
  <2> QED BY <1>1, <2>1, <2>2 DEF TreeShape
<1>5. j \in 1 .. l /\ j \in 1 .. i /\ t[j].number = high - n
  <2>1. j \in 1 .. i /\ t[j].number = high - n
    BY <1>1, <1>2, AboveIs
  <2> HIDE DEF j
  <2> QED BY <1>1, <2>1
\* The ancestors up to the parent of the oldest generation are excluded, and so is their kin.
<1>6. ASSUME NEW m \in Nat, m < Generations
      PROVE  kinIn(t, above(t, i, m + 1)) \subseteq excludedIn(t, p)
  <2>1. above(t, i, m + 1) = above(t, p, m)
    BY <1>1, AboveParent
  <2>2. m \in 0 .. Generations - 1
    BY <1>1, <1>6
  <2> QED BY <2>1, <2>2 DEF excludedIn
<1>7. ASSUME n <= Generations
      PROVE  j \in excludedIn(t, p)
  <2>1. CASE n = 1
    <3>1. above(t, i, 0 + 1) = above(t, p, 0) /\ above(t, p, 0) = p
      <4>1. p \in 0 .. l
        BY <1>1, <1>4
      <4> HIDE DEF p
      <4>2. above(t, p, 0) = p
        BY <1>1, <4>1, AboveSteps
      <4>3. 0 \in Nat
        OBVIOUS
      <4> QED BY <1>1, <4>2, <4>3, AboveParent DEF p
    <3>2. j = p
      BY <2>1, <3>1
    <3> QED BY <3>2 DEF excludedIn
  <2>2. CASE n # 1
    <3> DEFINE k == n - 1
               x == above(t, i, k)
    <3>1. k \in Nat /\ k >= 1 /\ k + 1 = n /\ k <= high
      BY <1>2, <2>2
    <3> HIDE DEF k
    <3>2. x \in 1 .. i /\ t[x].number = high - k
      BY <1>1, <3>1, AboveIs
    <3>3. i \in 0 .. l
      BY <1>1
    <3>4. j = IF x = 0 THEN 0 ELSE t[x].parent
      BY <1>1, <3>1, <3>3, AboveSteps
    <3> HIDE DEF x, j
    <3>5. x \notin {0, 1}
      BY <1>2, <3>1, <3>2
    <3>6. j \in kinIn(t, x)
      BY <3>4, <3>5 DEF kinIn
    <3>7. k - 1 \in Nat /\ k - 1 < Generations /\ (k - 1) + 1 = k
      BY <1>1, <1>2, <1>7, <3>1
    <3>8. kinIn(t, x) \subseteq excludedIn(t, p)
      BY <1>6, <3>7 DEF x
    <3> QED BY <3>6, <3>8
  <2> QED BY <2>1, <2>2
<1>8. ASSUME n <= Generations, j # 1
      PROVE  ToSet(t[j].uncles) \subseteq excludedIn(t, p)
  <2>1. n - 1 \in Nat /\ n - 1 < Generations /\ (n - 1) + 1 = n
    BY <1>1, <1>2, <1>8
  <2>2. kinIn(t, j) \subseteq excludedIn(t, p)
    BY <1>6, <2>1
  <2>3. j # 0
    BY <1>5
  <2> HIDE DEF j
  <2> QED BY <1>8, <2>2, <2>3 DEF kinIn
<1>9. ASSUME NEW u \in ToSet(t[i].uncles)
      PROVE  u \notin excludedIn(t, p) /\ t[u].number \in Nat /\ high - t[u].number \in 1 .. Generations
  <2>1. u \in 1 .. l
    <3>1. t[i].uncles \in Seq(1 .. i - 1)
      BY <1>3 DEF TreeIs, BlockIn
    <3>2. u \in 1 .. i - 1
      BY <1>9, <3>1 DEF ToSet
    <3> QED BY <1>1, <3>2
  <2>2. u \notin excludedIn(t, p) /\ fitsIn(t, p, u)
    BY <1>4, <1>9 DEF passesIn
  <2>3. t[u].number \in Nat
    BY <1>1, <2>1 DEF TreeShape
  <2>4. t[p].number + 1 - t[u].number \in 1 .. Generations
    BY <2>2 DEF fitsIn
  <2>5. t[p].number + 1 - t[u].number = high - t[u].number
    <3> DEFINE x == t[p].number
               y == t[u].number
    <3>1. x \in Nat /\ y \in Nat /\ high = x + 1
      BY <1>4, <2>3
    <3> HIDE DEF high, p, x, y
    <3>2. x + 1 - y = high - y
      BY <3>1
    <3> QED BY <3>2 DEF x, y
  <2> HIDE DEF high, p
  <2> QED BY <2>2, <2>3, <2>4, <2>5
<1> HIDE DEF j, p, high
<1>10. j \notin ToSet(t[i].uncles)
  <2> SUFFICES ASSUME j \in ToSet(t[i].uncles)
               PROVE  FALSE
    OBVIOUS
  <2>1. j \notin excludedIn(t, p) /\ high - t[j].number \in 1 .. Generations
    BY <1>9
  <2>2. n <= Generations
    BY <1>1, <1>2, <1>5, <2>1
  <2> QED BY <1>7, <2>1, <2>2
<1>11. ToSet(t[i].uncles) \cap ToSet(t[j].uncles) = {}
  <2> SUFFICES ASSUME NEW u \in ToSet(t[i].uncles), u \in ToSet(t[j].uncles)
               PROVE  FALSE
    OBVIOUS
  <2>1. j # 1
    <3> SUFFICES ASSUME j = 1
                 PROVE  FALSE
      OBVIOUS
    <3>1. t[j].uncles = << >>
      BY <1>1 DEF TreeShape
    <3> QED BY <3>1 DEF ToSet
  <2>2. t[j].uncles \in Seq(1 .. j - 1) /\ passesIn(t, t[j].parent, t[j].uncles) /\ t[j].parent \in 1 .. j - 1
        /\ t[j].number = t[t[j].parent].number + 1
    BY <1>5, <2>1 DEF TreeIs, BlockIn
  <2>3. t[j].number - t[u].number \in 1 .. Generations
    <3>1. fitsIn(t, t[j].parent, u)
      BY <2>2 DEF passesIn
    <3>2. t[t[j].parent].number + 1 - t[u].number \in 1 .. Generations
      BY <3>1 DEF fitsIn
    <3>3. t[j].number \in Nat /\ t[t[j].parent].number \in Nat
      <4>1. t[j].parent \in 1 .. l
        BY <1>1, <1>5, <2>2
      <4> QED BY <1>1, <1>5, <4>1 DEF TreeShape
    <3> DEFINE x == t[t[j].parent].number
               y == t[u].number
               z == t[j].number
    <3>4. x \in Nat /\ y \in Nat /\ z = x + 1 /\ x + 1 - y \in 1 .. Generations
      BY <1>9, <2>2, <3>2, <3>3
    <3> HIDE DEF x, y, z
    <3>5. z - y \in 1 .. Generations
      BY <3>4
    <3> QED BY <3>5 DEF y, z
  <2>4. u \notin excludedIn(t, p) /\ t[u].number \in Nat /\ high - t[u].number \in 1 .. Generations
    BY <1>9
  <2>5. n <= Generations
    BY <1>1, <1>2, <1>5, <2>3, <2>4
  <2> QED BY <1>8, <2>1, <2>4, <2>5
<1> QED BY <1>10, <1>11 DEF j

\* The next uncle and the uncles taken so far, for any tree.
pick(t, left) == Min({u \in left : \A v \in left : t[v].number <= t[u].number})
joined(t, F, us) == IF F \ ToSet(us) = {} THEN us ELSE Append(us, pick(t, F \ ToSet(us)))
taking(t, F, f, k) == IF k = 0 THEN << >> ELSE joined(t, F, f[k - 1])

\* Numbers have a least one.
LEMMA LeastNumber ==
  ASSUME NEW S \in SUBSET Nat, S # {}
  PROVE  \E x \in S : \A y \in S : x <= y
<1>1. PICK x \in S : \A y \in S : ~(<<y, x>> \in OpToRel(<, Nat))
  BY NatLessThanWellFounded, WFMin
<1>2. \A y \in S : ~(y < x)
  BY <1>1 DEF OpToRel
<1> QED BY <1>2

\* A block's number is less than its place.
LEMMA NumberIsLess ==
  ASSUME NEW t, TreeShape(t)
  PROVE  \A i \in 1 .. Len(t) : t[i].number < i
<1> DEFINE Good == {k \in Nat : \A i \in 1 .. Len(t) : i <= k => t[i].number < i}
<1>1. Len(t) \in Nat
  BY DEF TreeShape
<1>2. 0 \in Good
  BY <1>1
<1>3. ASSUME NEW k \in Nat, k \in Good
      PROVE  k + 1 \in Good
  <2> SUFFICES ASSUME NEW i \in 1 .. Len(t), i <= k + 1
               PROVE  t[i].number < i
    OBVIOUS
  <2>1. CASE i = 1
    BY <2>1 DEF TreeShape
  <2>2. CASE i # 1
    <3> DEFINE p == t[i].parent
    <3>1. p \in 1 .. i - 1 /\ t[i].number = t[p].number + 1
      BY <2>2 DEF TreeShape
    <3> HIDE DEF p
    <3>2. p \in 1 .. Len(t) /\ p <= k
      BY <1>1, <3>1
    <3>3. t[p].number < p /\ t[p].number \in Nat
      BY <1>3, <3>2 DEF TreeShape
    <3> QED BY <3>1, <3>3
  <2> QED BY <2>1, <2>2
<1>4. Nat \subseteq Good
  <2> HIDE DEF Good
  <2> QED BY <1>2, <1>3, EveryNumber
<1> QED BY <1>1, <1>4

LEMMA PickIs ==
  ASSUME NEW t, TreeShape(t), NEW left \in SUBSET (1 .. Len(t)), left # {}
  PROVE  pick(t, left) \in left
<1> DEFINE Bounds == {n \in Nat : \A v \in left : t[v].number <= n}
           Highest == {u \in left : \A v \in left : t[v].number <= t[u].number}
<1>1. Len(t) \in Nat /\ \A v \in left : t[v].number \in Nat /\ t[v].number <= Len(t)
  <2>1. Len(t) \in Nat
    BY DEF TreeShape
  <2>2. ASSUME NEW v \in left
        PROVE  t[v].number \in Nat /\ t[v].number <= Len(t)
    <3>1. v \in 1 .. Len(t) /\ t[v].number \in Nat /\ t[v].number < v
      BY NumberIsLess DEF TreeShape
    <3> QED BY <2>1, <3>1
  <2> QED BY <2>1, <2>2
<1>2. Len(t) \in Bounds
  BY <1>1
<1>3. PICK m \in Bounds : \A n \in Bounds : m <= n
  <2>1. Bounds \in SUBSET Nat /\ Bounds # {}
    BY <1>2
  <2> HIDE DEF Bounds
  <2> QED BY <2>1, LeastNumber
<1>4. \E u \in left : t[u].number = m
  <2> SUFFICES ASSUME \A u \in left : t[u].number # m
               PROVE  FALSE
    OBVIOUS
  <2>1. m \in Nat /\ \A u \in left : t[u].number < m
    BY <1>1
  <2>2. m - 1 \in Nat
    <3>1. PICK u \in left : TRUE
      OBVIOUS
    <3> QED BY <1>1, <2>1, <3>1
  <2>3. \A u \in left : t[u].number <= m - 1
    BY <1>1, <2>1
  <2>4. m - 1 \in Bounds
    BY <2>2, <2>3
  <2>5. m <= m - 1
    <3> HIDE DEF Bounds
    <3> QED BY <1>3, <2>4
  <2> QED BY <2>1, <2>5
<1>5. Highest # {} /\ Highest \in SUBSET Nat
  <2>1. PICK u \in left : t[u].number = m
    BY <1>4
  <2>2. \A v \in left : t[v].number <= m
    BY <1>3
  <2>3. u \in Highest
    BY <2>1, <2>2
  <2>4. Highest \in SUBSET Nat
    <3>1. 1 .. Len(t) \subseteq Nat
      BY <1>1
    <3>2. Highest \subseteq left
      OBVIOUS
    <3> HIDE DEF Highest
    <3> QED BY <3>1, <3>2
  <2> HIDE DEF Highest
  <2> QED BY <2>3, <2>4
<1> HIDE DEF Highest
<1>6. Min(Highest) \in Highest
  BY <1>5, LeastNumber DEF Min
<1>7. pick(t, left) = Min(Highest)
  BY DEF pick, Highest
<1> QED BY <1>6, <1>7 DEF Highest

LEMMA AppendNew ==
  ASSUME NEW F, NEW us \in Seq(F), IsInjective(us), NEW u \in F, u \notin ToSet(us)
  PROVE  /\ Append(us, u) \in Seq(F) /\ Len(Append(us, u)) = Len(us) + 1
         /\ IsInjective(Append(us, u))
<1> DEFINE vs == Append(us, u)
           n == Len(us)
<1>1. /\ vs \in Seq(F) /\ Len(vs) = n + 1 /\ n \in Nat /\ vs[n + 1] = u
      /\ \A i \in 1 .. n : vs[i] = us[i] /\ us[i] \in ToSet(us)
  BY AppendProperties DEF ToSet
<1>2. \A a, b \in 1 .. n : us[a] = us[b] => a = b
  BY DEF IsInjective
<1> HIDE DEF vs
<1>3. DOMAIN vs = 1 .. n + 1
  BY <1>1
<1>4. \A a \in 1 .. n + 1 : a \in 1 .. n \/ a = n + 1
  BY <1>1
<1>5. \A a, b \in 1 .. n + 1 : vs[a] = vs[b] => a = b
  <2> HIDE DEF n
  <2> QED BY <1>1, <1>2, <1>4
<1>6. IsInjective(vs)
  BY <1>3, <1>5 DEF IsInjective
<1> QED BY <1>1, <1>6 DEF vs

\* So many are taken, each once.
LEMMA TakenIs ==
  ASSUME NEW t, TreeShape(t), NEW F \in SUBSET (1 .. Len(t))
  PROVE  LET g == CHOOSE f : f = [k \in Nat |-> taking(t, F, f, k)]
         IN  \A k \in Nat : g[k] \in Seq(F) /\ Len(g[k]) <= k /\ IsInjective(g[k])
<1> DEFINE D == Seq(F)
           s == [us \in D |-> joined(t, F, us)]
<1>1. \A us \in D : /\ joined(t, F, us) \in D
                    /\ Len(joined(t, F, us)) <= Len(us) + 1
                    /\ IsInjective(us) => IsInjective(joined(t, F, us))
  <2> SUFFICES ASSUME NEW us \in D
               PROVE  /\ joined(t, F, us) \in D
                      /\ Len(joined(t, F, us)) <= Len(us) + 1
                      /\ IsInjective(us) => IsInjective(joined(t, F, us))
    OBVIOUS
  <2> DEFINE left == F \ ToSet(us)
             u == pick(t, left)
  <2>1. Len(us) \in Nat
    OBVIOUS
  <2>2. CASE left = {}
    BY <2>1, <2>2 DEF joined
  <2>3. CASE left # {}
    <3>1. u \in left
      <4>1. left \in SUBSET (1 .. Len(t))
        OBVIOUS
      <4> HIDE DEF left
      <4> QED BY <2>3, <4>1, PickIs
    <3>2. joined(t, F, us) = Append(us, u)
      BY <2>3 DEF joined
    <3>3. u \in F /\ u \notin ToSet(us)
      <4> HIDE DEF u
      <4> QED BY <3>1
    <3> HIDE DEF u
    <3>4. Append(us, u) \in Seq(F) /\ Len(Append(us, u)) = Len(us) + 1
      BY <3>3, AppendProperties
    <3>5. IsInjective(us) => IsInjective(Append(us, u))
      BY <3>3, AppendNew
    <3> QED BY <2>1, <3>2, <3>4, <3>5
  <2> QED BY <2>2, <2>3
<1>2. s \in [D -> D] /\ << >> \in D
  <2> HIDE DEF D
  <2>1. << >> \in D
    BY DEF D
  <2> QED BY <1>1, <2>1
<1>3. PICK f \in [Nat -> D] : repeats(f, << >>, s)
  <2> HIDE DEF D, s
  <2> QED BY <1>2, Repeated
<1>4. f = [k \in Nat |-> taking(t, F, f, k)]
  <2>1. \A k \in Nat : f[k] = taking(t, F, f, k)
    <3> SUFFICES ASSUME NEW k \in Nat
                 PROVE  f[k] = taking(t, F, f, k)
      OBVIOUS
    <3>1. k # 0 => k - 1 \in Nat
      OBVIOUS
    <3>2. k # 0 => f[k - 1] \in D
      <4> HIDE DEF D
      <4> QED BY <3>1
    <3>3. f[k] = IF k = 0 THEN << >> ELSE s[f[k - 1]]
      <4> HIDE DEF s
      <4> QED BY <1>3 DEF repeats
    <3>4. k # 0 => s[f[k - 1]] = joined(t, F, f[k - 1])
      <4> HIDE DEF D
      <4> QED BY <3>2
    <3> HIDE DEF s
    <3> QED BY <3>3, <3>4 DEF taking
  <2>2. f = [k \in Nat |-> f[k]]
    <3> HIDE DEF D
    <3> QED OBVIOUS
  <2> QED BY <2>1, <2>2
<1> DEFINE g == CHOOSE h : h = [k \in Nat |-> taking(t, F, h, k)]
<1>5. g = [k \in Nat |-> taking(t, F, g, k)]
  BY <1>4
<1> HIDE DEF g, s
<1>6. \A k \in Nat : g[k] = taking(t, F, g, k)
  BY <1>5
<1>7. g[0] = << >> /\ \A k \in Nat : g[k + 1] = joined(t, F, g[k])
  <2>1. g[0] = << >>
    BY <1>6 DEF taking
  <2>2. ASSUME NEW k \in Nat
        PROVE  g[k + 1] = joined(t, F, g[k])
    <3>1. k + 1 \in Nat /\ k + 1 # 0 /\ (k + 1) - 1 = k
      OBVIOUS
    <3>2. g[k + 1] = taking(t, F, g, k + 1)
      BY <1>6, <3>1
    <3> QED BY <3>1, <3>2 DEF taking
  <2> QED BY <2>1, <2>2
<1> DEFINE Good == {k \in Nat : g[k] \in D /\ Len(g[k]) <= k /\ IsInjective(g[k])}
<1>8. 0 \in Good
  <2>1. << >> \in D /\ Len(<< >>) = 0 /\ IsInjective(<< >>)
    BY DEF IsInjective
  <2> DEFINE e == g[0]
  <2>2. e = << >>
    BY <1>7
  <2> HIDE DEF D, e
  <2>3. e \in D /\ Len(e) <= 0 /\ IsInjective(e)
    BY <2>1, <2>2
  <2> QED BY <2>3 DEF e
<1>9. ASSUME NEW k \in Nat, k \in Good
      PROVE  k + 1 \in Good
  <2> DEFINE us == g[k]
             vs == g[k + 1]
  <2>1. us \in D /\ Len(us) <= k /\ IsInjective(us) /\ vs = joined(t, F, us)
    BY <1>7, <1>9
  <2> HIDE DEF us, vs
  <2>2. Len(us) \in Nat
    BY <2>1
  <2>3. vs \in D /\ Len(vs) <= Len(us) + 1 /\ IsInjective(vs)
    <3> HIDE DEF D
    <3> QED BY <1>1, <2>1
  <2>4. Len(vs) \in Nat
    BY <2>3
  <2>5. Len(vs) <= k + 1
    BY <2>1, <2>2, <2>3, <2>4
  <2> QED BY <2>3, <2>5 DEF vs
<1>10. Nat \subseteq Good
  <2> HIDE DEF Good
  <2> QED BY <1>8, <1>9, EveryNumber
<1> QED BY <1>10 DEF g

\* What commitToSeal chooses passes the test of enact.
LEMMA ChosenPass ==
  ASSUME UnclesInv, NEW p \in DOMAIN tree
  PROVE  chosenUncles(p) \in Seq(1 .. Len(tree)) /\ passesIn(tree, p, chosenUncles(p))
<1> DEFINE t == tree
           l == Len(t)
           F == freshUncles(p)
           us == chosenUncles(p)
<1>1. TreeIs(t) /\ TreeShape(t) /\ l \in Nat /\ p \in 1 .. l /\ p \in 0 .. l /\ t[p].number \in Nat /\ Generations \in Nat /\ MaxUncles \in Nat
  <2>1. TreeIs(t) /\ TreeShape(t)
    BY InvIs, ShapeIs
  <2>2. l \in Nat /\ p \in 1 .. l
    BY <2>1 DEF TreeIs
  <2> HIDE DEF t, l
  <2> QED BY <2>1, <2>2, UnclesAssumption DEF TreeShape, l
<1>2. ASSUME NEW u \in F
      PROVE  u \in 1 .. l /\ fitsIn(t, p, u) /\ u \notin excludedIn(t, p)
  <2>1. PICK g \in 1 .. Generations : u \in DOMAIN t /\ t[u].parent = above(t, p, g) /\ above(t, p, g) \notin {0, 1}
    BY <1>2, InTheTree DEF freshUncles, genesisHash
  <2>2. u \notin excludedIn(t, p)
    BY <1>2, InTheTree DEF freshUncles
  <2>3. u \in 1 .. l
    BY <1>1, <2>1 DEF TreeIs
  <2> DEFINE q == above(t, p, g)
  <2> HIDE DEF t, l
  <2>4. g \in Nat /\ g <= t[p].number /\ t[q].number = t[p].number - g
    BY <1>1, <2>1, AboveIs DEF l
  <2>5. u # 1
    BY <1>1, <2>1 DEF TreeShape
  <2>6. t[u].number = t[q].number + 1
    BY <1>1, <2>1, <2>3, <2>5 DEF TreeShape, l
  <2>7. t[p].number + 1 - t[u].number = g
    BY <1>1, <2>4, <2>6
  <2> QED BY <2>1, <2>2, <2>3, <2>7 DEF fitsIn
<1>3. us \in Seq(F) /\ Len(us) <= MaxUncles /\ IsInjective(us)
  <2>1. CASE t[p].number = 0
    <3>1. us = << >>
      BY <2>1 DEF chosenUncles
    <3>2. Len(<< >>) = 0 /\ << >> \in Seq(F) /\ IsInjective(<< >>)
      BY DEF IsInjective
    <3> HIDE DEF us, F
    <3> QED BY <1>1, <3>1, <3>2
  <2>2. CASE t[p].number # 0
    <3> DEFINE g == CHOOSE f : f = [k \in Nat |-> taking(t, F, f, k)]
    <3>1. us = g[MaxUncles]
      BY <2>2 DEF chosenUncles, taking, joined, pick, nearest
    <3>2. F \in SUBSET (1 .. Len(t))
      BY <1>2
    <3>3. g[MaxUncles] \in Seq(F) /\ Len(g[MaxUncles]) <= MaxUncles /\ IsInjective(g[MaxUncles])
      <4> HIDE DEF F, t
      <4> QED BY <1>1, <3>2, TakenIs
    <3> HIDE DEF us, g, F
    <3> QED BY <3>1, <3>3
  <2> QED BY <2>1, <2>2
<1> HIDE DEF us, F, t
<1>4. ToSet(us) \subseteq F
  BY <1>3 DEF ToSet
<1>5. us \in Seq(1 .. l)
  <2> DEFINE B == 1 .. l
  <2>1. F \subseteq B
    BY <1>2
  <2> HIDE DEF B, l
  <2>2. Seq(F) \subseteq Seq(B)
    BY <2>1
  <2>3. us \in Seq(B)
    BY <1>3, <2>2
  <2> QED BY <2>3 DEF B
<1>6. passesIn(t, p, us)
  BY <1>2, <1>3, <1>4 DEF passesIn
<1> QED BY <1>5, <1>6 DEF us, t

LEMMA UnclesStart == UnclesInit => UnclesInv
<1> SUFFICES ASSUME UnclesInit
             PROVE  UnclesInv
  OBVIOUS
<1> DEFINE g == [parent |-> 0, number |-> 0, timestamp |-> 0, uncles |-> << >>, ours |-> FALSE]
<1>1. tree = << g >>
  BY DEF UnclesInit
<1>2. DOMAIN g = {"parent", "number", "timestamp", "uncles", "ours"} /\ g.number = 0 /\ g.timestamp = 0
  OBVIOUS
<1> HIDE DEF g
<1>3. Len(tree) = 1 /\ tree[1] = g /\ tree = [i \in 1 .. 1 |-> tree[i]] /\ DOMAIN tree = {1}
  BY <1>1
<1>4. isBlock(1)
  BY <1>2, <1>3 DEF isBlock, genesisHash
<1> QED BY <1>3, <1>4 DEF UnclesInv, g, genesisHash

\* The later of two times.
LEMMA LaterOf ==
  ASSUME NEW a \in Nat, NEW b \in Nat
  PROVE  Max({a + 1, b}) \in Nat /\ Max({a + 1, b}) > a
<1>1. \E x \in {a + 1, b} : \A y \in {a + 1, b} : x >= y
  <2>1. CASE a + 1 >= b
    BY <2>1
  <2>2. CASE b >= a + 1
    BY <2>2
  <2> QED BY <2>1, <2>2
<1>2. Max({a + 1, b}) \in {a + 1, b} /\ \A y \in {a + 1, b} : Max({a + 1, b}) >= y
  BY <1>1 DEF Max
<1> QED BY <1>2

\* The fields of a block that are filled in later.
blockOf(p, n, time, us, own) == [parent |-> p, number |-> n, timestamp |-> time, uncles |-> us, ours |-> own]

LEMMA FilledIn ==
  ASSUME NEW p, NEW n, NEW time, NEW us
  PROVE  /\ [blockOf(p, n, time, << >>, FALSE) EXCEPT !.uncles = us] = blockOf(p, n, time, us, FALSE)
         /\ [blockOf(p, n, time, << >>, FALSE) EXCEPT !.uncles = us, !.ours = TRUE] = blockOf(p, n, time, us, TRUE)
<1> DEFINE b == blockOf(p, n, time, << >>, FALSE)
           Is(o) == [parent : {p}, number : {n}, timestamp : {time}, uncles : {us}, ours : {o}]
<1>1. b \in [parent : {p}, number : {n}, timestamp : {time}, uncles : {<< >>}, ours : {FALSE}]
  BY DEF blockOf
<1> HIDE DEF b
<1>2. [b EXCEPT !.uncles = us] \in Is(FALSE)
  BY <1>1
<1>3. [b EXCEPT !.uncles = us, !.ours = TRUE] \in Is(TRUE)
  BY <1>1
<1>4. \A o, r : r \in Is(o) => r = blockOf(p, n, time, us, o)
  BY DEF blockOf
<1> HIDE DEF Is
<1>5. [b EXCEPT !.uncles = us] = blockOf(p, n, time, us, FALSE)
  BY <1>2, <1>4
<1>6. [b EXCEPT !.uncles = us, !.ours = TRUE] = blockOf(p, n, time, us, TRUE)
  BY <1>3, <1>4
<1> QED BY <1>5, <1>6 DEF b

LEMMA CommitToSealKeeps ==
  ASSUME UnclesInv, NEW parent \in DOMAIN tree, NEW now \in Clocks, CommitToSeal(parent, now)
  PROVE  UnclesInv'
<1> DEFINE us == chosenUncles(parent)
           time == Max({tree[parent].timestamp + 1, now})
<1>1. TreeIs(tree) /\ parent \in 1 .. Len(tree) /\ tree[parent].timestamp \in Nat
  BY InvIs DEF TreeIs, BlockIn
<1>2. time \in Nat /\ time > tree[parent].timestamp
  BY <1>1, LaterOf, UnclesAssumption
<1>3. us \in Seq(1 .. Len(tree)) /\ passesIn(tree, parent, us)
  BY ChosenPass
<1>4. tree' = Append(tree, [parent |-> parent, number |-> tree[parent].number + 1, timestamp |-> time,
                            uncles |-> us, ours |-> TRUE])
  <2> DEFINE b == populateFromParent(parent, now)
  <2>1. tree' = Append(tree, [b EXCEPT !.uncles = us, !.ours = TRUE])
    BY DEF CommitToSeal
  <2>2. b = blockOf(parent, tree[parent].number + 1, time, << >>, FALSE)
    BY DEF populateFromParent, blockOf
  <2> HIDE DEF b, us, time
  <2>3. tree' = Append(tree, blockOf(parent, tree[parent].number + 1, time, us, TRUE))
    BY <2>1, <2>2, FilledIn
  <2> QED BY <2>3 DEF blockOf
<1> HIDE DEF us, time
<1>5. TreeIs(tree')
  BY <1>1, <1>2, <1>3, <1>4, GrowKeeps
<1> QED BY <1>5, InvIs

LEMMA EnactKeeps ==
  ASSUME UnclesInv, NEW parent \in DOMAIN tree, NEW now \in Clocks,
         NEW uncles \in BoundedSeq({u \in DOMAIN tree : uncleFits(parent, u)}, MaxUncles), Enact(parent, now, uncles)
  PROVE  UnclesInv'
<1> DEFINE time == Max({tree[parent].timestamp + 1, now})
<1>1. TreeIs(tree) /\ parent \in 1 .. Len(tree) /\ tree[parent].timestamp \in Nat /\ DOMAIN tree = 1 .. Len(tree)
  BY InvIs DEF TreeIs, BlockIn
<1>2. time \in Nat /\ time > tree[parent].timestamp
  BY <1>1, LaterOf, UnclesAssumption
<1>3. uncles \in Seq(1 .. Len(tree))
  <2>1. PICK m \in 0 .. MaxUncles : uncles \in [1 .. m -> {u \in DOMAIN tree : uncleFits(parent, u)}]
    BY DEF BoundedSeq, SeqOf
  <2>2. m \in Nat
    BY UnclesAssumption
  <2>3. uncles \in [1 .. m -> 1 .. Len(tree)]
    BY <1>1, <2>1
  <2> QED BY <2>2, <2>3
<1>4. passesIn(tree, parent, uncles)
  BY InTheTree DEF Enact
<1>5. tree' = Append(tree, [parent |-> parent, number |-> tree[parent].number + 1, timestamp |-> time,
                            uncles |-> uncles, ours |-> FALSE])
  <2> DEFINE b == populateFromParent(parent, now)
  <2>1. tree' = Append(tree, [b EXCEPT !.uncles = uncles])
    BY DEF Enact
  <2>2. b = blockOf(parent, tree[parent].number + 1, time, << >>, FALSE)
    BY DEF populateFromParent, blockOf
  <2> HIDE DEF b, time
  <2>3. tree' = Append(tree, blockOf(parent, tree[parent].number + 1, time, uncles, FALSE))
    BY <2>1, <2>2, FilledIn
  <2> QED BY <2>3 DEF blockOf
<1> HIDE DEF time
<1>6. TreeIs(tree')
  BY <1>1, <1>2, <1>3, <1>4, <1>5, GrowKeeps
<1> QED BY <1>6, InvIs

LEMMA UnclesStep ==
  ASSUME UnclesInv, [UnclesNext]_tree
  PROVE  UnclesInv'
<1>1. ASSUME NEW parent \in DOMAIN tree, NEW now \in Clocks, CommitToSeal(parent, now)
      PROVE  UnclesInv'
  BY <1>1, CommitToSealKeeps
<1>2. ASSUME NEW parent \in DOMAIN tree, NEW now \in Clocks,
             NEW uncles \in BoundedSeq({u \in DOMAIN tree : uncleFits(parent, u)}, MaxUncles), Enact(parent, now, uncles)
      PROVE  UnclesInv'
  BY <1>2, EnactKeeps
<1>3. CASE UNCHANGED tree
  BY <1>3, InvIs
<1> QED BY <1>1, <1>2, <1>3 DEF UnclesNext

LEMMA InvSound == UnclesInv => UnclesSound
<1> SUFFICES ASSUME UnclesInv
             PROVE  UnclesSound
  OBVIOUS
<1>1. TreeIs(tree) /\ DOMAIN tree = 1 .. Len(tree)
  BY InvIs DEF TreeIs
<1>2. OwnHeadersPass
  <2> SUFFICES ASSUME NEW i \in DOMAIN tree, tree[i].ours
               PROVE  verify(tree[i]) /\ enactUncles(tree[i].parent, tree[i].uncles)
    BY DEF OwnHeadersPass
  <2>1. i # genesisHash
    BY DEF UnclesInv, genesisHash
  <2> QED BY <2>1 DEF UnclesInv, isBlock
<1>3. UncleRewardedOnce
  <2> SUFFICES ASSUME NEW i \in DOMAIN tree, NEW n \in 1 .. tree[i].number
               PROVE  /\ ToSet(tree[i].uncles) \cap ToSet(tree[ancestor(i, n)].uncles) = {}
                      /\ ancestor(i, n) \notin ToSet(tree[i].uncles)
    BY DEF UncleRewardedOnce
  <2> QED BY <1>1, RewardedOnceIn, InTheTree
<1> QED BY <1>2, <1>3 DEF UnclesSound

\* However the tree grows and whatever clocks say, the uncles that commitToSeal
\* finds pass the test of enact, and no chain rewards an uncle twice or a block
\* of its own.  Block.cpp:718-811, 948-972, BlockHeader.cpp:124-155.
THEOREM UnclesAreFair == UnclesSpec => []UnclesSound
<1>1. UnclesInit => UnclesInv
  BY UnclesStart
<1>2. UnclesInv /\ [UnclesNext]_tree => UnclesInv'
  BY UnclesStep
<1>3. UnclesInv => UnclesSound
  BY InvSound
<1> QED BY <1>1, <1>2, <1>3, PTL DEF UnclesSpec
=============================================================================
