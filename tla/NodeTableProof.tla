----------------------------- MODULE NodeTableProof -----------------------------
(***************************************************************************)
(* Machine-checked proofs about dev::p2p::NodeTable, for any nodes, buckets, *)
(* bucket size, clients and timeouts.                                      *)
(*                                                                         *)
(* The invariant is TableInv.  TableSound is not inductive: a bucket holds *)
(* weak pointers, so that m_nodes may get a new, pending entry for an id   *)
(* whose old entry is in a bucket; that this leaves the bucket sound needs *)
(* that no bucket holds an entry newer than m_nodes (EntriesKnown).  That  *)
(* one eviction check is scheduled needs CheckHasReason: evict() schedules *)
(* one when the queue has just become non-empty.                           *)
(***************************************************************************)
EXTENDS NodeTable, FiniteSetTheorems, SequenceTheorems, WellFoundedInduction, TLAPS

\* Induction, as a fact about a set of numbers.
LEMMA AllNaturals ==
  ASSUME NEW S, 0 \in S, \A n \in Nat : n \in S => n + 1 \in S
  PROVE  Nat \subseteq S
<1> SUFFICES ASSUME Nat \ S # {}
             PROVE  FALSE
  OBVIOUS
<1>1. PICK n \in Nat \ S : \A m \in Nat \ S : ~(<<m, n>> \in OpToRel(<, Nat))
  BY NatLessThanWellFounded, WFMin
<1>2. n - 1 \in Nat
  OBVIOUS
<1>3. <<n - 1, n>> \in OpToRel(<, Nat)
  BY <1>2 DEF OpToRel
<1>4. n - 1 \in S
  BY <1>1, <1>2, <1>3
<1> QED BY <1>2, <1>4

\* The equations of left in without().
LEMMA WithoutExists ==
  ASSUME NEW bucket \in Seq(Entries), NEW gone
  PROVE  \E left \in [0 .. Len(bucket) -> Seq(Entries)] :
            \A i \in 0 .. Len(bucket) :
               left[i] = IF i = 0 THEN <<>>
                         ELSE IF bucket[i] \in gone THEN left[i - 1] ELSE Append(left[i - 1], bucket[i])
<1> DEFINE N == Len(bucket)
           Rec(g, n) == \A i \in 0 .. n : g[i] = IF i = 0 THEN <<>>
                             ELSE IF bucket[i] \in gone THEN g[i - 1] ELSE Append(g[i - 1], bucket[i])
           S == {n \in Nat : n > N \/ \E g \in [0 .. n -> Seq(Entries)] : Rec(g, n)}
<1>1. 0 \in S
  <2>1. [i \in 0 .. 0 |-> <<>>] \in [0 .. 0 -> Seq(Entries)]
    BY EmptySeq
  <2>2. Rec([i \in 0 .. 0 |-> <<>>], 0)
    OBVIOUS
  <2> QED BY <2>1, <2>2
<1>2. ASSUME NEW n \in Nat, n \in S
      PROVE  n + 1 \in S
  <2>1. CASE n + 1 > N
    BY <2>1
  <2>2. CASE n + 1 <= N
    <3>0. n + 1 \in 1 .. N /\ N \in Nat
      BY <2>2
    <3>1. PICK g \in [0 .. n -> Seq(Entries)] : Rec(g, n)
      BY <1>2, <3>0
    <3> DEFINE next == IF bucket[n + 1] \in gone THEN g[n] ELSE Append(g[n], bucket[n + 1])
               h == [i \in 0 .. n + 1 |-> IF i = n + 1 THEN next ELSE g[i]]
    <3>2. bucket[n + 1] \in Entries /\ g[n] \in Seq(Entries)
      BY <3>0, <3>1, ElementOfSeq
    <3>3. next \in Seq(Entries)
      BY <3>2, AppendProperties
    <3> HIDE DEF next
    <3>4. h \in [0 .. n + 1 -> Seq(Entries)]
      BY <3>1, <3>3
    <3>5. Rec(h, n + 1)
      <4> SUFFICES ASSUME NEW i \in 0 .. n + 1
                   PROVE  h[i] = IF i = 0 THEN <<>>
                             ELSE IF bucket[i] \in gone THEN h[i - 1] ELSE Append(h[i - 1], bucket[i])
        OBVIOUS
      <4>1. CASE i = n + 1
        <5>1. i - 1 = n /\ h[i - 1] = g[n] /\ h[i] = next /\ i # 0
          BY <4>1
        <5> QED BY <4>1, <5>1 DEF next
      <4>2. CASE i \in 0 .. n
        <5>1. h[i] = g[i] /\ (i # 0 => h[i - 1] = g[i - 1])
          BY <4>2
        <5> QED BY <3>1, <4>2, <5>1
      <4> QED BY <4>1, <4>2
    <3> HIDE DEF h, Rec
    <3> QED BY <3>4, <3>5
  <2> QED BY <2>1, <2>2
<1>3. N \in S
  <2> HIDE DEF S
  <2>1. Nat \subseteq S
    BY <1>1, <1>2, AllNaturals
  <2> QED BY <2>1
<1>4. PICK g \in [0 .. N -> Seq(Entries)] : Rec(g, N)
  BY <1>3
<1> QED BY <1>4

LEMMA WithoutIs ==
  ASSUME NEW bucket \in Seq(Entries), NEW gone
  PROVE  \E left :
            /\ without(bucket, gone) = left[Len(bucket)]
            /\ \A i \in 0 .. Len(bucket) :
                  left[i] = IF i = 0 THEN <<>>
                            ELSE IF bucket[i] \in gone THEN left[i - 1] ELSE Append(left[i - 1], bucket[i])
<1> DEFINE is(left) == left = [i \in 0 .. Len(bucket) |->
                         IF i = 0 THEN <<>>
                         ELSE IF bucket[i] \in gone THEN left[i - 1] ELSE Append(left[i - 1], bucket[i])]
           F == CHOOSE left : is(left)
<1>1. is(F)
  <2>1. PICK left \in [0 .. Len(bucket) -> Seq(Entries)] : \A i \in 0 .. Len(bucket) :
               left[i] = IF i = 0 THEN <<>>
                         ELSE IF bucket[i] \in gone THEN left[i - 1] ELSE Append(left[i - 1], bucket[i])
    BY WithoutExists
  <2>2. is(left)
    BY <2>1
  <2> HIDE DEF is
  <2> QED BY <2>2
<1>2. without(bucket, gone) = F[Len(bucket)]
  BY DEF without
<1>3. \A i \in 0 .. Len(bucket) :
         F[i] = IF i = 0 THEN <<>>
                ELSE IF bucket[i] \in gone THEN F[i - 1] ELSE Append(F[i - 1], bucket[i])
  <2> HIDE DEF F
  <2> QED BY <1>1
<1> QED BY <1>2, <1>3

\* A bucket from which entries are removed keeps its other entries, once.
LEMMA WithoutKeeps ==
  ASSUME NEW bucket \in Seq(Entries), NEW gone
  PROVE  LET rest == without(bucket, gone)
         IN  /\ rest \in Seq(Entries) /\ Len(rest) <= Len(bucket)
             /\ ToSet(rest) \subseteq ToSet(bucket) \ gone
             /\ IsInjective(bucket) => IsInjective(rest)
<1>1. PICK left :
        /\ without(bucket, gone) = left[Len(bucket)]
        /\ \A i \in 0 .. Len(bucket) :
              left[i] = IF i = 0 THEN <<>>
                        ELSE IF bucket[i] \in gone THEN left[i - 1] ELSE Append(left[i - 1], bucket[i])
  BY WithoutIs
<1> DEFINE N == Len(bucket)
           Elements(n) == {bucket[j] : j \in 1 .. n} \ gone
           Good(n) == /\ left[n] \in Seq(Entries) /\ Len(left[n]) <= n
                      /\ \A i \in 1 .. Len(left[n]) : left[n][i] \in Elements(n)
                      /\ IsInjective(bucket) => IsInjective(left[n])
           S == {n \in Nat : n > N \/ Good(n)}
<1>2. 0 \in S
  <2>1. left[0] = <<>>
    BY <1>1
  <2>2. left[0] \in Seq(Entries) /\ Len(left[0]) = 0 /\ DOMAIN left[0] = {}
    BY <2>1, EmptySeq
  <2> HIDE DEF Elements
  <2>3. Good(0)
    BY <2>2 DEF IsInjective
  <2> QED BY <2>3
<1>3. ASSUME NEW n \in Nat, n \in S
      PROVE  n + 1 \in S
  <2>1. CASE n + 1 > N
    BY <2>1
  <2>2. CASE n + 1 <= N
    <3>0. n + 1 \in 1 .. N /\ N \in Nat /\ n \in 0 .. N /\ n + 1 \in 0 .. N /\ (n + 1) - 1 = n
      BY <2>2
    <3> DEFINE x == bucket[n + 1]
               s == left[n]
    <3>1. Good(n)
      BY <1>3, <3>0
    <3>2. x \in Entries
      BY <3>0, ElementOfSeq
    <3>3. left[n + 1] = IF x \in gone THEN s ELSE Append(s, x)
      BY <1>1, <3>0
    <3>4. Elements(n + 1) = Elements(n) \cup ({x} \ gone)
      <4>1. 1 .. n + 1 = 1 .. n \cup {n + 1}
        BY <3>0
      <4> QED BY <4>1
    <3>5. CASE x \in gone
      <4>1. left[n + 1] = left[n]
        BY <3>3, <3>5
      <4>2. Len(left[n]) \in Nat
        BY <3>1, LenProperties
      <4> QED BY <3>0, <3>1, <3>4, <4>1, <4>2
    <3>6. CASE x \notin gone
      <4>1. /\ left[n + 1] = Append(s, x) /\ s \in Seq(Entries) /\ Len(s) <= n /\ Len(s) \in Nat
            /\ DOMAIN s = 1 .. Len(s)
        BY <3>1, <3>3, <3>6, LenProperties
      <4>2. /\ Append(s, x) \in Seq(Entries) /\ Len(Append(s, x)) = Len(s) + 1
            /\ \A i \in 1 .. Len(s) : Append(s, x)[i] = s[i]
            /\ Append(s, x)[Len(s) + 1] = x
            /\ DOMAIN Append(s, x) = 1 .. Len(s) + 1
        BY <3>2, <4>1, AppendProperties, LenProperties
      <4>3. \A i \in 1 .. Len(s) + 1 : i \in 1 .. Len(s) \/ i = Len(s) + 1
        BY <4>1
      <4>4. \A i \in 1 .. Len(s) + 1 : Append(s, x)[i] \in Elements(n + 1)
        BY <3>1, <3>4, <3>6, <4>2, <4>3
      <4>5. ASSUME IsInjective(bucket)
            PROVE  IsInjective(Append(s, x))
        <5>1. \A i \in 1 .. Len(s) : s[i] # x
          <6> SUFFICES ASSUME NEW i \in 1 .. Len(s), s[i] = x
                       PROVE  FALSE
            OBVIOUS
          <6>1. PICK j \in 1 .. n : x = bucket[j]
            BY <3>1
          <6>2. j \in DOMAIN bucket /\ n + 1 \in DOMAIN bucket /\ j # n + 1
            BY <3>0, LenProperties
          <6> QED BY <4>5, <6>1, <6>2 DEF IsInjective
        <5>2. IsInjective(s)
          BY <3>1, <4>5
        <5> HIDE DEF s, x
        <5> SUFFICES ASSUME NEW i \in 1 .. Len(s) + 1, NEW j \in 1 .. Len(s) + 1,
                            Append(s, x)[i] = Append(s, x)[j]
                     PROVE  i = j
          BY <4>2 DEF IsInjective
        <5> QED BY <4>1, <4>2, <4>3, <5>1, <5>2 DEF IsInjective
      <4> HIDE DEF Elements
      <4>6. IsInjective(bucket) => IsInjective(left[n + 1])
        BY <4>1, <4>5
      <4>7. /\ left[n + 1] \in Seq(Entries) /\ Len(left[n + 1]) <= n + 1
            /\ \A i \in 1 .. Len(left[n + 1]) : left[n + 1][i] \in Elements(n + 1)
        BY <4>1, <4>2, <4>4
      <4>8. Good(n + 1)
        BY <4>6, <4>7
      <4> QED BY <3>0, <4>8
    <3> QED BY <3>5, <3>6
  <2> QED BY <2>1, <2>2
<1>4. Good(N)
  <2>1. Nat \subseteq S
    <3> HIDE DEF S
    <3> QED BY <1>2, <1>3, AllNaturals
  <2>2. N \in Nat /\ ~(N > N)
    BY LenProperties
  <2> QED BY <2>1, <2>2
<1>5. ToSet(left[N]) \subseteq ToSet(bucket) \ gone
  <2>1. DOMAIN left[N] = 1 .. Len(left[N]) /\ DOMAIN bucket = 1 .. N
    BY <1>4, LenProperties
  <2> QED BY <1>4, <2>1 DEF ToSet
<1> QED BY <1>1, <1>4, <1>5

\* A set of numbers has a least one.
LEMMA Least ==
  ASSUME NEW S \in SUBSET Nat, S # {}
  PROVE  Min(S) \in S /\ \A x \in S : Min(S) <= x
<1>1. PICK n \in S : \A m \in S : ~(<<m, n>> \in OpToRel(<, Nat))
  BY NatLessThanWellFounded, WFMin
<1>2. \A m \in S : <<m, n>> \in OpToRel(<, Nat) <=> m < n
  BY DEF OpToRel
<1>3. n \in Nat /\ \A m \in S : m \in Nat /\ ~(m < n)
  BY <1>1, <1>2
<1>4. n \in S /\ \A m \in S : n <= m
  BY <1>3
<1> QED BY <1>4 DEF Min

\* What remove_if leaves of a bucket with its flag that stays set.
LEMMA AfterRemoveIf ==
  ASSUME NEW bucket \in Seq(Entries), NEW e \in Entries, IsInjective(bucket)
  PROVE  LET kept == afterRemoveIf(bucket, e)
         IN  /\ kept \in Seq(Entries) /\ Len(kept) <= Len(bucket) /\ IsInjective(kept)
             /\ ToSet(kept) \subseteq ToSet(bucket) \ {e}
<1> DEFINE kept == afterRemoveIf(bucket, e)
<1>0. Len(bucket) \in Nat /\ DOMAIN bucket = 1 .. Len(bucket)
  BY LenProperties
<1>1. CASE ~Contains(bucket, e)
  <2>1. kept = bucket
    BY <1>1 DEF afterRemoveIf
  <2>2. e \notin ToSet(bucket)
    BY <1>0, <1>1 DEF Contains, ToSet
  <2> QED BY <1>0, <2>1, <2>2
<1>2. CASE Contains(bucket, e)
  <2> DEFINE at == {i \in 1 .. Len(bucket) : bucket[i] = e}
             first == Min(at)
  <2>1. at # {} /\ at \subseteq Nat
    BY <1>0, <1>2 DEF Contains
  <2>2. first \in at /\ \A i \in at : first <= i
    <3> HIDE DEF at
    <3> QED BY <2>1, Least
  <2>3. kept = SubSeq(bucket, 1, first - 1)
    BY <1>2, <2>1 DEF afterRemoveIf, SelectInSeq
  <2>4. first \in 1 .. Len(bucket) /\ first - 1 \in 0 .. Len(bucket)
    BY <1>0, <2>2
  <2> HIDE DEF first
  <2>5. /\ kept \in Seq(Entries) /\ Len(kept) = first - 1 /\ DOMAIN kept = 1 .. first - 1
        /\ \A i \in 1 .. first - 1 : kept[i] = bucket[i]
    <3>1. /\ SubSeq(bucket, 1, first - 1) \in Seq(Entries)
          /\ Len(SubSeq(bucket, 1, first - 1)) = first - 1
          /\ \A i \in 1 .. first - 1 : SubSeq(bucket, 1, first - 1)[i] = bucket[i]
      BY <1>0, <2>4
    <3> HIDE DEF kept
    <3>2. DOMAIN kept = 1 .. Len(kept)
      BY <2>3, <3>1, LenProperties
    <3> QED BY <2>3, <3>1, <3>2
  <2>6. \A i \in 1 .. first - 1 : i \in 1 .. Len(bucket) /\ bucket[i] # e
    BY <1>0, <2>2, <2>4
  <2> HIDE DEF kept
  <2>7. IsInjective(kept)
    BY <1>0, <2>5, <2>6 DEF IsInjective
  <2>8. ToSet(kept) \subseteq ToSet(bucket) \ {e}
    BY <1>0, <2>5, <2>6 DEF ToSet
  <2>9. Len(kept) <= Len(bucket)
    BY <1>0, <2>4, <2>5
  <2> QED BY <2>5, <2>7, <2>8, <2>9 DEF kept
<1> QED BY <1>1, <1>2

\* A bucket to which an entry that it does not hold is added at the back.
LEMMA PushedBack ==
  ASSUME NEW s \in Seq(Entries), NEW e \in Entries, IsInjective(s), e \notin ToSet(s)
  PROVE  /\ Append(s, e) \in Seq(Entries) /\ Len(Append(s, e)) = Len(s) + 1
         /\ IsInjective(Append(s, e)) /\ ToSet(Append(s, e)) = ToSet(s) \cup {e}
<1>1. /\ Len(s) \in Nat /\ DOMAIN s = 1 .. Len(s)
      /\ Append(s, e) \in Seq(Entries) /\ Len(Append(s, e)) = Len(s) + 1
      /\ DOMAIN Append(s, e) = 1 .. Len(s) + 1
      /\ \A i \in 1 .. Len(s) : Append(s, e)[i] = s[i]
      /\ Append(s, e)[Len(s) + 1] = e
  BY AppendProperties, LenProperties
<1>2. \A i \in 1 .. Len(s) + 1 : i \in 1 .. Len(s) \/ i = Len(s) + 1
  BY <1>1
<1>3. \A i \in 1 .. Len(s) : s[i] # e
  BY <1>1 DEF ToSet
<1>4. IsInjective(Append(s, e))
  BY <1>1, <1>2, <1>3 DEF IsInjective
<1>5. ToSet(Append(s, e)) = ToSet(s) \cup {e}
  BY <1>1, <1>2 DEF ToSet
<1> QED BY <1>1, <1>4, <1>5

\* A bucket without its least recently seen entry.
LEMMA WithoutHead ==
  ASSUME NEW s \in Seq(Entries), s # <<>>, IsInjective(s)
  PROVE  /\ Tail(s) \in Seq(Entries) /\ Len(Tail(s)) = Len(s) - 1
         /\ IsInjective(Tail(s)) /\ ToSet(Tail(s)) \subseteq ToSet(s)
<1>1. /\ Len(s) \in Nat /\ Len(s) # 0 /\ DOMAIN s = 1 .. Len(s)
      /\ Tail(s) \in Seq(Entries) /\ Len(Tail(s)) = Len(s) - 1
      /\ \A i \in 1 .. Len(Tail(s)) : Tail(s)[i] = s[i + 1]
  BY HeadTailProperties, LenProperties
<1>2. DOMAIN Tail(s) = 1 .. Len(s) - 1
  BY <1>1, LenProperties
<1>3. \A i \in 1 .. Len(s) - 1 : i + 1 \in 1 .. Len(s)
  BY <1>1
<1>4. IsInjective(Tail(s))
  BY <1>1, <1>2, <1>3 DEF IsInjective
<1>5. ToSet(Tail(s)) \subseteq ToSet(s)
  BY <1>1, <1>2, <1>3 DEF ToSet
<1> QED BY <1>1, <1>4, <1>5

-----------------------------------------------------------------------------
(* What each operation keeps.                                              *)

NodeMap == [Nodes -> [gen : 0 .. MaxGen, pending : BOOLEAN]]

\* What the invariant says of one entry of a bucket.
EntryOK(nodes, last, b, e) ==
    /\ bucketOf[e.id] = b /\ e.id # Self /\ e.gen <= nodes[e.id].gen
    /\ e = entryOf(nodes, e.id) => ~nodes[e.id].pending /\ last[e.id] = "added"

\* What it says of a bucket.
BucketOK(nodes, last, b, s) ==
    /\ s \in Seq(Entries) /\ Len(s) <= s_bucketSize /\ IsInjective(s)
    /\ \A e \in ToSet(s) : EntryOK(nodes, last, b, e)

\* What it says of the table, and of what the Host was told of its nodes.
TableOK(nodes, last, state) ==
    /\ state \in [Bins -> Seq(Entries)]
    /\ last \in [Nodes -> {"none", "added", "dropped"}]
    /\ \A b \in Bins : BucketOK(nodes, last, b, state[b])

\* And of the evictions.
EvictionsOK(evictions, timer) ==
    /\ evictions \in Seq([leastSeen : Nodes, newcomer : Nodes, age : Ages])
    /\ timer \in {0, 1} /\ (evictions = <<>> => timer = 0)

OthersOK ==
    /\ m_nodes \in NodeMap
    /\ m_pubkDiscoverPings \subseteq Nodes /\ m_findNodeTimeout \subseteq Nodes \X BOOLEAN
    /\ discovery \in 0 .. s_maxSteps /\ tried \subseteq Entries
    /\ adding \in [Clients -> Nodes \cup {None}] /\ toRestore \subseteq Restored

\* The members of a sequence of entries are entries.
LEMMA MembersAreEntries ==
  ASSUME NEW s \in Seq(Entries)
  PROVE  ToSet(s) \subseteq Entries
<1> SUFFICES ASSUME NEW i \in DOMAIN s
             PROVE  s[i] \in Entries
  BY DEF ToSet
<1> QED BY ElementOfSeq, LenProperties

\* TableInv, by table, evictions and the rest.
LEMMA InvParts ==
  TableInv <=> /\ TableOK(m_nodes, lastEvent, m_state)
               /\ EvictionsOK(m_evictions, checkTimer)
               /\ OthersOK
<1>1. m_state \in [Bins -> Seq(Entries)] =>
        ((BucketsSound /\ OnlyAnsweredInTable /\ TabledNodesAnnounced /\ EntriesKnown)
          <=> \A b \in Bins : BucketOK(m_nodes, lastEvent, b, m_state[b]))
  BY DEF BucketsSound, OnlyAnsweredInTable, TabledNodesAnnounced, EntriesKnown, BucketOK,
         EntryOK, entriesOf
<1>2. (checkTimer \in Nat /\ OneCheckScheduled) <=> checkTimer \in {0, 1}
  BY DEF OneCheckScheduled
<1> QED
  BY <1>1, <1>2, Zenon DEF TableInv, TypeOK, TableSound, TableOK, EvictionsOK, OthersOK, NodeMap,
     CheckHasReason

\* A table stays sound when entries are replaced by new ones, or answer.
Later(nodes, new) ==
    \A n \in Nodes : \/ new[n].gen > nodes[n].gen
                     \/ new[n].gen = nodes[n].gen /\ (new[n].pending => nodes[n].pending)

LEMMA LaterKeeps ==
  ASSUME NEW nodes \in NodeMap, NEW new \in NodeMap, NEW last, NEW state,
         Later(nodes, new), TableOK(nodes, last, state)
  PROVE  TableOK(new, last, state)
<1> SUFFICES ASSUME NEW b \in Bins, NEW e \in ToSet(state[b])
             PROVE  EntryOK(new, last, b, e)
  BY DEF TableOK, BucketOK
<1>1. e \in Entries /\ EntryOK(nodes, last, b, e)
  BY MembersAreEntries DEF TableOK, BucketOK
<1>2. e.id \in Nodes /\ e.gen \in Nat
  BY <1>1, SizesAssumption DEF Entries
<1>3. /\ nodes[e.id].gen \in Nat /\ new[e.id].gen \in Nat
      /\ nodes[e.id].pending \in BOOLEAN /\ new[e.id].pending \in BOOLEAN
  BY <1>2, SizesAssumption DEF NodeMap
<1>4. \/ new[e.id].gen > nodes[e.id].gen
      \/ new[e.id].gen = nodes[e.id].gen /\ (new[e.id].pending => nodes[e.id].pending)
  BY <1>2 DEF Later
<1>5. CASE new[e.id].gen > nodes[e.id].gen
  <2>1. e.gen < new[e.id].gen
    BY <1>1, <1>2, <1>3, <1>5 DEF EntryOK
  <2>2. e # entryOf(new, e.id)
    BY <1>2, <1>3, <2>1 DEF entryOf
  <2>3. e.gen <= new[e.id].gen
    BY <1>2, <1>3, <2>1
  <2> QED BY <1>1, <2>2, <2>3 DEF EntryOK
<1>6. CASE new[e.id].gen = nodes[e.id].gen /\ (new[e.id].pending => nodes[e.id].pending)
  <2>1. entryOf(new, e.id) = entryOf(nodes, e.id)
    BY <1>6 DEF entryOf
  <2> QED BY <1>1, <1>6, <2>1 DEF EntryOK
<1> QED BY <1>4, <1>5, <1>6

\* m_nodes[n] = make_shared<NodeEntry>(...).
LEMMA Inserted ==
  ASSUME OthersOK, NEW ns \in SUBSET Nodes, roomFor(ns), NEW pending \in BOOLEAN
  PROVE  /\ insertEntries(ns, pending) \in NodeMap
         /\ Later(m_nodes, insertEntries(ns, pending))
<1> DEFINE new == insertEntries(ns, pending)
<1>1. ASSUME NEW n \in Nodes
      PROVE  /\ new[n] \in [gen : 0 .. MaxGen, pending : BOOLEAN]
             /\ new[n].gen > m_nodes[n].gen \/ new[n] = m_nodes[n]
  <2>1. m_nodes[n] \in [gen : 0 .. MaxGen, pending : BOOLEAN]
    BY DEF OthersOK, NodeMap
  <2>2. CASE n \in ns
    <3>1. new[n] = [gen |-> m_nodes[n].gen + 1, pending |-> pending]
      BY <2>2 DEF insertEntries
    <3>2. m_nodes[n].gen \in 0 .. MaxGen /\ m_nodes[n].gen < MaxGen /\ MaxGen \in Nat
      BY <2>1, <2>2, SizesAssumption DEF roomFor
    <3>3. m_nodes[n].gen + 1 \in 0 .. MaxGen /\ m_nodes[n].gen + 1 > m_nodes[n].gen
      BY <3>2
    <3> QED BY <3>1, <3>3
  <2>3. CASE n \notin ns
    BY <2>1, <2>3 DEF insertEntries
  <2> QED BY <2>2, <2>3
<1>2. new \in [Nodes -> [gen : 0 .. MaxGen, pending : BOOLEAN]]
  BY <1>1 DEF insertEntries
<1>3. Later(m_nodes, new)
  BY <1>1 DEF Later
<1> QED BY <1>2, <1>3 DEF NodeMap

\* push_back of an active node that the rest of its bucket does not hold.
LEMMA PushBackKeeps ==
  ASSUME NEW nodes \in NodeMap, NEW n \in Nodes, isActive(nodes, n),
         TableOK(nodes, lastEvent, m_state),
         NEW s \in Seq(Entries), IsInjective(s), Len(s) < s_bucketSize,
         ToSet(s) \subseteq ToSet(m_state[bucketOf[n]]) \ {entryOf(nodes, n)},
         pushBack(bucketOf[n], s, entryOf(nodes, n),
                  Contains(m_state[bucketOf[n]], entryOf(nodes, n)))
  PROVE  TableOK(nodes, lastEvent', m_state')
<1> DEFINE e == entryOf(nodes, n)
           b == bucketOf[n]
           t == Append(s, e)
<1>1. /\ b \in Bins /\ e \in Entries /\ e.id = n /\ e.gen = nodes[n].gen /\ nodes[n].gen \in Nat
      /\ n # Self /\ ~nodes[n].pending
  <2>1. nodes[n].gen \in 0 .. MaxGen /\ nodes[n].gen > 0 /\ MaxGen \in Nat
    BY SizesAssumption DEF isActive, haveNode, NodeMap
  <2>2. nodes[n].gen \in 1 .. MaxGen
    BY <2>1
  <2> QED BY <2>1, <2>2, NodesAssumption DEF isActive, entryOf, Entries
<1>2. /\ t \in Seq(Entries) /\ IsInjective(t) /\ ToSet(t) = ToSet(s) \cup {e}
      /\ Len(t) = Len(s) + 1
  BY <1>1, PushedBack
<1>3. Len(t) <= s_bucketSize
  BY <1>2, LenProperties, SizesAssumption
<1>4. m_state' = [m_state EXCEPT ![b] = t]
  BY DEF pushBack
<1>5. /\ lastEvent' \in [Nodes -> {"none", "added", "dropped"}] /\ lastEvent'[n] = "added"
      /\ \A x \in Nodes : lastEvent[x] = "added" => lastEvent'[x] = "added"
  <2>1. CASE Contains(m_state[b], e)
    <3>1. e \in ToSet(m_state[b])
      <4>1. m_state[b] \in Seq(Entries)
        BY <1>1 DEF TableOK
      <4> QED BY <2>1, <4>1, LenProperties DEF Contains, ToSet
    <3>2. EntryOK(nodes, lastEvent, b, e)
      BY <1>1, <3>1 DEF TableOK, BucketOK
    <3>3. lastEvent[n] = "added"
      BY <1>1, <3>2 DEF EntryOK
    <3>4. lastEvent' = lastEvent
      BY <2>1 DEF pushBack
    <3> QED BY <3>3, <3>4 DEF TableOK
  <2>2. CASE ~Contains(m_state[b], e)
    <3>1. lastEvent' = [lastEvent EXCEPT ![n] = "added"]
      BY <1>1, <2>2 DEF pushBack
    <3> QED BY <3>1 DEF TableOK
  <2> QED BY <2>1, <2>2
<1>6. m_state' \in [Bins -> Seq(Entries)]
  BY <1>2, <1>4 DEF TableOK
<1>7. ASSUME NEW d \in Bins, NEW x \in ToSet(m_state[d]), EntryOK(nodes, lastEvent, d, x),
             x \in Entries
      PROVE  EntryOK(nodes, lastEvent', d, x)
  <2>1. x.id \in Nodes
    BY <1>7 DEF Entries
  <2> QED BY <1>5, <1>7, <2>1 DEF EntryOK
<1>8. EntryOK(nodes, lastEvent', b, e)
  <2>1. e.gen <= nodes[e.id].gen
    BY <1>1
  <2> QED BY <1>1, <1>5, <2>1 DEF EntryOK
<1>9. ASSUME NEW d \in Bins
      PROVE  BucketOK(nodes, lastEvent', d, m_state'[d])
  <2>0. /\ BucketOK(nodes, lastEvent, d, m_state[d])
        /\ \A x \in ToSet(m_state[d]) : EntryOK(nodes, lastEvent', d, x)
    <3>1. BucketOK(nodes, lastEvent, d, m_state[d])
      BY DEF TableOK
    <3>2. ToSet(m_state[d]) \subseteq Entries
      BY <3>1, MembersAreEntries DEF BucketOK
    <3> QED BY <1>7, <3>1, <3>2 DEF BucketOK
  <2>1. CASE d = b
    <3>1. m_state'[d] = t
      BY <1>4, <2>1 DEF TableOK
    <3>2. \A x \in ToSet(t) : EntryOK(nodes, lastEvent', d, x)
      BY <1>2, <1>8, <2>0, <2>1
    <3> HIDE DEF t
    <3> QED BY <1>2, <1>3, <3>1, <3>2 DEF BucketOK
  <2>2. CASE d # b
    <3>1. m_state'[d] = m_state[d]
      BY <1>4, <2>2 DEF TableOK
    <3> QED BY <2>0, <3>1 DEF BucketOK
  <2> QED BY <2>1, <2>2
<1> QED BY <1>5, <1>6, <1>9 DEF TableOK

\* evict() of a node whose bucket is full.
LEMMA EvictKeeps ==
  ASSUME EvictionsOK(m_evictions, checkTimer), NEW least \in Nodes, NEW n \in Nodes,
         evict(least, n)
  PROVE  EvictionsOK(m_evictions', checkTimer')
<1> DEFINE R == [leastSeen : Nodes, newcomer : Nodes, age : Ages]
           r == [leastSeen |-> least, newcomer |-> n, age |-> 0]
<1>1. r \in R
  <2>1. 0 \in Ages
    BY SizesAssumption DEF Ages
  <2> QED BY <2>1
<1>2. /\ m_evictions \in Seq(R) /\ m_evictions' = Append(m_evictions, r)
      /\ checkTimer' = IF Len(m_evictions') = 1 THEN checkTimer + 1 ELSE checkTimer
  BY DEF EvictionsOK, evict
<1> HIDE DEF R, r
<1>3. /\ m_evictions' \in Seq(R) /\ Len(m_evictions') = Len(m_evictions) + 1
      /\ Len(m_evictions) \in Nat
  BY <1>1, <1>2, AppendProperties, LenProperties
<1>4. m_evictions' # <<>>
  BY <1>3, EmptySeq
<1>5. checkTimer' \in {0, 1}
  <2>1. CASE Len(m_evictions') = 1
    <3>1. Len(m_evictions) = 0
      <4> DEFINE old == Len(m_evictions)
                 new == Len(m_evictions')
      <4>1. new = 1 /\ new = old + 1 /\ old \in Nat
        BY <1>3, <2>1
      <4> HIDE DEF old, new
      <4>2. old = 0
        BY <4>1
      <4> QED BY <4>2 DEF old
    <3>2. m_evictions = <<>>
      BY <1>2, <3>1, EmptySeq
    <3> QED BY <1>2, <2>1, <3>2 DEF EvictionsOK
  <2>2. CASE Len(m_evictions') # 1
    BY <1>2, <2>2 DEF EvictionsOK
  <2> QED BY <2>1, <2>2
<1> QED BY <1>3, <1>4, <1>5 DEF EvictionsOK, R

\* noteActiveNode, whatever entries it finds.
LEMMA NoteActiveKeeps ==
  ASSUME NEW nodes \in NodeMap, NEW n \in Nodes,
         TableOK(nodes, lastEvent, m_state), EvictionsOK(m_evictions, checkTimer),
         noteActiveNode(nodes, n)
  PROVE  TableOK(nodes, lastEvent', m_state') /\ EvictionsOK(m_evictions', checkTimer')
<1> DEFINE e == entryOf(nodes, n)
           b == bucketOf[n]
           kept == afterRemoveIf(m_state[b], e)
<1>1. CASE ~isActive(nodes, n)
  BY <1>1 DEF noteActiveNode, noEviction
<1>2. CASE isActive(nodes, n)
  <2>1. touch(nodes, n)
    BY <1>2 DEF noteActiveNode
  <2>2. b \in Bins /\ e \in Entries
    <3>1. nodes[n].gen \in 0 .. MaxGen /\ nodes[n].gen > 0 /\ MaxGen \in Nat
      BY <1>2, SizesAssumption DEF isActive, haveNode, NodeMap
    <3>2. nodes[n].gen \in 1 .. MaxGen
      BY <3>1
    <3> QED BY <3>2, NodesAssumption DEF entryOf, Entries
  <2>3. m_state[b] \in Seq(Entries) /\ IsInjective(m_state[b]) /\ Len(m_state[b]) <= s_bucketSize
    BY <2>2 DEF TableOK, BucketOK
  <2>4. /\ kept \in Seq(Entries) /\ Len(kept) <= Len(m_state[b]) /\ IsInjective(kept)
        /\ ToSet(kept) \subseteq ToSet(m_state[b]) \ {e}
    BY <2>2, <2>3, AfterRemoveIf
  <2>5. Len(kept) \in Nat /\ Len(m_state[b]) \in Nat /\ s_bucketSize \in Nat \ {0}
    BY <2>3, <2>4, LenProperties, SizesAssumption
  <2>6. Len(kept) >= s_bucketSize => kept # <<>> /\ Head(kept).id \in Nodes
    <3> SUFFICES ASSUME Len(kept) >= s_bucketSize
                 PROVE  kept # <<>> /\ Head(kept).id \in Nodes
      OBVIOUS
    <3>1. kept # <<>>
      BY <2>4, <2>5, EmptySeq
    <3>2. Head(kept) \in Entries
      BY <2>4, <3>1, HeadTailProperties
    <3> QED BY <3>1, <3>2 DEF Entries
  <2>7. \/ Len(kept) < s_bucketSize /\ pushBack(b, kept, e, Contains(m_state[b], e))
        \/ Len(kept) >= s_bucketSize /\ pushBack(b, Tail(kept), e, Contains(m_state[b], e))
        \/ /\ Len(kept) >= s_bucketSize /\ evict(Head(kept).id, n)
           /\ UNCHANGED <<m_state, lastEvent>>
    BY <2>1 DEF touch
  <2> HIDE DEF kept
  <2>8. CASE Len(kept) < s_bucketSize /\ pushBack(b, kept, e, Contains(m_state[b], e))
    <3>1. TableOK(nodes, lastEvent', m_state')
      BY <1>2, <2>4, <2>8, PushBackKeeps
    <3> QED BY <2>8, <3>1 DEF pushBack, noEviction
  <2>9. CASE Len(kept) >= s_bucketSize /\ pushBack(b, Tail(kept), e, Contains(m_state[b], e))
    <3>1. /\ Tail(kept) \in Seq(Entries) /\ Len(Tail(kept)) = Len(kept) - 1
          /\ IsInjective(Tail(kept)) /\ ToSet(Tail(kept)) \subseteq ToSet(kept)
      BY <2>4, <2>6, <2>9, WithoutHead
    <3>2. Len(Tail(kept)) < s_bucketSize
      BY <2>3, <2>4, <2>5, <3>1
    <3>3. ToSet(Tail(kept)) \subseteq ToSet(m_state[b]) \ {e}
      BY <2>4, <3>1
    <3>4. TableOK(nodes, lastEvent', m_state')
      BY <1>2, <2>9, <3>1, <3>2, <3>3, PushBackKeeps
    <3> QED BY <2>9, <3>4 DEF pushBack, noEviction
  <2>10. CASE /\ Len(kept) >= s_bucketSize /\ evict(Head(kept).id, n)
              /\ UNCHANGED <<m_state, lastEvent>>
    BY <2>6, <2>10, EvictKeeps
  <2> QED BY <2>7, <2>8, <2>9, <2>10
<1> QED BY <1>1, <1>2

\* dropNode: a current entry that stays in its bucket is not dropped.
LEMMA DropNodesKeeps ==
  ASSUME NEW nodes \in NodeMap, NEW ns \in SUBSET Nodes,
         TableOK(nodes, lastEvent, m_state), dropNodes(nodes, ns)
  PROVE  TableOK(nodes, lastEvent', m_state')
<1> DEFINE gone == {entryOf(nodes, n) : n \in ns}
<1>1. m_state' = [b \in Bins |-> without(m_state[b], gone)]
  BY DEF dropNodes
<1>2. lastEvent' \in [Nodes -> {"none", "added", "dropped"}]
  BY DEF dropNodes, TableOK
<1> HIDE DEF gone
<1>3. ASSUME NEW b \in Bins
      PROVE  /\ BucketOK(nodes, lastEvent', b, m_state'[b])
             /\ m_state'[b] \in Seq(Entries)
  <2> DEFINE s == m_state[b]
             rest == m_state'[b]
  <2>1. BucketOK(nodes, lastEvent, b, s)
    BY DEF TableOK
  <2>2. s \in Seq(Entries) /\ IsInjective(s) /\ Len(s) <= s_bucketSize
    BY <2>1 DEF BucketOK
  <2>3. rest = without(s, gone)
    BY <1>1
  <2>4. /\ rest \in Seq(Entries) /\ Len(rest) <= Len(s) /\ IsInjective(rest)
        /\ ToSet(rest) \subseteq ToSet(s) \ gone
    BY <2>2, <2>3, WithoutKeeps
  <2>5. Len(rest) <= s_bucketSize
    <3>1. Len(rest) \in Nat /\ Len(s) \in Nat /\ s_bucketSize \in Nat
      BY <2>2, <2>4, LenProperties, SizesAssumption
    <3> QED BY <2>2, <2>4, <3>1
  <2>6. ASSUME NEW e \in ToSet(rest)
        PROVE  EntryOK(nodes, lastEvent', b, e)
    <3>1. e \in ToSet(s) /\ e \notin gone
      BY <2>4
    <3>2. EntryOK(nodes, lastEvent, b, e)
      BY <2>1, <3>1 DEF BucketOK
    <3>3. e.id \in Nodes
      BY <2>2, <3>1, MembersAreEntries DEF Entries
    <3>4. e = entryOf(nodes, e.id) => e.id \notin ns
      BY <3>1 DEF gone
    <3>5. e = entryOf(nodes, e.id) => lastEvent'[e.id] = lastEvent[e.id]
      BY <3>3, <3>4 DEF dropNodes
    <3> QED BY <3>2, <3>5 DEF EntryOK
  <2> HIDE DEF rest
  <2> QED BY <2>4, <2>5, <2>6 DEF BucketOK, rest
<1>4. m_state' \in [Bins -> Seq(Entries)]
  BY <1>1, <1>3
<1> QED BY <1>2, <1>3, <1>4 DEF TableOK

\* What the operations on m_nodes make of it.
LEMMA NewNodes ==
  ASSUME OthersOK, TableOK(m_nodes, lastEvent, m_state), NEW n \in Nodes,
         NEW new \in NodeMap, Later(m_nodes, new), m_nodes' = new,
         EvictionsOK(m_evictions, checkTimer), noteActiveNode(m_nodes', n)
  PROVE  /\ TableOK(m_nodes', lastEvent', m_state')
         /\ EvictionsOK(m_evictions', checkTimer')
<1>1. TableOK(new, lastEvent, m_state)
  BY LaterKeeps DEF OthersOK
<1>2. noteActiveNode(new, n)
  OBVIOUS
<1>3. TableOK(new, lastEvent', m_state') /\ EvictionsOK(m_evictions', checkTimer')
  BY <1>1, <1>2, NoteActiveKeeps
<1> QED BY <1>3

\* The ages of the evictions.
LEMMA Aged ==
  ASSUME EvictionsOK(m_evictions, checkTimer), Tick
  PROVE  EvictionsOK(m_evictions', checkTimer')
<1> DEFINE R == [leastSeen : Nodes, newcomer : Nodes, age : Ages]
           older(x) == [x EXCEPT !.age = IF @ > c_reqTimeout THEN @ ELSE @ + 1]
<1>1. /\ m_evictions \in Seq(R) /\ checkTimer \in {0, 1}
      /\ (m_evictions = <<>> => checkTimer = 0) /\ checkTimer' = checkTimer
      /\ m_evictions' = [i \in DOMAIN m_evictions |-> older(m_evictions[i])]
  BY DEF EvictionsOK, Tick
<1>2. ASSUME NEW x \in R
      PROVE  older(x) \in R
  <2>1. x.age \in Ages /\ c_reqTimeout \in Nat
    BY SizesAssumption
  <2>2. (IF x.age > c_reqTimeout THEN x.age ELSE x.age + 1) \in Ages
    BY <2>1 DEF Ages
  <2> QED BY <2>2
<1> HIDE DEF R, older
<1>3. DOMAIN m_evictions = 1 .. Len(m_evictions) /\ Len(m_evictions) \in Nat
  BY <1>1, LenProperties
<1>4. \A i \in 1 .. Len(m_evictions) : older(m_evictions[i]) \in R
  BY <1>1, <1>2, <1>3, ElementOfSeq
<1>5. m_evictions' \in Seq(R) /\ Len(m_evictions') = Len(m_evictions)
  BY <1>1, <1>3, <1>4, SeqDef, LenProperties
<1>6. m_evictions' = <<>> => m_evictions = <<>>
  BY <1>1, <1>5, EmptySeq
<1> QED BY <1>1, <1>5, <1>6 DEF EvictionsOK, R

-----------------------------------------------------------------------------
(* The invariant.                                                          *)

LEMMA TableInitial == Init => TableInv
<1> SUFFICES ASSUME Init
             PROVE  TableInv
  OBVIOUS
<1>1. TableOK(m_nodes, lastEvent, m_state)
  <2>1. ASSUME NEW b \in Bins
        PROVE  BucketOK(m_nodes, lastEvent, b, m_state[b])
    <3>1. m_state[b] = <<>>
      BY DEF Init
    <3>2. /\ m_state[b] \in Seq(Entries) /\ Len(m_state[b]) = 0 /\ DOMAIN m_state[b] = {}
      BY <3>1, EmptySeq
    <3>3. ToSet(m_state[b]) = {} /\ IsInjective(m_state[b])
      BY <3>2 DEF ToSet, IsInjective
    <3>4. Len(m_state[b]) <= s_bucketSize
      BY <3>2, SizesAssumption
    <3> QED BY <3>2, <3>3, <3>4 DEF BucketOK
  <2>2. m_state \in [Bins -> Seq(Entries)]
    BY EmptySeq DEF Init
  <2> QED BY <2>1, <2>2 DEF TableOK, Init
<1>2. EvictionsOK(m_evictions, checkTimer)
  BY EmptySeq DEF Init, EvictionsOK
<1>3. OthersOK
  <2>1. 0 \in 0 .. MaxGen /\ 0 \in 0 .. s_maxSteps
    BY SizesAssumption
  <2> QED BY <2>1 DEF Init, OthersOK, NodeMap
<1> QED BY <1>1, <1>2, <1>3, InvParts

LEMMA TableStep == TableInv /\ [Next]_vars => TableInv'
<1> SUFFICES ASSUME TableInv, [Next]_vars
             PROVE  /\ TableOK(m_nodes', lastEvent', m_state')
                    /\ EvictionsOK(m_evictions', checkTimer')
                    /\ OthersOK'
  <2>1. TableInv' <=> /\ TableOK(m_nodes', lastEvent', m_state')
                     /\ EvictionsOK(m_evictions', checkTimer')
                     /\ OthersOK'
    <3>1. (TableInv <=> /\ TableOK(m_nodes, lastEvent, m_state)
                       /\ EvictionsOK(m_evictions, checkTimer)
                       /\ OthersOK)'
      BY InvParts, PTL
    <3> QED BY <3>1
  <2> QED BY <2>1
<1>0. TableOK(m_nodes, lastEvent, m_state) /\ EvictionsOK(m_evictions, checkTimer) /\ OthersOK
  BY InvParts
<1>1. ASSUME NEW n \in Restored, AddNodeKnown(n)
      PROVE  /\ TableOK(m_nodes', lastEvent', m_state')
             /\ EvictionsOK(m_evictions', checkTimer') /\ OthersOK'
  <2>1. n \in Nodes
    BY NodesAssumption
  <2>2. /\ insertEntries({n}, FALSE) \in NodeMap /\ Later(m_nodes, insertEntries({n}, FALSE))
    BY <1>0, <1>1, <2>1, Inserted DEF AddNodeKnown
  <2>3. m_nodes' = insertEntries({n}, FALSE) /\ noteActiveNode(m_nodes', n)
    BY <1>1 DEF AddNodeKnown
  <2>4. TableOK(m_nodes', lastEvent', m_state') /\ EvictionsOK(m_evictions', checkTimer')
    BY <1>0, <2>1, <2>2, <2>3, NewNodes
  <2> QED BY <1>0, <1>1, <2>2, <2>3, <2>4 DEF AddNodeKnown, OthersOK
<1>2. ASSUME NEW c \in Clients, NEW n \in Nodes, ClientFindsAbsent(c, n) \/ ClientPingsAddress(c, n)
      PROVE  /\ TableOK(m_nodes', lastEvent', m_state')
             /\ EvictionsOK(m_evictions', checkTimer') /\ OthersOK'
  BY <1>0, <1>2 DEF ClientFindsAbsent, ClientPingsAddress, OthersOK
<1>3. ASSUME NEW c \in Clients, ClientInserts(c)
      PROVE  /\ TableOK(m_nodes', lastEvent', m_state')
             /\ EvictionsOK(m_evictions', checkTimer') /\ OthersOK'
  <2>1. adding[c] \in Nodes
    BY <1>0, <1>3 DEF ClientInserts, OthersOK
  <2>2. /\ insertEntries({adding[c]}, TRUE) \in NodeMap
        /\ Later(m_nodes, insertEntries({adding[c]}, TRUE))
    BY <1>0, <1>3, <2>1, Inserted DEF ClientInserts
  <2>3. m_nodes' = insertEntries({adding[c]}, TRUE) /\ UNCHANGED <<m_state, lastEvent>>
    BY <1>3 DEF ClientInserts
  <2>4. TableOK(m_nodes', lastEvent', m_state')
    BY <1>0, <2>2, <2>3, LaterKeeps DEF OthersOK
  <2> QED BY <1>0, <1>3, <2>2, <2>3, <2>4 DEF ClientInserts, OthersOK
<1>4. ASSUME NEW n \in Nodes, ReceivePong(n)
      PROVE  /\ TableOK(m_nodes', lastEvent', m_state')
             /\ EvictionsOK(m_evictions', checkTimer') /\ OthersOK'
  <2>1. m_nodes' \in NodeMap /\ Later(m_nodes, m_nodes')
    <3>1. CASE m_nodes' = [m_nodes EXCEPT ![n].pending = FALSE]
      BY <1>0, <3>1 DEF OthersOK, NodeMap, Later
    <3>2. CASE /\ ~haveNode(m_nodes, n) /\ roomFor({n}) /\ m_nodes' = addNodes({n})
      <4>1. {x \in {n} : ~haveNode(m_nodes, x)} = {n}
        BY <3>2
      <4>2. m_nodes' = insertEntries({n}, TRUE)
        BY <3>2, <4>1 DEF addNodes
      <4> QED BY <1>0, <3>2, <4>2, Inserted
    <3> QED BY <1>4, <3>1, <3>2 DEF ReceivePong
  <2>2. noteActiveNode(m_nodes', n)
    BY <1>4 DEF ReceivePong
  <2>3. TableOK(m_nodes', lastEvent', m_state') /\ EvictionsOK(m_evictions', checkTimer')
    BY <1>0, <2>1, <2>2, NewNodes
  <2> QED BY <1>0, <1>4, <2>1, <2>3 DEF ReceivePong, OthersOK
<1>5. ASSUME NEW n \in Nodes, ReceiveNeighbours(n)
      PROVE  /\ TableOK(m_nodes', lastEvent', m_state')
             /\ EvictionsOK(m_evictions', checkTimer') /\ OthersOK'
  <2>1. m_nodes' \in NodeMap /\ Later(m_nodes, m_nodes')
    <3>1. CASE m_nodes' = m_nodes
      BY <1>0, <3>1 DEF OthersOK, Later
    <3>2. CASE \E ns \in SUBSET {x \in Nodes : ~haveNode(m_nodes, x)} :
                 roomFor(ns) /\ m_nodes' = addNodes(ns)
      <4>1. PICK ns \in SUBSET {x \in Nodes : ~haveNode(m_nodes, x)} :
                 roomFor(ns) /\ m_nodes' = addNodes(ns)
        BY <3>2
      <4>2. {x \in ns : ~haveNode(m_nodes, x)} = ns /\ ns \in SUBSET Nodes
        OBVIOUS
      <4>3. m_nodes' = insertEntries(ns, TRUE)
        BY <4>1, <4>2 DEF addNodes
      <4> QED BY <1>0, <4>1, <4>2, <4>3, Inserted
    <3> QED BY <1>5, <3>1, <3>2 DEF ReceiveNeighbours
  <2>2. noteActiveNode(m_nodes', n)
    BY <1>5 DEF ReceiveNeighbours
  <2>3. TableOK(m_nodes', lastEvent', m_state') /\ EvictionsOK(m_evictions', checkTimer')
    BY <1>0, <2>1, <2>2, NewNodes
  <2> QED BY <1>0, <1>5, <2>1, <2>3 DEF ReceiveNeighbours, OthersOK
<1>6. ASSUME NEW n \in Nodes, ReceiveFindNode(n)
      PROVE  /\ TableOK(m_nodes', lastEvent', m_state')
             /\ EvictionsOK(m_evictions', checkTimer') /\ OthersOK'
  <2>1. TableOK(m_nodes, lastEvent', m_state') /\ EvictionsOK(m_evictions', checkTimer')
    BY <1>0, <1>6, NoteActiveKeeps DEF ReceiveFindNode, OthersOK
  <2> QED BY <1>0, <1>6, <2>1 DEF ReceiveFindNode, OthersOK
<1>7. ASSUME NEW n \in Nodes, ReceivePing(n)
      PROVE  /\ TableOK(m_nodes', lastEvent', m_state')
             /\ EvictionsOK(m_evictions', checkTimer') /\ OthersOK'
  <2>1. m_nodes' \in NodeMap /\ Later(m_nodes, m_nodes')
    <3> DEFINE ns == {x \in {n} : ~haveNode(m_nodes, x)}
    <3>1. ns \in SUBSET Nodes /\ roomFor(ns)
      BY <1>7 DEF ReceivePing, roomFor
    <3>2. m_nodes' = insertEntries(ns, TRUE)
      BY <1>7 DEF ReceivePing, addNodes
    <3> HIDE DEF ns
    <3> QED BY <1>0, <3>1, <3>2, Inserted
  <2>2. noteActiveNode(m_nodes', n)
    BY <1>7 DEF ReceivePing
  <2>3. TableOK(m_nodes', lastEvent', m_state') /\ EvictionsOK(m_evictions', checkTimer')
    BY <1>0, <2>1, <2>2, NewNodes
  <2> QED BY <1>0, <1>7, <2>1, <2>3 DEF ReceivePing, OthersOK
<1>8. ASSUME CheckEvictions
      PROVE  /\ TableOK(m_nodes', lastEvent', m_state')
             /\ EvictionsOK(m_evictions', checkTimer') /\ OthersOK'
  <2> DEFINE R == [leastSeen : Nodes, newcomer : Nodes, age : Ages]
             ns == {m_evictions[i].newcomer : i \in timedOut}
  <2>1. ns \in SUBSET Nodes
    <3>1. m_evictions \in Seq(R)
      BY <1>0 DEF EvictionsOK
    <3>2. timedOut \subseteq DOMAIN m_evictions /\ DOMAIN m_evictions = 1 .. Len(m_evictions)
      BY <3>1, LenProperties DEF timedOut
    <3>3. \A i \in timedOut : m_evictions[i] \in R
      <4> HIDE DEF R
      <4> QED BY <3>1, <3>2, ElementOfSeq
    <3> QED BY <3>3
  <2>2. dropNodes(m_nodes, ns) /\ m_nodes' = m_nodes
    BY <1>8 DEF CheckEvictions
  <2>3. TableOK(m_nodes', lastEvent', m_state')
    <3> HIDE DEF ns
    <3> QED BY <1>0, <2>1, <2>2, DropNodesKeeps DEF OthersOK
  <2>4. /\ m_evictions' = m_evictions /\ checkTimer > 0
        /\ checkTimer' = checkTimer \/ checkTimer' = checkTimer - 1
    BY <1>8 DEF CheckEvictions
  <2>5. EvictionsOK(m_evictions', checkTimer')
    BY <1>0, <2>4 DEF EvictionsOK
  <2> QED BY <1>0, <1>8, <2>3, <2>5 DEF CheckEvictions, OthersOK
<1>9. ASSUME DiscoveryTimer
      PROVE  /\ TableOK(m_nodes', lastEvent', m_state')
             /\ EvictionsOK(m_evictions', checkTimer') /\ OthersOK'
  <2>1. /\ m_findNodeTimeout' \subseteq Nodes \X BOOLEAN
        /\ discovery' \in 0 .. s_maxSteps /\ tried' \subseteq Entries
    <3>1. CASE discovery' = 0 /\ tried' = {} /\ UNCHANGED m_findNodeTimeout
      BY <1>0, <3>1, SizesAssumption DEF OthersOK
    <3>2. CASE discovery < s_maxSteps /\
               \E asked \in SUBSET inBuckets(m_nodes) :
                 /\ m_findNodeTimeout' = m_findNodeTimeout \cup {<<e.id, TRUE>> : e \in asked}
                 /\ discovery' = discovery + 1
                 /\ tried' = tried \cup asked
      <4>1. inBuckets(m_nodes) \subseteq Entries
        BY <1>0, MembersAreEntries DEF inBuckets, TableOK
      <4>2. PICK asked \in SUBSET Entries :
                 /\ m_findNodeTimeout' = m_findNodeTimeout \cup {<<e.id, TRUE>> : e \in asked}
                 /\ discovery' = discovery + 1
                 /\ tried' = tried \cup asked
        BY <3>2, <4>1
      <4>3. discovery' \in 0 .. s_maxSteps
        BY <1>0, <3>2, <4>2, SizesAssumption DEF OthersOK
      <4>4. {<<e.id, TRUE>> : e \in asked} \subseteq Nodes \X BOOLEAN
        <5> SUFFICES ASSUME NEW e \in asked
                     PROVE  <<e.id, TRUE>> \in Nodes \X BOOLEAN
          BY Zenon
        <5>1. e.id \in Nodes
          BY DEF Entries
        <5> QED BY <5>1
      <4>5. m_findNodeTimeout' \subseteq Nodes \X BOOLEAN
        BY <1>0, <4>2, <4>4 DEF OthersOK
      <4>6. tried' \subseteq Entries
        BY <1>0, <4>2 DEF OthersOK
      <4> QED BY <4>3, <4>5, <4>6
    <3> QED BY <1>9, <3>1, <3>2 DEF DiscoveryTimer, doDiscover
  <2> QED BY <1>0, <1>9, <2>1 DEF DiscoveryTimer, OthersOK
<1>10. ASSUME Tick
       PROVE  /\ TableOK(m_nodes', lastEvent', m_state')
              /\ EvictionsOK(m_evictions', checkTimer') /\ OthersOK'
  <2>1. EvictionsOK(m_evictions', checkTimer')
    BY <1>0, <1>10, Aged
  <2>2. m_findNodeTimeout' \subseteq Nodes \X BOOLEAN
    <3> SUFFICES ASSUME NEW t \in m_findNodeTimeout
                 PROVE  <<t[1], FALSE>> \in Nodes \X BOOLEAN
      BY <1>10, Zenon DEF Tick
    <3>1. t[1] \in Nodes
      BY <1>0 DEF OthersOK
    <3> QED BY <3>1
  <2> QED BY <1>0, <1>10, <2>1, <2>2 DEF Tick, OthersOK
<1>11. ASSUME UNCHANGED vars
       PROVE  /\ TableOK(m_nodes', lastEvent', m_state')
              /\ EvictionsOK(m_evictions', checkTimer') /\ OthersOK'
  BY <1>0, <1>11 DEF vars, OthersOK
<1> QED
  BY <1>1, <1>2, <1>3, <1>4, <1>5, <1>6, <1>7, <1>8, <1>9, <1>10, <1>11 DEF Next, Receive

LEMMA TableInvariant == Spec => []TableInv
<1> QED BY TableInitial, TableStep, PTL DEF Spec

\* Whatever packets arrive, from whom and in which order, and whichever
\* clients add nodes between two critical sections: the buckets are sound,
\* hold only nodes that answered, and one eviction check is scheduled.
THEOREM BucketsStaySound == Spec => []TableSound
<1>1. TableInv => TableSound
  BY DEF TableInv
<1> QED BY <1>1, TableInvariant, PTL

\* What the Host was last told of a node it can find in the table is that it
\* was added: no replaced entry, dropped newcomer or moved entry loses that.
THEOREM HostKnowsTheTable == Spec => []TabledNodesAnnounced
<1>1. TableInv => TabledNodesAnnounced
  BY DEF TableInv
<1> QED BY <1>1, TableInvariant, PTL
=============================================================================
