------------------------------ MODULE RangeMask ------------------------------
(***************************************************************************)
(* libdevcore/RangeMask: a set of numbers kept as ranges [first, second),   *)
(* inside a ground range.  A union goes through the ranges step by step and *)
(* merges the ones that touch; a subtraction is a union between two         *)
(* inversions.  The set itself is kept as a history.                        *)
(***************************************************************************)
EXTENDS Integers, FiniteSets, FiniteSetsExt

CONSTANTS
    Ground,       \* the ground range at first, <<begin, end>>
    Limit,        \* bound: numbers are below it
    MaxUpdates    \* bound: operations on the mask

ASSUME MaskAssumption == Ground \in Nat \X Nat /\ Ground[1] <= Ground[2] /\ Limit \in Nat

VARIABLES
    m_all, m_ranges,
    union,        \* the union being made: where it is, its end, and whether it is for a subtraction
    elements,     \* history: the set the mask stands for
    updates

maskVars == <<m_all, m_ranges, union, elements, updates>>

noUnion == [i |-> 0, second |-> 0, subtracting |-> FALSE]
idleMask == union = noUnion

MaskInit == m_all = Ground /\ m_ranges = {} /\ union = noUnion /\ elements = {} /\ updates = 0

-----------------------------------------------------------------------------
\* Ranges are pairs; std::map's order is the order of their beginnings

between(range) == range[1]..(range[2] - 1)

\* upper_bound and what is before it: at most one range each
after(ranges, i) == {r \in ranges : r[1] > i /\ \A s \in ranges : s[1] > i => r[1] <= s[1]}
before(ranges, i) == {r \in ranges : r[1] <= i /\ \A s \in ranges : s[1] <= i => s[1] <= r[1]}

contains(i) == \E r \in before(m_ranges, i) : r[2] > i

next(i) ==
    IF \E r \in before(m_ranges, i + 1) : r[2] > i + 1 THEN i + 1
    ELSE IF after(m_ranges, i + 1) = {} THEN m_all[2] ELSE (CHOOSE r \in after(m_ranges, i + 1) : TRUE)[1]

\* The complement: from the end of each range to the beginning of the next
inverted ==
    LET ends == {m_all[1]} \union {r[2] : r \in m_ranges}
        begins(e) == {r[1] : r \in {q \in m_ranges : q[1] >= e}} \union {m_all[2]}
    IN  {<<e, Min(begins(e))>> : e \in {x \in ends : Min(begins(x)) # x}}

sumOf(ranges) == MapThenSumSet(LAMBDA r : r[2] - r[1], ranges)

\* The smallest items: whole ranges while they last, and part of one
lowest(items) ==
    LET used(r) == sumOf({s \in m_ranges : s[1] < r[1]})
    IN  {<<r[1], Min({r[1] + items - used(r), r[2]})>> : r \in {s \in m_ranges : used(s) < items}}

firstOut == IF \E r \in m_ranges : r[1] = m_all[1] THEN (CHOOSE r \in m_ranges : r[1] = m_all[1])[2] ELSE m_all[1]

lastIn == IF m_ranges = {} THEN m_all[1] ELSE Max({r[2] : r \in m_ranges}) - 1

empty == m_ranges = {}
full == m_all[1] = m_all[2] \/ m_ranges = {m_all}

-----------------------------------------------------------------------------
Update == idleMask /\ updates < MaxUpdates /\ updates' = updates + 1

\* unionWith a range, a part of the ground range
UnionWith(first, second) ==
    /\ Update /\ m_all[1] <= first /\ first < second /\ second <= m_all[2]
    /\ union' = [i |-> first, second |-> second, subtracting |-> FALSE]
    /\ elements' = elements \union first..(second - 1)
    /\ UNCHANGED <<m_all, m_ranges>>

\* operator-=: the mask is inverted, united with the range, and inverted again
Subtract(first, second) ==
    /\ Update /\ m_all[1] <= first /\ first < second /\ second <= m_all[2]
    /\ m_ranges' = inverted
    /\ union' = [i |-> first, second |-> second, subtracting |-> TRUE]
    /\ elements' = elements \ first..(second - 1)
    /\ UNCHANGED m_all

\* A plausible slip: a range that begins where the new one ends is left alone
noRangeAfterLoosely(i) == \A r \in after(m_ranges, i) : r[1] >= union.second

\* the next range is not touched
noRangeAfter(i) == \A r \in after(m_ranges, i) : r[1] > union.second

\* unionWith, once around its loop
UnionStep ==
    /\ ~idleMask /\ union.i < union.second
    /\ LET i == union.i
           it == before(m_ranges, i)
           rangeAfter == after(m_ranges, i)
           AddAlone == it = {} \/ \E r \in it : r[2] < i
           Continue(to) == union' = [union EXCEPT !.i = to]
       IN  \/ /\ AddAlone /\ noRangeAfter(i)     \* just create a new range
              /\ m_ranges' = m_ranges \union {<<i, union.second>>} /\ Continue(union.second)
           \/ /\ AddAlone /\ ~noRangeAfter(i)    \* merge with the next higher range
              /\ \E r \in rangeAfter : m_ranges' = (m_ranges \ {r}) \union {<<i, r[2]>>} /\ Continue(r[2])
           \/ /\ \E r \in it : r[2] = i /\ noRangeAfter(i)   \* merge with the next lower range
              /\ \E r \in it : m_ranges' = (m_ranges \ {r}) \union {<<r[1], union.second>>}
              /\ Continue(union.second)
           \/ /\ ~noRangeAfter(i)                \* merge with both
              /\ \E r \in it, s \in rangeAfter :
                   r[2] = i /\ m_ranges' = (m_ranges \ {r, s}) \union {<<r[1], s[2]>>} /\ Continue(s[2])
           \/ \E r \in it : r[2] > i /\ Continue(r[2]) /\ UNCHANGED m_ranges
    /\ UNCHANGED <<m_all, elements, updates>>

UnionEnds ==
    /\ ~idleMask /\ union.i >= union.second
    /\ m_ranges' = IF union.subtracting THEN inverted ELSE m_ranges
    /\ union' = noUnion
    /\ UNCHANGED <<m_all, elements, updates>>

Invert ==
    /\ Update /\ m_ranges' = inverted /\ elements' = between(m_all) \ elements
    /\ UNCHANGED <<m_all, union>>

ExtendAll(i) ==
    /\ Update /\ m_all' = <<Min({m_all[1], i}), Max({m_all[2], i + 1})>>
    /\ UNCHANGED <<m_ranges, union, elements>>

Clear ==
    /\ Update /\ m_ranges' = {} /\ elements' = {}
    /\ UNCHANGED <<m_all, union>>

MaskNext ==
    \/ \E first, second \in 0..Limit : UnionWith(first, second) \/ Subtract(first, second)
    \/ \E i \in 0..(Limit - 1) : ExtendAll(i)
    \/ UnionStep \/ UnionEnds \/ Invert \/ Clear

MaskSpec == MaskInit /\ [][MaskNext]_maskVars

-----------------------------------------------------------------------------
\* Between operations the mask answers as the set it stands for: what is in
\* it, how many, which is next, which are the lowest, where the first gap is,
\* and whether it is all of the ground range.
\* Code: RangeMask.h:46-71, 103-195, 214-272.
MaskIsItsElements ==
    idleMask =>
        /\ \A i \in 0..Limit : contains(i) <=> i \in elements
        /\ sumOf(m_ranges) = Cardinality(elements)
        /\ \A i \in between(m_all) : next(i) = Min({e \in elements : e > i} \union {m_all[2]})
        /\ \A n \in 0..Limit :
               UNION {between(r) : r \in lowest(n)} = {e \in elements : Cardinality({d \in elements : d < e}) < n}
        /\ full <=> elements = between(m_all)
        /\ empty <=> elements = {}
        /\ elements # between(m_all) => firstOut = Min(between(m_all) \ elements)
        /\ elements # {} => lastIn = Max(elements)

-----------------------------------------------------------------------------
\* The inductive invariant behind MaskIsItsElements.
covered(ranges) == UNION {between(r) : r \in ranges}

\* Ranges are not empty, lie in the ground range, and do not even touch
rangesApart(ranges, all) ==
    /\ \A r \in ranges : r \in Nat \X Nat /\ all[1] <= r[1] /\ r[1] < r[2] /\ r[2] <= all[2]
    /\ \A r, s \in ranges : r = s \/ r[2] < s[1] \/ s[2] < r[1]

\* While a union is made it is known what it still has to add
MaskInv ==
    /\ m_all \in Nat \X Nat /\ m_all[1] <= m_all[2] /\ rangesApart(m_ranges, m_all)
    /\ elements \subseteq between(m_all)
    /\ union \in [i : Nat, second : Nat, subtracting : BOOLEAN]
    /\ idleMask => covered(m_ranges) = elements
    /\ ~idleMask =>
           /\ union.second > 0 /\ m_all[1] <= union.i /\ union.second <= m_all[2]
           /\ covered(m_ranges) \union (union.i .. (union.second - 1))
              = IF union.subtracting THEN between(m_all) \ elements ELSE elements
=============================================================================
