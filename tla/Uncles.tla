-------------------------------- MODULE Uncles --------------------------------
(***************************************************************************)
(* The headers of blocks and their uncles: how Block::commitToSeal picks    *)
(* uncles for a block of ours and Block::enact checks those of every block, *)
(* over a tree of blocks that grows from all sides.  A block is named by    *)
(* its place in the tree.  BlockChain is used from its header.              *)
(***************************************************************************)
EXTENDS Integers, Sequences, FiniteSets, SequencesExt, FiniteSetsExt

CONSTANTS
    Generations,      \* how far back uncles may be; 6 in the code
    MaxUncles,        \* 2 in the code
    Clocks,           \* what utcTime may return, on any machine
    MaxBlocks         \* bound on the size of the tree

ASSUME UnclesAssumption == Generations \in Nat /\ MaxUncles \in Nat /\ Clocks \subseteq Nat

VARIABLE tree         \* blocks, parents before their children

genesisHash == 1
UnclesInit == tree = <<[parent |-> 0, number |-> 0, timestamp |-> 0, uncles |-> << >>, ours |-> FALSE]>>

\* Beyond genesis there is the empty hash
parentOf(h) == IF h = 0 THEN 0 ELSE tree[h].parent

ancestor(h, n) ==
    LET up[i \in Nat] == IF i = 0 THEN h ELSE parentOf(up[i - 1])
    IN  up[n]

kinOf(h) == IF h \in {0, genesisHash} THEN {} ELSE {tree[h].parent} \cup ToSet(tree[h].uncles)

\* allKinFrom: the blocks of the last generations and the uncles they cite
allKinFrom(parent, generations) ==
    {parent} \cup UNION {kinOf(ancestor(parent, i)) : i \in 0 .. generations - 1}

-----------------------------------------------------------------------------
\* A plausible slip: only the parent's own kin is left out
excludedNearby(parent) == allKinFrom(parent, 1)

\* What commitToSeal and enact both leave out
excludedBy(parent) == allKinFrom(parent, Generations)

\* commitToSeal: children of the ancestors that are not yet known as kin;
\* those whose parent is genesis are never taken
freshUncles(parent) ==
    LET starts == {ancestor(parent, g) : g \in 1 .. Generations} \ {0, genesisHash}
    IN  {u \in DOMAIN tree : tree[u].parent \in starts} \ excludedBy(parent)

\* The next one: of the nearest generation, the first that came in
nearest(uncles) == Min({u \in uncles : \A v \in uncles : tree[v].number <= tree[u].number})

chosenUncles(parent) ==
    LET taken[k \in Nat] ==
            IF k = 0 THEN << >>
            ELSE LET left == freshUncles(parent) \ ToSet(taken[k - 1])
                 IN  IF left = {} THEN taken[k - 1] ELSE Append(taken[k - 1], nearest(left))
    IN  IF tree[parent].number = 0 THEN << >> ELSE taken[MaxUncles]

\* enact's test of one uncle of a block on the given parent
uncleFits(parent, u) ==
    LET depth == tree[parent].number + 1 - tree[u].number
    IN  /\ depth \in 1 .. Generations
        /\ ancestor(parent, depth) = tree[u].parent

enactUncles(parent, uncles) ==
    /\ Len(uncles) <= MaxUncles
    /\ \A u \in ToSet(uncles) : uncleFits(parent, u)
    /\ ToSet(uncles) \cap excludedBy(parent) = {}
    /\ IsInjective(uncles)

-----------------------------------------------------------------------------
\* populateFromParent, and resetCurrent's time: later than the parent's,
\* whatever the clock says
populateFromParent(parent, now) ==
    [parent |-> parent, number |-> tree[parent].number + 1, timestamp |-> Max({tree[parent].timestamp + 1, now}),
     uncles |-> << >>, ours |-> FALSE]

\* BlockHeader::verify against the parent
verify(b) ==
    /\ b.timestamp > tree[b.parent].timestamp
    /\ b.number = tree[b.parent].number + 1

\* A block of ours, on what was the head when it was committed.  The tree may
\* have grown by the time it is imported.
CommitToSeal(parent, now) ==
    LET b == [populateFromParent(parent, now) EXCEPT !.uncles = chosenUncles(parent), !.ours = TRUE]
    IN  Len(tree) < MaxBlocks /\ tree' = Append(tree, b)

\* A block of another node enters the chain if it passes
Enact(parent, now, uncles) ==
    LET b == [populateFromParent(parent, now) EXCEPT !.uncles = uncles]
    IN  /\ Len(tree) < MaxBlocks
        /\ verify(b) /\ enactUncles(parent, uncles)
        /\ tree' = Append(tree, b)

UnclesNext ==
    \/ \E parent \in DOMAIN tree, now \in Clocks : CommitToSeal(parent, now)
    \/ \E parent \in DOMAIN tree :
           \E uncles \in BoundedSeq({u \in DOMAIN tree : uncleFits(parent, u)}, MaxUncles), now \in Clocks :
               Enact(parent, now, uncles)

UnclesSpec == UnclesInit /\ [][UnclesNext]_tree

-----------------------------------------------------------------------------
(***************************************************************************)
(* A block that commitToSeal puts together passes BlockHeader::verify and   *)
(* enact's test of its uncles, on every head and whatever the clock says:   *)
(* the search for uncles and the test, written apart, agree.                *)
(***************************************************************************)
OwnHeadersPass ==
    \A i \in DOMAIN tree : tree[i].ours => verify(tree[i]) /\ enactUncles(tree[i].parent, tree[i].uncles)

(***************************************************************************)
(* No chain rewards an uncle twice, or a block of its own as an uncle: the  *)
(* window in which uncles are looked for is covered by the window of        *)
(* blocks that allKinFrom excludes.                                         *)
(***************************************************************************)
UncleRewardedOnce ==
    \A i, j \in DOMAIN tree :
        (\E n \in 1 .. tree[i].number : ancestor(i, n) = j) =>
            /\ ToSet(tree[i].uncles) \cap ToSet(tree[j].uncles) = {}
            /\ j \notin ToSet(tree[i].uncles)

(***************************************************************************)
(* The uncles that commitToSeal finds are those that others accept, and     *)
(* that were not rewarded before.                                           *)
(***************************************************************************)
UnclesSound == OwnHeadersPass /\ UncleRewardedOnce

(***************************************************************************)
(* Every block but the first stands on an older one and cites older ones,   *)
(* and has passed the test of its uncles, whoever made it.                  *)
(***************************************************************************)
isBlock(i) ==
    /\ DOMAIN tree[i] = {"parent", "number", "timestamp", "uncles", "ours"}
    /\ tree[i].number \in Nat /\ tree[i].timestamp \in Nat
    /\ i # genesisHash =>
        /\ tree[i].parent \in 1 .. i - 1 /\ verify(tree[i])
        /\ tree[i].uncles \in Seq(1 .. i - 1) /\ enactUncles(tree[i].parent, tree[i].uncles)

UnclesInv ==
    /\ tree = [i \in 1 .. Len(tree) |-> tree[i]] /\ Len(tree) \in Nat \ {0}
    /\ tree[genesisHash] = [parent |-> 0, number |-> 0, timestamp |-> 0, uncles |-> << >>, ours |-> FALSE]
    /\ \A i \in DOMAIN tree : isBlock(i)
=============================================================================
