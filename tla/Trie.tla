------------------------------- MODULE Trie -------------------------------
(***************************************************************************)
(* GenericTrieDB over OverlayDB: the Merkle Patricia trie, its reference   *)
(* counted nodes in memory and their commit to the disk.  A node is its    *)
(* own hash (hashes do not collide); a node's size, which decides whether  *)
(* it is stored apart or inside its parent, counts its nibbles and items.  *)
(* Entries of m_main with no reference left are dropped at once: only      *)
(* lookups without enforced references could see them.                     *)
(***************************************************************************)
EXTENDS Naturals, Bags, SequencesExt

CONSTANTS
    Arity,             \* children of a branch: 16 in the code
    Keys,              \* sequences of nibbles, 0..Arity-1
    Values, LongValues,
    InlineLimit,       \* 32 in the code
    c_writeAttempts,   \* of commit: 10 in the code
    MaxChanges         \* bound: insertions and removals

Nibbles == 0..(Arity - 1)

Null == [kind |-> "null"]
Pair(leaf, k, x) == [kind |-> "pair", leaf |-> leaf, key |-> k, item |-> x]
Branch(f, v) == [kind |-> "branch", child |-> f, value |-> v]
Hashed(n) == [kind |-> "hash", of |-> n]

deref(x) == IF x.kind = "hash" THEN x.of ELSE x

RECURSIVE size(_)
size(x) ==
    IF x \in Values THEN IF x \in LongValues THEN InlineLimit ELSE 1
    ELSE CASE x.kind = "null" -> 1
           [] x.kind = "hash" -> InlineLimit
           [] x.kind = "pair" -> 1 + Len(x.key) + size(x.item)
           [] x.kind = "branch" -> size(x.value) + FoldFunction(+, 0, [i \in Nibbles |-> size(x.child[i])])

isBig(n) == size(n) >= InlineLimit

-----------------------------------------------------------------------------
(* Nodes in the database: a bag of references.                             *)

forceInsertNode(db, n) == db (+) SetToBag({n})
forceKillNode(db, n) == db (-) SetToBag({n})
killNode(db, n) == IF isBig(n) THEN forceKillNode(db, n) ELSE db

Out(n, db) == [out |-> n, db |-> db]

streamNode(db, n) == IF isBig(n) THEN Out(Hashed(n), forceInsertNode(db, n)) ELSE Out(n, db)

-----------------------------------------------------------------------------
(* Nibble slices.                                                          *)

startsWith(k, prefix) == IsPrefix(prefix, k)
shared(k, l) == Len(LongestCommonPrefix({k, l}))
mid(k, n) == SubSeq(k, n + 1, Len(k))

isEarlierThan(k, prefix) ==
    LET s == shared(k, prefix)
    IN IF s < Len(prefix) /\ s < Len(k) THEN k[s + 1] < prefix[s + 1] ELSE s < Len(prefix)

-----------------------------------------------------------------------------
(* Insertion.                                                              *)

place(db, n, k, v) ==
    Out(CASE n.kind = "null" -> Pair(TRUE, k, v)
          [] n.kind = "pair" -> [n EXCEPT !.item = v]
          [] n.kind = "branch" -> [n EXCEPT !.value = v],
        killNode(db, n))

cleve(db, n, s) ==
    LET bottom == streamNode(killNode(db, n), Pair(n.leaf, mid(n.key, s), n.item))
    IN Out(Pair(FALSE, SubSeq(n.key, 1, s), bottom.out), bottom.db)

branch(db, n) ==
    LET empty == [i \in Nibbles |-> Null]
        below == IF n.leaf \/ Len(n.key) > 1
                 THEN streamNode(killNode(db, n), Pair(n.leaf, Tail(n.key), n.item))
                 ELSE Out(n.item, killNode(db, n))
    IN IF n.key = <<>> THEN Out(Branch(empty, n.item), killNode(db, n))
       ELSE Out(Branch([empty EXCEPT ![Head(n.key)] = below.out], Null), below.db)

RECURSIVE mergeAt(_, _, _, _, _)
mergeAtAux(db, x, k, v) ==
    LET merged == mergeAt(db, deref(x), k, v, x.kind # "hash")
    IN streamNode(merged.db, merged.out)

mergeAt(db, n, k, v, inLine) ==
    LET killed == IF inLine THEN db ELSE killNode(db, n)
    IN CASE n.kind = "null" \/ (n.kind = "pair" /\ n.leaf /\ n.key = k) \/ (n.kind = "branch" /\ k = <<>>) ->
              place(db, n, k, v)
         [] n.kind = "branch" /\ k # <<>> ->
              LET below == mergeAtAux(killed, n.child[Head(k)], Tail(k), v)
              IN Out([n EXCEPT !.child[Head(k)] = below.out], below.db)
         [] n.kind = "pair" /\ ~n.leaf /\ startsWith(k, n.key) ->
              LET below == mergeAtAux(killed, n.item, mid(k, Len(n.key)), v)
              IN Out([n EXCEPT !.item = below.out], below.db)
         [] OTHER ->
              LET split == IF shared(k, n.key) > 0 THEN cleve(db, n, shared(k, n.key)) ELSE branch(db, n)
              IN mergeAt(split.db, split.out, k, v, TRUE)

-----------------------------------------------------------------------------
(* Removal.                                                                *)

graft(db, n) ==
    LET c == deref(n.item)
    IN Out(Pair(c.leaf, n.key \o c.key, c.item), IF n.item.kind = "hash" THEN forceKillNode(db, c) ELSE db)

isTwoItemNode(x) == deref(x).kind = "pair"

\* The items of a branch, with those of a deleted one.
uniqueInUse(n) ==
    LET used == {i \in Nibbles : n.child[i] # Null}
    IN IF n.value # Null THEN IF used = {} THEN {Arity} ELSE {}
       ELSE IF \A i, j \in used : i = j THEN used ELSE {}

\* A plausible bug: a pair that is left alone under a branch is not joined.
rejigUnjoined(db, n) ==
    IF uniqueInUse(n) = {} THEN Out(n, db)
    ELSE LET i == CHOOSE u \in uniqueInUse(n) : TRUE
         IN IF i = Arity THEN Out(Pair(TRUE, <<>>, n.value), db) ELSE Out(Pair(FALSE, <<i>>, n.child[i]), db)

\* A branch left with one item becomes a pair.
rejig(db, n) ==
    IF uniqueInUse(n) = {} THEN Out(n, db)
    ELSE LET i == CHOOSE u \in uniqueInUse(n) : TRUE
         IN IF i = Arity THEN Out(Pair(TRUE, <<>>, n.value), db)
            ELSE IF isTwoItemNode(n.child[i]) THEN graft(db, Pair(FALSE, <<i>>, n.child[i]))
            ELSE Out(Pair(FALSE, <<i>>, n.child[i]), db)

NotFound == [found |-> FALSE, beyond |-> FALSE]
Found(o) == [found |-> TRUE, beyond |-> FALSE, out |-> o.out, db |-> o.db]

\* A key that ends at a branch without a value: the code goes on with the
\* nibble after its end.
BeyondKey == [found |-> FALSE, beyond |-> TRUE]

\* A leaf whose key begins the one to be removed is not told from an extension:
\* its value is looked up as a node, and the exception leaves the trie as it was.
RECURSIVE deleteAt(_, _, _)
deleteAtAux(db, x, k) ==
    LET deleted == deleteAt(db, deref(x), k)
    IN IF deleted.found THEN Found(streamNode(deleted.db, deleted.out)) ELSE deleted

deleteAt(db, n, k) ==
    CASE n.kind = "null" -> NotFound
      [] n.kind = "pair" ->
           IF n.leaf THEN IF n.key = k THEN Found(Out(Null, killNode(db, n))) ELSE NotFound
           ELSE IF ~startsWith(k, n.key) THEN NotFound
           ELSE LET below == deleteAtAux(db, n.item, mid(k, Len(n.key)))
                IN IF ~below.found THEN below
                   ELSE LET n2 == [n EXCEPT !.item = below.out]
                            killed == killNode(below.db, n)
                        IN Found(IF isTwoItemNode(n2.item) THEN graft(killed, n2) ELSE Out(n2, killed))
      [] n.kind = "branch" ->
           IF k = <<>>
           THEN IF n.value = Null THEN BeyondKey ELSE Found(rejig(killNode(db, n), [n EXCEPT !.value = Null]))
           ELSE LET below == deleteAtAux(db, n.child[Head(k)], Tail(k))
                IN IF ~below.found THEN below
                   ELSE Found(rejig(killNode(below.db, n), [n EXCEPT !.child[Head(k)] = below.out]))

-----------------------------------------------------------------------------
(* Lookup, and the iterator: a trail of nodes, each with the part of the   *)
(* key that leads to it and the child the iterator is at.                  *)

RECURSIVE atAux(_, _)
atAux(n, k) ==
    CASE n.kind = "null" -> Null
      [] n.kind = "pair" ->
           IF n.leaf THEN IF n.key = k THEN n.item ELSE Null
           ELSE IF startsWith(k, n.key) THEN atAux(deref(n.item), mid(k, Len(n.key))) ELSE Null
      [] n.kind = "branch" ->
           IF k = <<>> THEN n.value ELSE atAux(deref(n.child[Head(k)]), Tail(k))

Entering == 255
AtValue == Arity       \* 16
Exiting == Arity + 1   \* 17
incrementChild(c) == IF c = AtValue THEN 0 ELSE IF c = Arity - 1 THEN Exiting ELSE c + 1

itemAt(n, c) == IF c = AtValue THEN n.value ELSE n.child[c]
Visit(n, k) == [node |-> n, key |-> k, child |-> Entering]

RECURSIVE following(_, _), alongBranch(_, _, _)
following(trail, k) ==
    IF trail = <<>> THEN <<>>
    ELSE LET b == Last(trail)
             up == following(Front(trail), <<>>)
             kn == b.node.key
             rest == IF startsWith(k, kn) THEN mid(k, Len(kn)) ELSE <<>>
             here == [b EXCEPT !.key = @ \o kn, !.child = 0]
         IN CASE b.node.kind = "branch" ->
                   IF b.child # Entering THEN alongBranch(trail, incrementChild(b.child), k)
                   ELSE IF k = <<>> THEN alongBranch(trail, AtValue, k)
                   ELSE alongBranch(trail, Head(k), Tail(k))
              [] b.node.kind = "null" \/ b.child # Entering -> up
              [] OTHER ->
                   IF ~startsWith(k, kn) /\ ~isEarlierThan(k, kn) THEN up
                   ELSE IF ~b.node.leaf THEN following(Append(Front(trail), Visit(deref(b.node.item), here.key)), rest)
                   ELSE IF rest = <<>> THEN Append(Front(trail), here) ELSE up

alongBranch(trail, c, k) ==
    LET b == Last(trail)
        here == Append(Front(trail), [b EXCEPT !.child = c])
    IN IF c = Exiting THEN following(Front(trail), <<>>)
       ELSE IF itemAt(b.node, c) = Null THEN alongBranch(trail, incrementChild(c), <<>>)
       ELSE IF c = AtValue THEN here
       ELSE following(Append(here, Visit(deref(b.node.child[c]), Append(b.key, c))), k)

lower_bound(root, k) == following(<<Visit(root, <<>>)>>, k)

iteratorAt(trail) ==
    LET b == Last(trail) IN <<b.key, IF b.node.kind = "pair" THEN b.node.item ELSE b.node.value>>

RECURSIVE iterated(_)
iterated(trail) == IF trail = <<>> THEN <<>> ELSE <<iteratorAt(trail)>> \o iterated(following(trail, <<>>))

\* leftOvers: the nodes stored apart that are reached from the root.
RECURSIVE descend(_)
descend(x) ==
    LET n == deref(x)
    IN (IF x.kind = "hash" THEN {n} ELSE {})
       \cup CASE n.kind = "branch" -> UNION {descend(n.child[i]) : i \in Nibbles}
              [] n.kind = "pair" /\ ~n.leaf -> descend(n.item)
              [] OTHER -> {}

-----------------------------------------------------------------------------
(* The root of a map computed at once (TrieHash.cpp).                      *)

Under(m, i, pre) == [k \in {l \in DOMAIN m : Len(l) > pre /\ l[pre + 1] = i} |-> m[k]]

RECURSIVE hash256rlp(_, _)
hash256aux(m, pre) == LET n == hash256rlp(m, pre) IN IF isBig(n) THEN Hashed(n) ELSE n

hash256rlp(m, pre) ==
    LET k == CHOOSE l \in DOMAIN m : TRUE
        sharedPre == Len(LongestCommonPrefix(DOMAIN m))
        ends == {l \in DOMAIN m : Len(l) = pre}
    IN IF DOMAIN m = {} THEN Null
       ELSE IF DOMAIN m = {k} THEN Pair(TRUE, mid(k, pre), m[k])
       ELSE IF sharedPre > pre THEN Pair(FALSE, SubSeq(k, pre + 1, sharedPre), hash256aux(m, sharedPre))
       ELSE Branch([i \in Nibbles |-> hash256aux(Under(m, i, pre), pre + 1)],
                   IF ends = {} THEN Null ELSE m[CHOOSE l \in ends : TRUE])

-----------------------------------------------------------------------------
(* The trie of a state database, as Block uses it.                         *)

VARIABLES
    m_root,      \* the root's node
    m_main,      \* references of the overlay
    disk,        \* nodes in the store
    commitStep,  \* where OverlayDB::commit is
    attempts,    \* its failed writes
    changes,     \* bound: how many
    content,     \* history: what the trie should hold
    safe         \* history: the root and content last committed

trieVars == <<m_root, m_main, disk, commitStep, attempts, changes, content, safe>>

Empty == [k \in {} |-> Null]

TrieInit ==
    /\ m_root = Null /\ m_main = SetToBag({Null}) /\ disk = {}
    /\ commitStep = "idle" /\ attempts = 0 /\ changes = 0
    /\ content = Empty /\ safe = [root |-> Null, content |-> Empty]

setRootNode(old, o) ==
    /\ m_root' = o.out
    /\ m_main' = forceInsertNode(IF isBig(old) THEN o.db ELSE forceKillNode(o.db, old), o.out)

insert(k, v) ==
    /\ commitStep = "idle" /\ changes < MaxChanges
    /\ setRootNode(m_root, mergeAt(m_main, m_root, k, v, FALSE))
    /\ content' = [l \in DOMAIN content \cup {k} |-> IF l = k THEN v ELSE content[l]]
    /\ changes' = changes + 1
    /\ UNCHANGED <<disk, commitStep, attempts, safe>>

\* Not modelled: the removal of a key that ends at a branch without a value,
\* which is undefined.  The tries of the state have keys of one length, and
\* never meet it.
remove(k) ==
    /\ commitStep = "idle" /\ changes < MaxChanges
    /\ LET deleted == deleteAt(m_main, m_root, k)
       IN /\ ~deleted.beyond
          /\ IF deleted.found THEN setRootNode(m_root, deleted) ELSE UNCHANGED <<m_root, m_main>>
    /\ content' = [l \in DOMAIN content \ {k} |-> content[l]]
    /\ changes' = changes + 1
    /\ UNCHANGED <<disk, commitStep, attempts, safe>>

-----------------------------------------------------------------------------
(* OverlayDB::commit: one batch, written again when the store fails.       *)

CommitBegins ==
    /\ commitStep = "idle" /\ m_root # safe.root
    /\ commitStep' = "write" /\ attempts' = 0
    /\ UNCHANGED <<m_root, m_main, disk, changes, content, safe>>

WriteFails ==
    /\ commitStep = "write" /\ attempts < c_writeAttempts - 1
    /\ attempts' = attempts + 1
    /\ UNCHANGED <<m_root, m_main, disk, commitStep, changes, content, safe>>

WriteBatch ==
    /\ commitStep = "write"
    /\ disk' = disk \cup BagToSet(m_main)
    /\ commitStep' = "clear"
    /\ UNCHANGED <<m_root, m_main, attempts, changes, content, safe>>

\* The caller may record the root once commit returned.
CommitEnds ==
    /\ commitStep = "clear"
    /\ m_main' = EmptyBag /\ commitStep' = "idle" /\ attempts' = 0
    /\ safe' = [root |-> m_root, content |-> content]
    /\ UNCHANGED <<m_root, disk, changes, content>>

\* setRoot: the root of the empty trie is made again if it is not found.
toSafe ==
    /\ m_root' = safe.root /\ content' = safe.content
    /\ m_main' = IF safe.root = Null /\ Null \notin disk THEN SetToBag({Null}) ELSE EmptyBag
    /\ commitStep' = "idle" /\ attempts' = 0
    /\ UNCHANGED <<disk, changes, safe>>

\* Block rolls back what it did since the last commit.
rollback == commitStep = "idle" /\ m_root # safe.root /\ toSafe

\* The process dies; after the last failed write it exits by itself.
Crash == commitStep # "idle" /\ toSafe

TrieNext ==
    \/ \E k \in Keys : remove(k) \/ \E v \in Values : insert(k, v)
    \/ CommitBegins \/ WriteFails \/ WriteBatch \/ CommitEnds \/ rollback \/ Crash

-----------------------------------------------------------------------------
(* Properties.                                                             *)

\* Where iteration from k reaches l.
Before(k, l) == k = l \/ isEarlierThan(k, l) \/ (IsPrefix(k, l) /\ k # l)

\* However it came to its content, the trie has the root computed from the
\* content at once (the root that another node computes), and every lookup
\* and every iteration gives what was put in.
TrieIsItsContent ==
    /\ m_root = hash256rlp(content, 0)
    /\ \A k \in Keys :
         /\ atAux(m_root, k) = IF k \in DOMAIN content THEN content[k] ELSE Null
         /\ LET from == iterated(lower_bound(m_root, k))
            IN /\ {e[1] : e \in Range(from)} = {l \in DOMAIN content : Before(k, l)}
               /\ \A i, j \in DOMAIN from : i < j => from[i][1] # from[j][1] /\ Before(from[i][1], from[j][1])
               /\ \A e \in Range(from) : e[2] = content[e[1]]

\* Reference counts neither lose a node that is still reached, nor keep one
\* that is not; and what was committed stays readable after a rollback or a
\* crash at any point of a commit.
NodesHeld ==
    LET reached == descend(Hashed(m_root))
        kept == descend(Hashed(safe.root)) \ {Null}
    IN /\ reached \subseteq BagToSet(m_main) \cup disk
       /\ BagToSet(m_main) \subseteq reached
       /\ kept \subseteq disk

\* The trie answers as the map it stands for, whatever was inserted, removed
\* and committed, and the nodes it does so from are held, no others.
TrieSound == TrieIsItsContent /\ NodesHeld

\* vector_ref.h:99 asserts that an index is within the data: no removal reads
\* beyond its key.  It does not hold where one key begins others: it then ends
\* at a branch that has no value (TrieDB.h:988, 1015).
RemovalsStayInKey == commitStep = "idle" => \A k \in Keys : ~deleteAt(m_main, m_root, k).beyond
=============================================================================
