-------------------------------- MODULE Queries --------------------------------
(***************************************************************************)
(* Two questions a Client answers by search.  ClientBase::estimateGas       *)
(* bisects the gas of a transaction by executing it again and again;        *)
(* ClientBase::logs uses the blooms of blocks to find the log entries a     *)
(* LogFilter matches.  A bloom is the set of what went into it: a real one  *)
(* may say yes more often, which costs a look at the block.                 *)
(***************************************************************************)
EXTENDS Integers, Sequences, FiniteSets, SequencesExt, FiniteSetsExt

CONSTANTS
    baseGas,          \* baseGasRequired
    c_maxGasEstimate,
    Filters,          \* [m_addresses, m_topics], two positions of topics in place of four
    Entries,          \* log entries [address, topics]
    LogBlocks,        \* what a block may hold of them
    LogHeights        \* the numbers the last block may have

\* What a transaction needs at the least is within the most that is tried (its
\* data are less than 700000 bytes); positions of topics are finite sets.
ASSUME QueryAssumption ==
    /\ baseGas \in Nat /\ c_maxGasEstimate \in Nat /\ baseGas <= c_maxGasEstimate
    /\ \A f \in Filters : \A i \in DOMAIN f.m_topics : IsFiniteSet(f.m_topics[i])
    /\ LogBlocks \subseteq SUBSET Entries /\ LogHeights \subseteq Nat

Invalid256 == -1

VARIABLES
    question,         \* "none", "gas" or "logs"
    enough,           \* gas: the amounts with which the transaction does not run out
    lowerBound, upperBound, good,
    tried,            \* history: amounts it was executed with
    filter,           \* logs: the filter asked with
    blockLogs,        \* the entries of blocks 0, 1, ... and of the pending block
    from, to,         \* numbers of earliest and latest
    stray,            \* logs: whether what lies behind the topics of an entry happens to be asked for
    dead              \* entries of the dead block the filter may start from, whose parent is genesis

queryVars == <<question, enough, lowerBound, upperBound, good, tried, filter, blockLogs, from, to, stray, dead>>
gasVars == <<enough, lowerBound, upperBound, good, tried>>
logVars == <<filter, blockLogs, from, to, stray, dead>>

QueryInit ==
    /\ question = "none"
    /\ enough = {} /\ lowerBound = 0 /\ upperBound = 0 /\ good = FALSE /\ tried = {}
    /\ filter = (CHOOSE f \in Filters : TRUE) /\ blockLogs = << >> /\ from = 0 /\ to = 0 /\ stray = FALSE /\ dead = {}

-----------------------------------------------------------------------------
\* estimateGas

StartEstimate(maxGas, amounts) ==
    /\ question = "none"
    /\ question' = "gas"
    /\ enough' = amounts
    /\ upperBound' = IF maxGas = Invalid256 \/ maxGas > c_maxGasEstimate THEN c_maxGasEstimate ELSE maxGas
    /\ lowerBound' = baseGas
    /\ good' = FALSE /\ tried' = {}
    /\ UNCHANGED logVars

mid == (lowerBound + upperBound) \div 2

\* After the transaction did not run out of gas
upperAfter == IF upperBound = mid THEN lowerBound ELSE mid

Bisect ==
    /\ question = "gas" /\ upperBound # lowerBound
    /\ tried' = tried \cup {mid}
    /\ IF mid \in enough
       THEN /\ good' = TRUE /\ upperBound' = upperAfter
            /\ UNCHANGED lowerBound
       ELSE lowerBound' = (IF lowerBound = mid THEN upperBound ELSE mid) /\ UNCHANGED <<upperBound, good>>
    /\ UNCHANGED <<question, enough, logVars>>

-----------------------------------------------------------------------------
\* LogFilter.  Topics of one position are alternatives.

bloom(e) == {e.address} \cup ToSet(e.topics)
blockBloom(es) == UNION {bloom(e) : e \in es}

isRangeFilter(f) == f.m_addresses = {} /\ \A i \in DOMAIN f.m_topics : f.m_topics[i] = {}

matchesBloom(f, b) ==
    /\ f.m_addresses = {} \/ f.m_addresses \cap b # {}
    /\ \A i \in DOMAIN f.m_topics : f.m_topics[i] = {} \/ f.m_topics[i] \cap b # {}

\* The topic behind the last one of the entry is looked at, too
matchesEntry(f, e) ==
    /\ f.m_addresses = {} \/ e.address \in f.m_addresses
    /\ \A i \in DOMAIN f.m_topics :
           \/ f.m_topics[i] = {}
           \/ i \in DOMAIN e.topics /\ e.topics[i] \in f.m_topics[i]
           \/ i = Len(e.topics) + 1 /\ stray

matches(f, es) ==
    IF isRangeFilter(f) THEN es
    ELSE IF matchesBloom(f, blockBloom(es)) THEN {e \in es : matchesEntry(f, e)} ELSE {}

topicSets(f) == {f.m_topics[i] : i \in DOMAIN f.m_topics} \ {{}}

\* A plausible slip: addresses are combined with all topics at once, and the
\* case without topics is forgotten
bloomPossibilitiesJoint(f) == {{a} \cup t : a \in f.m_addresses, t \in topicSets(f)} \cup (IF f.m_addresses = {} THEN topicSets(f) ELSE {})

\* bloomPossibilities: each address with each position, an address alone if no
\* topics are asked for, a position alone if no address is.  The alternatives
\* of a position go into one bloom.
bloomPossibilities(f) ==
    LET both == {{a} \cup t : a \in f.m_addresses, t \in topicSets(f)}
    IN  (IF both = {} THEN {{a} : a \in f.m_addresses} ELSE both)
            \cup (IF f.m_addresses = {} THEN topicSets(f) ELSE {})

-----------------------------------------------------------------------------
\* logs, for numbers of earliest and latest; the last of blockLogs is pending

number == Len(blockLogs) - 2
entriesOf(n) == blockLogs[n + 1]

withBlockBloom(b, end, begin) == {n \in end .. begin : b \subseteq blockBloom(entriesOf(n))}

begin == Min({number + 1, to})
pendingLogs == IF begin > number THEN {<<number + 1, e>> : e \in matches(filter, entriesOf(number + 1))} ELSE {}
lastBlock == Min({begin, number})

\* What is reverted counts from the block after the common ancestor
deadLogs == {<<-1, e>> : e \in matches(filter, dead)}
end == LET first == Min({number, begin, from}) IN IF dead = {} THEN first ELSE Min({first, 1})

matchingBlocks ==
    IF isRangeFilter(filter) THEN end .. lastBlock
    ELSE UNION {withBlockBloom(b, end, lastBlock) : b \in bloomPossibilities(filter)}

logs == pendingLogs \cup deadLogs \cup UNION {{<<n, e>> : e \in matches(filter, entriesOf(n))} : n \in matchingBlocks}

AskLogs(f, blocks, first, last, reverted) ==
    /\ question = "none"
    /\ question' = "logs"
    /\ filter' = f /\ blockLogs' = blocks /\ from' = first /\ to' = last /\ dead' = reverted
    /\ stray' \in BOOLEAN
    /\ UNCHANGED gasVars

Ask ==
    /\ question = "none"
    /\ \/ \E maxGas \in {Invalid256} \cup (baseGas .. c_maxGasEstimate + 1), amounts \in SUBSET (1 .. c_maxGasEstimate) :
              StartEstimate(maxGas, amounts)
       \/ \E f \in Filters, h \in LogHeights : \E blocks \in [1 .. h + 2 -> LogBlocks],
             first \in 0 .. h + 1, last \in 0 .. h + 1, reverted \in LogBlocks :
              first <= last /\ AskLogs(f, blocks, first, last, reverted)

QueryNext == Ask \/ Bisect

QuerySpec == QueryInit /\ [][QueryNext]_queryVars

-----------------------------------------------------------------------------
(***************************************************************************)
(* estimateGas ends with an amount that the transaction was executed with   *)
(* and did not run out of, or else with the most it was allowed, and then   *)
(* it ran out of every amount it tried: whatever the amounts are that       *)
(* suffice, for these need not be all above some limit.                     *)
(***************************************************************************)
EstimateIsTried ==
    question = "gas" /\ lowerBound = upperBound =>
        IF good THEN upperBound \in tried \cap enough /\ (\A g \in tried : g < upperBound => g \notin enough)
        ELSE tried \cap enough = {}

\* What a filter asks for, by a look at every block
asked ==
    {e \in Entries :
        /\ filter.m_addresses = {} \/ e.address \in filter.m_addresses
        /\ \A i \in DOMAIN filter.m_topics :
               filter.m_topics[i] = {} \/ (i \in DOMAIN e.topics /\ e.topics[i] \in filter.m_topics[i])}
allFound == LET found == logs
            IN  \A n \in from .. Min({to, number}) : \A e \in entriesOf(n) \cap asked : <<n, e>> \in found

(***************************************************************************)
(* logs finds what a look at every block from earliest to latest would      *)
(* find, for filters with one alternative for each topic at the most; not   *)
(* where in the answer, nor how often.                                      *)
(***************************************************************************)
SingleTopicsFindAll ==
    question = "logs" /\ (\A t \in topicSets(filter) : Cardinality(t) = 1) => allFound

(***************************************************************************)
(* Both searches find what is there.                                        *)
(***************************************************************************)
QuestionsAnswered == EstimateIsTried /\ SingleTopicsFindAll

(***************************************************************************)
(* SingleTopicsFindAll without its condition: LogFilter::matches takes the  *)
(* topics of one position for alternatives, bloomPossibilities does not.    *)
(***************************************************************************)
FiltersFindAll == question = "logs" => allFound

-----------------------------------------------------------------------------
(***************************************************************************)
(* Inductive: between two trials the amounts that sufficed are not below    *)
(* the upper bound, which is the last of them.                              *)
(***************************************************************************)
EstimateInv ==
    question = "gas" =>
        /\ lowerBound \in Nat /\ upperBound \in Nat /\ lowerBound <= upperBound
        /\ good \in BOOLEAN /\ tried \subseteq Nat
        /\ IF good THEN upperBound \in tried \cap enough ELSE tried \cap enough = {}
        /\ \A g \in tried \cap enough : upperBound <= g

LogsInv ==
    question = "logs" =>
        /\ filter \in Filters /\ number \in Nat
        /\ from \in 0 .. number + 1 /\ to \in 0 .. number + 1

QueryInv == EstimateInv /\ LogsInv
=============================================================================
