-------------------------------- MODULE Watches --------------------------------
(***************************************************************************)
(* The watches and filters of libethereum/ClientBase and Client: clients    *)
(* install, poll and uninstall watches from RPC threads, the client's       *)
(* thread appends changes to the filters, moves them to the watches and     *)
(* collects the watches nobody polls.  x_filtersWatches is held for one     *)
(* step at a time.  What a filter matches is an input here.                 *)
(***************************************************************************)
EXTENDS Integers, Sequences, FiniteSets, SequencesExt, FiniteSetsExt, Functions

CONSTANTS
    Callers,          \* RPC clients, each with one watch at a time
    LogFilters,       \* filters they may ask for
    MaxChanges,       \* bound on the changes appended
    MaxInstalls       \* bound on the watches installed

Special == {"pending", "chain"}

VARIABLES
    m_filters,        \* installed filters: reference count and changes
    m_specialFilters,
    m_watches,        \* by number: filter, changes, whether it can expire and has; and who installed it
    handle,           \* per caller: the filter it registered, and the number it was given
    io_changed,       \* filters with changes to hand on, in the client's thread
    toUninstall,      \* the watches that the collection found expired
    changes,          \* number of changes so far
    installs,
    due, got          \* history, per caller: what its watch should get, what it got

watchVars == <<m_filters, m_specialFilters, m_watches, handle, io_changed, toUninstall, changes, installs, due, got>>

idle == [filter |-> "none", automatic |-> TRUE, number |-> -1]

WatchInit ==
    /\ m_filters = << >> /\ m_specialFilters = [s \in Special |-> << >>]
    /\ m_watches = << >>
    /\ handle = [c \in Callers |-> idle]
    /\ io_changed = {} /\ toUninstall = {}
    /\ changes = 0 /\ installs = 0
    /\ due = [c \in Callers |-> {}] /\ got = [c \in Callers |-> << >>]

own(c) == handle[c].number \in DOMAIN m_watches /\ m_watches[handle[c].number].by = c

-----------------------------------------------------------------------------
\* installWatch takes the lock twice: for the filter, whose count of references
\* starts at one and is not increased if it is there, and for the watch

InstallFilter(c, f, automatic) ==
    /\ handle[c] = idle /\ installs < MaxInstalls
    /\ installs' = installs + 1
    /\ handle' = [handle EXCEPT ![c] = [filter |-> f, automatic |-> automatic, number |-> -1]]
    /\ m_filters' = IF f \in Special \cup DOMAIN m_filters THEN m_filters
                    ELSE [g \in DOMAIN m_filters \cup {f} |->
                             IF g = f THEN [refCount |-> 1, changes |-> << >>] ELSE m_filters[g]]
    /\ UNCHANGED <<m_specialFilters, m_watches, io_changed, toUninstall, changes, due, got>>

nextWatch == IF DOMAIN m_watches = {} THEN 0 ELSE Max(DOMAIN m_watches) + 1

InstallWatch(c) ==
    /\ handle[c].filter # "none" /\ handle[c].number = -1
    /\ handle' = [handle EXCEPT ![c].number = nextWatch]
    /\ m_watches' = [i \in DOMAIN m_watches \cup {nextWatch} |->
                        IF i = nextWatch
                        THEN [id |-> handle[c].filter, changes |-> << >>, automatic |-> handle[c].automatic,
                              expired |-> FALSE, by |-> c]
                        ELSE m_watches[i]]
    /\ due' = [due EXCEPT ![c] = {}] /\ got' = [got EXCEPT ![c] = << >>]
    /\ UNCHANGED <<m_filters, m_specialFilters, io_changed, toUninstall, changes, installs>>

\* uninstallWatch: the filter goes when its count of references is zero
uninstalled(i) ==
    LET id == m_watches[i].id
        rest == Restrict(m_watches, DOMAIN m_watches \ {i})
        last == id \in DOMAIN m_filters /\ m_filters[id].refCount = 1
    IN  /\ m_watches' = rest
        /\ m_filters' = CASE last -> Restrict(m_filters, DOMAIN m_filters \ {id})
                          [] id \in DOMAIN m_filters /\ ~last -> [m_filters EXCEPT ![id].refCount = @ - 1]
                          [] id \notin DOMAIN m_filters -> m_filters
        /\ due' = [c \in Callers |-> IF last /\ handle[c].filter = id THEN {} ELSE due[c]]

UninstallWatch(c) ==
    /\ own(c)
    /\ uninstalled(handle[c].number)
    /\ handle' = [handle EXCEPT ![c] = idle]
    /\ UNCHANGED <<m_specialFilters, io_changed, toUninstall, changes, installs, got>>

\* checkWatch empties the watch, peekWatch does not; both keep it alive
CheckWatch(c) ==
    /\ own(c)
    /\ got' = [got EXCEPT ![c] = @ \o m_watches[handle[c].number].changes]
    /\ m_watches' = [m_watches EXCEPT ![handle[c].number].changes = << >>, ![handle[c].number].expired = FALSE]
    /\ UNCHANGED <<m_filters, m_specialFilters, handle, io_changed, toUninstall, changes, installs, due>>

PeekWatch(c) ==
    /\ own(c) /\ m_watches[handle[c].number].expired
    /\ m_watches' = [m_watches EXCEPT ![handle[c].number].expired = FALSE]
    /\ UNCHANGED <<m_filters, m_specialFilters, handle, io_changed, toUninstall, changes, installs, due, got>>

\* A caller notices that its watch was collected
GiveUp(c) ==
    /\ handle[c].number # -1 /\ ~own(c)
    /\ handle' = [handle EXCEPT ![c] = idle]
    /\ UNCHANGED <<m_filters, m_specialFilters, m_watches, io_changed, toUninstall, changes, installs, due, got>>

\* 20 seconds pass without a poll
Expire(i) ==
    /\ m_watches[i].automatic /\ ~m_watches[i].expired
    /\ m_watches' = [m_watches EXCEPT ![i].expired = TRUE]
    /\ UNCHANGED <<m_filters, m_specialFilters, handle, io_changed, toUninstall, changes, installs, due, got>>

-----------------------------------------------------------------------------
\* The client's thread

\* A transaction became pending (appendFromNewPending) or a block was added to
\* the chain or taken from it (appendFromBlock): its logs match some filters
append(special, matching) ==
    LET k == changes + 1
    IN  /\ changes < MaxChanges /\ toUninstall = {}
        /\ changes' = k
        /\ io_changed' = io_changed \cup {special} \cup matching
        /\ m_specialFilters' = [m_specialFilters EXCEPT ![special] = Append(@, k)]
        /\ m_filters' = [f \in DOMAIN m_filters |->
                            IF f \in matching THEN [m_filters[f] EXCEPT !.changes = Append(@, k)] ELSE m_filters[f]]
        /\ due' = [c \in Callers |->
                      IF own(c) /\ handle[c].filter \in matching \cup {special} THEN due[c] \cup {k} ELSE due[c]]
        /\ UNCHANGED <<m_watches, handle, toUninstall, installs, got>>

AppendFromNewPending(matching) == append("pending", matching)
AppendFromBlock(matching) == append("chain", matching)

\* What a watch gets from its filter
accrued(w) ==
    CASE w.id \notin io_changed -> << >>
      [] w.id \in io_changed \cap DOMAIN m_filters -> m_filters[w.id].changes
      [] w.id \in io_changed \cap Special -> m_specialFilters[w.id]
      [] OTHER -> << >>

\* A plausible slip: the filters' changes stay
filtersKept(filters) == filters

\* noteChanged: every filter is cleared, those that did not change too
filtersCleared(filters) == [f \in DOMAIN filters |-> [filters[f] EXCEPT !.changes = << >>]]

NoteChanged ==
    /\ io_changed # {}
    /\ m_watches' = [i \in DOMAIN m_watches |-> [m_watches[i] EXCEPT !.changes = @ \o accrued(m_watches[i])]]
    /\ m_filters' = filtersCleared(m_filters)
    /\ m_specialFilters' = [s \in Special |-> << >>]
    /\ io_changed' = {}
    /\ UNCHANGED <<handle, toUninstall, changes, installs, due, got>>

\* checkWatchGarbage finds the expired watches under the lock and uninstalls
\* them one by one, by number, without looking again
CheckWatchGarbage ==
    /\ io_changed = {} /\ toUninstall = {}
    /\ toUninstall' = {i \in DOMAIN m_watches : m_watches[i].expired}
    /\ toUninstall' # {}
    /\ UNCHANGED <<m_filters, m_specialFilters, m_watches, handle, io_changed, changes, installs, due, got>>

UninstallExpired(i) ==
    /\ toUninstall' = toUninstall \ {i}
    /\ IF i \in DOMAIN m_watches THEN uninstalled(i) ELSE UNCHANGED <<m_watches, m_filters, due>>
    /\ UNCHANGED <<m_specialFilters, handle, io_changed, changes, installs, got>>

WatchNext ==
    \/ \E c \in Callers :
           \/ \E f \in LogFilters \cup Special, automatic \in BOOLEAN : InstallFilter(c, f, automatic)
           \/ InstallWatch(c)
           \/ UninstallWatch(c)
           \/ CheckWatch(c)
           \/ PeekWatch(c)
           \/ GiveUp(c)
    \/ \E i \in DOMAIN m_watches : Expire(i)
    \/ \E matching \in SUBSET DOMAIN m_filters : AppendFromNewPending(matching) \/ AppendFromBlock(matching)
    \/ NoteChanged
    \/ CheckWatchGarbage
    \/ \E i \in toUninstall : UninstallExpired(i)

WatchSpec == WatchInit /\ [][WatchNext]_watchVars

-----------------------------------------------------------------------------
(***************************************************************************)
(* A watch is given no change twice; and once the changes were handed on,   *)
(* what the filter of a watch matched since the watch was there is among    *)
(* what its owner took or can take.  Only while the filter is there:        *)
(* uninstalled empties due for the watches whose filter it erases, and a    *)
(* filter made anew starts afresh.                                          *)
(***************************************************************************)
ChangesReachWatches ==
    \A c \in Callers :
        own(c) => LET all == got[c] \o m_watches[handle[c].number].changes
                  IN  IsInjective(all) /\ (io_changed = {} => due[c] \subseteq ToSet(all))

(***************************************************************************)
(* The comment on m_watches, "Each and every watch - these reference a      *)
(* filter": a watch that is installed has its filter.                       *)
(***************************************************************************)
WatchesReferenceFilters ==
    \A i \in DOMAIN m_watches : m_watches[i].id \in DOMAIN m_filters \cup Special

-----------------------------------------------------------------------------
WatchTypes ==
    /\ changes \in Nat
    /\ m_filters \in [DOMAIN m_filters -> [refCount : Int, changes : Seq(Nat)]] /\ DOMAIN m_filters \cap Special = {}
    /\ m_specialFilters \in [Special -> Seq(Nat)]
    /\ m_watches \in [DOMAIN m_watches -> [id : LogFilters \cup Special, changes : Seq(Nat), automatic : BOOLEAN,
                                           expired : BOOLEAN, by : Callers]]
    /\ DOMAIN m_watches \subseteq Nat /\ IsFiniteSet(DOMAIN m_watches)
    /\ handle \in [Callers -> [filter : LogFilters \cup Special \cup {"none"}, automatic : BOOLEAN, number : Int]]
    /\ due \in [Callers -> SUBSET Nat] /\ got \in [Callers -> Seq(Nat)]

\* The changes of a filter that were not handed on, and what a caller's watch was given.
pending(f) ==
    IF f \in DOMAIN m_filters THEN m_filters[f].changes
    ELSE IF f \in Special THEN m_specialFilters[f] ELSE << >>
given(c) == got[c] \o m_watches[handle[c].number].changes

Increasing(s) == \A i, j \in DOMAIN s : i < j => s[i] < s[j]

FilterSound(f) ==
    /\ Increasing(pending(f)) /\ \A k \in ToSet(pending(f)) : k <= changes
    /\ pending(f) # << >> => f \in io_changed

WatchSound(c) ==
    \A f \in LogFilters \cup Special : own(c) /\ m_watches[handle[c].number].id = f =>
        /\ handle[c].filter = f
        /\ Increasing(given(c)) /\ \A k \in ToSet(given(c)) : k <= changes
        /\ \A k \in ToSet(given(c)), l \in ToSet(pending(f)) : k < l
        /\ due[c] \subseteq ToSet(given(c)) \cup ToSet(pending(f))

(***************************************************************************)
(* Inductive: the changes of a filter that were not handed on are younger   *)
(* than those that its watches were given, and with these they are all that *)
(* is due.                                                                  *)
(***************************************************************************)
WatchInv ==
    /\ WatchTypes
    /\ \A f \in DOMAIN m_filters \cup Special : FilterSound(f)
    /\ \A c \in Callers : WatchSound(c)
=============================================================================
