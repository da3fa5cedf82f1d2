----------------------------- MODULE Executive -----------------------------
(***************************************************************************)
(* Execution of transactions (libethereum/Executive): the checks before,    *)
(* the payment of the gas, the message call or creation with the calls it   *)
(* nests, what is undone when one of them fails, and the final settlement.  *)
(* The VM's program is any sequence of the steps through which code can     *)
(* touch what Executive keeps.  State's change log, savepoints and roll     *)
(* back, and the ExtVM that nests one Executive in another, are used from   *)
(* their headers: a savepoint is the state it was taken of.                 *)
(***************************************************************************)
EXTENDS Integers, Sequences, FiniteSets, SequencesExt, FiniteSetsExt

CONSTANTS
    Externals,        \* accounts with keys
    Contracts,        \* accounts with code
    Precompiled,      \* addresses of precompiled contracts
    MaxAddress,       \* the sender of transactions without a signature
    Author,           \* the author of the block
    InitialBalance,   \* account -> balance before the first transaction
    Transactions,     \* the transactions that may come, each with its id
    metropolis,       \* is the block from metropolisForkBlock on?
    BlockGasLimit, baseGas, precompiledGas, createDataGas, maxCodeSize,
    exceptionalFailedCodeDeposit,
    MaxDepth,         \* bound on the call depth (1024 in the code)
    MaxNonce          \* bound on the nonces of creators

VARIABLES
    st,               \* m_s: balances, nonces, accounts with code, writes
    m_t,              \* the transaction, or NoTx
    frames,           \* the Executives under way, the outermost first
    outcome,          \* m_gas and m_ext->sub of the outermost, once it is done
    gasUsed,          \* gas used in the block so far
    executed,         \* history: the transactions that were executed
    burnt,            \* history: ether of killed accounts
    unbought          \* history: fees handed out for gas that nobody paid for

execVars == <<st, m_t, frames, outcome, gasUsed, executed, burnt, unbought>>

NoTx == [id |-> 0]
NoSub == [logs |-> {}, refunds |-> 0, suicides |-> {}]
Running == [gas |-> -1, sub |-> NoSub]

creators == Externals \cup Contracts
newAddresses == creators \X (0..MaxNonce)
accounts == creators \cup Precompiled \cup {MaxAddress, Author} \cup newAddresses

\* Addresses of contracts, which are hashes, are not those of accounts with keys
ASSUME ExecutiveAssumption ==
    /\ IsFiniteSet(creators \cup Precompiled) /\ MaxNonce \in Nat /\ metropolis \in BOOLEAN
    /\ Externals \cap (Contracts \cup newAddresses) = {}
    /\ InitialBalance \in [DOMAIN InitialBalance -> Nat] /\ DOMAIN InitialBalance \subseteq accounts
    /\ {baseGas, precompiledGas, createDataGas, maxCodeSize} \subseteq Nat
    /\ \A t \in Transactions :
           /\ t.id # 0 /\ t.from \in Externals \cup {MaxAddress} /\ t.to \in accounts
           /\ {t.nonce, t.gas, t.price, t.value} \subseteq Nat

signed(t) == t.from # MaxAddress

\* Transaction::baseGasRequired: more for a creation
m_baseGasRequired(t) == IF t.creation THEN 2 * baseGas ELSE baseGas

ExecInit ==
    /\ st = [balance |-> [a \in accounts |-> IF a \in DOMAIN InitialBalance THEN InitialBalance[a] ELSE 0],
             nonce   |-> [a \in accounts |-> 0],
             code    |-> Contracts,
             writes  |-> {},
             cleared |-> 0]
    /\ m_t = NoTx
    /\ frames = << >>
    /\ outcome = Running
    /\ gasUsed = 0
    /\ executed = {}
    /\ burnt = 0
    /\ unbought = 0

-----------------------------------------------------------------------------
\* State, as Executive uses it

addBalance(s, a, v) == [s EXCEPT !.balance[a] = @ + v]

transferBalance(s, from, to, v) ==
    addBalance(addBalance(s, from, 0 - v), to, v)

incNonce(s, a) == IF a = MaxAddress THEN s ELSE [s EXCEPT !.nonce[a] = @ + 1]

kill(s, as) ==
    [s EXCEPT !.balance = [a \in accounts |-> IF a \in as THEN 0 ELSE @[a]],
              !.nonce = [a \in accounts |-> IF a \in as THEN 0 ELSE @[a]],
              !.code = @ \ as]

-----------------------------------------------------------------------------
\* initialize: every check that may refuse the transaction

\* Without a signature: before metropolis any message call, from then on what
\* moves and pays nothing
verifyTransaction(t) ==
    ~signed(t) => IF metropolis THEN t.value = 0 /\ t.price = 0 /\ t.nonce = 0
                                ELSE ~t.creation

accepted(t) ==
    /\ verifyTransaction(t)
    /\ gasUsed + t.gas <= BlockGasLimit
    /\ m_baseGasRequired(t) <= t.gas
    /\ signed(t) => /\ t.nonce = st.nonce[t.from]
                    /\ t.value + t.gas * t.price <= st.balance[t.from]
    /\ ~signed(t) => t.value <= st.balance[t.from]    \* else State refuses the transfer

\* Only the checks of a signed transaction set it: the gas of another is free
m_gasCost(t) == IF signed(t) THEN t.gas * t.price ELSE 0

\* The state a message call starts from and its savepoint.  The nonce of a
\* transaction's sender is raised before the savepoint.
entered(s, external, sender) ==
    LET in == IF external THEN incNonce(s, sender) ELSE s
    IN  [state |-> in, savepoint |-> in]

-----------------------------------------------------------------------------
\* call and create: they end at once, or push the frame of a VM

Frame(self, gas, savepoint, creation) ==
    [self |-> self, gas |-> gas, savepoint |-> savepoint, creation |-> creation, sub |-> NoSub]

\* Where the gas of an Executive goes when it is done: to the caller's frame,
\* with its substate, or to finalize
done(rest, gas, sub) ==
    IF rest = << >>
    THEN frames' = rest /\ outcome' = [gas |-> gas, sub |-> sub]
    ELSE LET up == Len(rest)
         IN  /\ frames' = [rest EXCEPT ![up].gas = @ + gas,
                                       ![up].sub.logs = @ \cup sub.logs,
                                       ![up].sub.refunds = @ + sub.refunds,
                                       ![up].sub.suicides = @ \cup sub.suicides]
             /\ UNCHANGED outcome

\* None of the precompiled contracts registered here fails with the gas it costs
call(s, rest, sender, to, value, gas) ==
    LET e == entered(s, rest = << >>, sender)
        paid == transferBalance(e.state, sender, to, value)
    IN  CASE to \in Precompiled /\ gas < precompiledGas ->
                 done(rest, 0, NoSub) /\ st' = e.state
          [] to \in Precompiled /\ gas >= precompiledGas ->
                 done(rest, gas - precompiledGas, NoSub) /\ st' = paid
          [] to \in st.code ->
                 /\ frames' = Append(rest, Frame(to, gas, e.savepoint, FALSE))
                 /\ st' = paid
                 /\ UNCHANGED outcome
          [] OTHER -> done(rest, gas, NoSub) /\ st' = paid

\* m_newAddress of a creation by an account
newAddress(s, sender) == <<sender, s.nonce[sender]>>

create(s, rest, sender, endowment, gas, init) ==
    LET savepoint == incNonce(s, sender)
        new == newAddress(s, sender)
        made == incNonce(transferBalance(savepoint, sender, new, endowment), new)
    IN  IF init
        THEN /\ frames' = Append(rest, Frame(new, gas, savepoint, TRUE))
             /\ st' = made
             /\ UNCHANGED outcome
        ELSE /\ done(rest, gas, NoSub)
             /\ st' = [made EXCEPT !.code = @ \ {new}]

canCreate(a) == a \in creators /\ st.nonce[a] < MaxNonce

-----------------------------------------------------------------------------
\* A transaction is refused, and leaves no trace, or executed
Execute(t) ==
    /\ m_t = NoTx
    /\ accepted(t)
    /\ t.creation => canCreate(t.from)
    /\ m_t' = t
    /\ LET s == addBalance([st EXCEPT !.writes = {}, !.cleared = 0], t.from, 0 - m_gasCost(t))
           gas == t.gas - m_baseGasRequired(t)
       IN  IF t.creation THEN create(s, << >>, t.from, t.value, gas, t.init)
                         ELSE call(s, << >>, t.from, t.to, t.value, gas)
    /\ executed' = executed \cup {t}
    /\ UNCHANGED <<gasUsed, burnt, unbought>>

\* The running VM: the innermost frame
depth == Len(frames)
top == frames[depth]
below == Front(frames)
Active == frames # << >>
spend(g) == [frames EXCEPT ![depth].gas = @ - g]

\* Storage is written, perhaps cleared, and a log entry made
Write(clears) ==
    LET id == Cardinality(st.writes) + 1
    IN  /\ Active /\ top.gas > 0
        /\ frames' = [spend(1) EXCEPT ![depth].sub.logs = @ \cup {id},
                                      ![depth].sub.refunds = IF clears THEN @ + 1 ELSE @]
        /\ st' = [st EXCEPT !.writes = @ \cup {id}, !.cleared = IF clears THEN @ + 1 ELSE @]
        /\ UNCHANGED <<m_t, outcome, gasUsed, executed, burnt, unbought>>

\* CALL with some of the gas
VMCall(to, value, g) ==
    /\ Active /\ depth < MaxDepth
    /\ top.gas >= 1 + g
    /\ to # top.self
    /\ value <= st.balance[top.self]
    /\ call(st, spend(1 + g), top.self, to, value, g)
    /\ UNCHANGED <<m_t, gasUsed, executed, burnt, unbought>>

\* CREATE with all the gas
VMCreate(value, init) ==
    /\ Active /\ depth < MaxDepth /\ top.gas > 0
    /\ canCreate(top.self)
    /\ value <= st.balance[top.self]
    /\ create(st, spend(top.gas), top.self, value, top.gas - 1, init)
    /\ UNCHANGED <<m_t, gasUsed, executed, burnt, unbought>>

\* A plausible slip: the substate survives the roll back
revertKeepingSub(f) == [sub |-> f.sub, state |-> f.savepoint]

\* Executive::revert
revert(f) == [sub |-> NoSub, state |-> f.savepoint]

\* The VM throws: the gas is lost, the state rolled back
ended(f, s, gas) == done(below, gas, f.sub) /\ st' = s

failed(gas) ==
    LET r == revert(top) IN ended([top EXCEPT !.sub = r.sub], r.state, gas)

VMException ==
    /\ Active
    /\ failed(0)
    /\ UNCHANGED <<m_t, gasUsed, executed, burnt, unbought>>

\* REVERT keeps the gas
VMRevert ==
    /\ Active
    /\ failed(top.gas)
    /\ UNCHANGED <<m_t, gasUsed, executed, burnt, unbought>>

\* STOP or RETURN of a message call
VMReturn ==
    /\ Active /\ ~top.creation
    /\ ended(top, st, top.gas)
    /\ UNCHANGED <<m_t, gasUsed, executed, burnt, unbought>>

\* The initialisation code returns the contract's code, which is paid for
VMDeposit(size) ==
    LET cost == size * createDataGas
    IN  /\ Active /\ top.creation
        /\ CASE size > maxCodeSize -> failed(0)
             [] size <= maxCodeSize /\ cost <= top.gas ->
                    ended(top, [st EXCEPT !.code = IF size > 0 THEN @ \cup {top.self} ELSE @ \ {top.self}],
                          top.gas - cost)
             [] size <= maxCodeSize /\ cost > top.gas ->
                    IF exceptionalFailedCodeDeposit THEN failed(0)
                    ELSE ended(top, [st EXCEPT !.code = @ \ {top.self}], top.gas)
        /\ UNCHANGED <<m_t, gasUsed, executed, burnt, unbought>>

\* SUICIDE: the balance goes to another account, the account dies at the end
VMSuicide(to) ==
    /\ Active
    /\ to # top.self
    /\ ended([top EXCEPT !.sub.suicides = @ \cup {top.self}],
             transferBalance(st, top.self, to, st.balance[top.self]), top.gas)
    /\ UNCHANGED <<m_t, gasUsed, executed, burnt, unbought>>

suicideRefundGas == 1

\* A plausible slip: the author's fees are computed before the refund
settledEarly(gas, refunded) == [sender |-> gas + refunded, author |-> m_t.gas - gas]

\* What the sender gets back and what the author earns
settled(gas, refunded) == [sender |-> gas + refunded, author |-> m_t.gas - (gas + refunded)]

\* What is divided without having been paid
unpaid(t) == t.gas * t.price - m_gasCost(t)

\* finalize
Finalize ==
    LET sub == outcome.sub
        refunds == sub.refunds + suicideRefundGas * Cardinality(sub.suicides)
        gas == settled(outcome.gas, Min({(m_t.gas - outcome.gas) \div 2, refunds}))
        paid == addBalance(addBalance(st, m_t.from, gas.sender * m_t.price), Author, gas.author * m_t.price)
    IN  /\ m_t # NoTx
        /\ outcome # Running
        /\ st' = kill(paid, sub.suicides)
        /\ burnt' = burnt + MapThenSumSet(LAMBDA a : paid.balance[a], sub.suicides)
        /\ unbought' = unbought + unpaid(m_t)
        /\ gasUsed' = gasUsed + m_t.gas - gas.sender
        /\ m_t' = NoTx
        /\ outcome' = Running
        /\ UNCHANGED <<frames, executed>>

ExecNext ==
    \/ \E t \in Transactions : Execute(t)
    \/ \E clears \in BOOLEAN : Write(clears)
    \/ \E to \in Contracts \cup Precompiled \cup Externals, value \in 0..1, g \in {0, 2} : VMCall(to, value, g)
    \/ \E value \in 0..1, init \in BOOLEAN : VMCreate(value, init)
    \/ VMException
    \/ VMRevert
    \/ VMReturn
    \/ \E size \in {0, maxCodeSize, maxCodeSize + 1} : VMDeposit(size)
    \/ \E to \in Externals : VMSuicide(to)
    \/ Finalize

ExecSpec == ExecInit /\ [][ExecNext]_execVars

-----------------------------------------------------------------------------
total(f) == MapThenSumSet(LAMBDA a : f[a], DOMAIN f)

\* Ether that is not on an account: of killed ones, and paid for gas, less what
\* came to be on one for nothing
aside == burnt - unbought + (IF m_t = NoTx THEN 0 ELSE m_gasCost(m_t))

(***************************************************************************)
(* No step of a transaction makes or loses ether, but for one case: what is *)
(* not on an account is the gas the sender has paid and finalize has not    *)
(* yet divided between sender and author, or was on an account that was     *)
(* killed; what is on one too many are the fees of transactions without a   *)
(* signature, which before metropolis may have a price and for which        *)
(* initialize sets no m_gasCost, so that finalize divides what nobody paid. *)
(***************************************************************************)
EtherConserved == total(st.balance) + aside = total(InitialBalance)

(***************************************************************************)
(* The effects that the state keeps (storage) and those that the substate   *)
(* keeps (logs, refunds) stand or fall together: whatever nests and fails,  *)
(* a log entry or a refund of a call survives if and only if its writes do. *)
(***************************************************************************)
EffectsStandOrFall ==
    LET subs == {frames[i].sub : i \in DOMAIN frames} \cup {outcome.sub}
    IN  m_t # NoTx =>
            /\ UNION {s.logs : s \in subs} = st.writes
            /\ outcome.sub.refunds + total([i \in DOMAIN frames |-> frames[i].sub.refunds]) = st.cleared

(***************************************************************************)
(* A signed transaction that was executed, however it failed, can not be    *)
(* executed again: its nonce is used up.                                    *)
(***************************************************************************)
NoReplay == \A t \in executed : signed(t) => st.nonce[t.from] > t.nonce

(***************************************************************************)
(* A transaction happens as a whole or not at all, and once: its effects,   *)
(* in the state and in the substate, and the nonce that it uses up.         *)
(***************************************************************************)
TransactionsAtomic == EffectsStandOrFall /\ NoReplay

-----------------------------------------------------------------------------
\* The inductive invariant behind EtherConserved and TransactionsAtomic.
isState(s) ==
    s \in [balance : [accounts -> Int], nonce : [accounts -> Nat], code : SUBSET (accounts \ Externals),
           writes : {s.writes}, cleared : Int]

isSub(sub) == sub \in [logs : {sub.logs}, refunds : Int, suicides : SUBSET (accounts \ Externals)]

isFrame(f) ==
    /\ f \in [self : accounts \ Externals, gas : Int, savepoint : {f.savepoint}, creation : {f.creation}, sub : {f.sub}]
    /\ isState(f.savepoint) /\ isSub(f.sub)

\* The effects of the outermost n frames
logsOf(fs, n) == UNION {fs[i].sub.logs : i \in 1..n}
refundsOf(fs, n) == total([i \in 1..n |-> fs[i].sub.refunds])

\* A state to go on from, or to go back to, while so much ether is aside
Sound(s, past, owed) ==
    /\ isState(s)
    /\ total(s.balance) + owed = total(InitialBalance)
    /\ \A t \in past : signed(t) => s.nonce[t.from] > t.nonce

\* A savepoint has the effects of the frames outside its own
Stacked(fs, past, owed) ==
    /\ fs \in Seq(Range(fs))
    /\ \A i \in 1..Len(fs) :
           /\ isFrame(fs[i]) /\ Sound(fs[i].savepoint, past, owed)
           /\ fs[i].savepoint.writes = logsOf(fs, i - 1) /\ fs[i].savepoint.cleared = refundsOf(fs, i - 1)

ExecInv ==
    /\ m_t \in Transactions \cup {NoTx} /\ executed \subseteq Transactions /\ burnt \in Int /\ unbought \in Int
    /\ Sound(st, executed, aside) /\ Stacked(frames, executed, aside)
    /\ outcome \in [gas : Int, sub : {outcome.sub}] /\ isSub(outcome.sub)
    /\ frames # <<>> => m_t # NoTx
    /\ frames # <<>> \/ m_t = NoTx => outcome = Running
    /\ m_t # NoTx => /\ st.writes = logsOf(frames, Len(frames)) \union outcome.sub.logs
                     /\ st.cleared = refundsOf(frames, Len(frames)) + outcome.sub.refunds
=============================================================================
