-------------------------------- MODULE EVM --------------------------------
(***************************************************************************)
(* The interpreter VM (exec, interpretCases and the functions it bounces   *)
(* to).  A word has WordBytes bytes of ByteSize values each; an element of *)
(* the code is a byte of it, named by the instruction it encodes.  What    *)
(* ExtVM answers and what the memory holds is any word.                    *)
(***************************************************************************)
EXTENDS Integers, Sequences, FiniteSetsExt

CONSTANTS
    Programs,          \* the codes to run
    Schedules,         \* the EVMSchedules to run them under
    InitialGas,        \* the gas to run them with
    Answers,           \* bound: the words ExtVM and the memory answer with
    WordBytes, ByteSize,
    c_stackSize,       \* 1024 words
    c_maxInt63,        \* toInt63
    c_allButOne        \* 64

W == ByteSize ^ WordBytes
Words == 0 .. W - 1

\* Words are made of bits, and the bytes of the code are bytes.  What a
\* schedule prices costs something, SUICIDE and an account that is made apart;
\* a stipend is at most the price of the value that it comes with.
ASSUME EVMAssumption ==
    /\ WordBytes \in Nat \ {0, 1} /\ ByteSize \in Nat \ 0 .. 3 /\ c_allButOne \in Nat \ {0}
    /\ \A i \in 0 .. WordBytes : ByteSize ^ i \in 1 .. W
    /\ ByteSize ^ 1 = ByteSize /\ ByteSize ^ 2 = ByteSize * ByteSize
    /\ W \in { 2 ^ i : i \in 0 .. W } /\ 2 ^ 0 = 1 /\ \A i \in 0 .. W : 2 ^ (i + 1) = 2 * 2 ^ i
    /\ Answers \subseteq Words /\ InitialGas \subseteq Nat
    /\ \A p \in Programs : p \in Seq(STRING)
    /\ \A s \in Schedules :
           /\ {s.callStipend, s.callValueTransferGas, s.callNewAccountGas,
               s.memoryGas, s.copyGas, s.suicideGas} \subseteq Nat
           /\ {s.callGas, s.createGas, s.logGas, s.sstoreSetGas, s.sstoreResetGas,
               s.quadCoeffDiv} \subseteq Nat \ {0}
           /\ s.callStipend <= s.callValueTransferGas

VARIABLES
    code, schedule,
    m_PC, m_io_gas,
    m_stack,     \* m_SP[0] first
    m_memSize,   \* m_mem.size()
    touched,     \* the bytes of m_mem the last instruction used: <<first, after the last>>
    m_bounce,    \* "interpretCases", "calling", or 0
    calleeGas,   \* what the callee may still spend
    storage, refunds, jumpedTo, halted

evmVars == <<code, schedule, m_PC, m_io_gas, m_stack, m_memSize, touched, m_bounce,
             calleeGas, storage, refunds, jumpedTo, halted>>

-----------------------------------------------------------------------------
\* Arithmetic: everything is modulo W, the signed operations read a word as
\* two's complement.
wrap(i) == i % W
u2s(w) == IF 2 * w < W THEN w ELSE w - W
abs(i) == IF i < 0 THEN -i ELSE i
\* C++ divides towards zero.
quotient(a, b) == (abs(a) \div abs(b)) * (IF (a < 0) = (b < 0) THEN 1 ELSE -1)

\* exp256: square and multiply.
exp256(base, exponent) ==
    LET power[e \in Words] == [b \in Words |->
            IF e = 0 THEN 1
            ELSE wrap((IF e % 2 = 1 THEN b ELSE 1) * power[e \div 2][wrap(b * b)])]
    IN power[exponent][base]

arithmetic(op, a, b) ==
    CASE op = "ADD" -> wrap(a + b)
      [] op = "MUL" -> wrap(a * b)
      [] op = "SUB" -> wrap(a - b)
      [] op = "DIV" -> IF b = 0 THEN 0 ELSE a \div b
      [] op = "SDIV" -> IF b = 0 THEN 0 ELSE wrap(quotient(u2s(a), u2s(b)))
      [] op = "MOD" -> IF b = 0 THEN 0 ELSE a % b
      [] op = "SMOD" -> IF b = 0 THEN 0
                        ELSE wrap(u2s(a) - u2s(b) * quotient(u2s(a), u2s(b)))
      [] op = "EXP" -> exp256(a, b)

truth(b) == IF b THEN 1 ELSE 0
comparison(op, a, b) ==
    CASE op = "LT" -> truth(a < b)
      [] op = "GT" -> truth(a > b)
      [] op = "SLT" -> truth(u2s(a) < u2s(b))
      [] op = "SGT" -> truth(u2s(a) > u2s(b))
      [] op = "EQ" -> truth(a = b)

bit(w, i) == (w \div 2 ^ i) % 2
bits == { i \in 0 .. W : 2 ^ i < W }
bitwise(op, a, b) ==
    SumSet({ 2 ^ i : i \in { j \in bits :
        CASE op = "AND" -> bit(a, j) = 1 /\ bit(b, j) = 1
          [] op = "OR" -> bit(a, j) = 1 \/ bit(b, j) = 1
          [] op = "XOR" -> bit(a, j) # bit(b, j) } })

\* Byte 0 is the most significant one.
byteOfWord(a, b) == IF a < WordBytes THEN (b \div ByteSize ^ (WordBytes - 1 - a)) % ByteSize ELSE 0
signExtend(a, b) ==
    IF a >= WordBytes - 1 THEN b
    ELSE LET kept == ByteSize ^ (a + 1)
         IN IF 2 * (b % kept) >= kept THEN (b % kept) + W - kept ELSE b % kept

modular(op, a, b, n) ==
    IF n = 0 THEN 0 ELSE (IF op = "ADDMOD" THEN a + b ELSE a * b) % n

-----------------------------------------------------------------------------
Arithmetic == {"ADD", "MUL", "SUB", "DIV", "SDIV", "MOD", "SMOD", "EXP"}
Comparison == {"LT", "GT", "SLT", "SGT", "EQ"}
Bitwisely == {"AND", "OR", "XOR"}
Environment == {"ADDRESS", "ORIGIN", "CALLER", "CALLVALUE", "CALLDATASIZE", "CODESIZE",
                "GASPRICE", "COINBASE", "TIMESTAMP", "NUMBER", "DIFFICULTY", "GASLIMIT"}
Lookups == {"BALANCE", "EXTCODESIZE", "BLOCKHASH", "CALLDATALOAD"}
Logs == {"LOG0", "LOG1", "LOG2"}
Calls == {"CALL", "CALLCODE", "DELEGATECALL"}
pushed == [PUSH1 |-> 1, PUSH2 |-> 2]

\* The byte an instruction is encoded as, as far as a byte goes here.
encoding == [STOP |-> 0, ADD |-> 1, MUL |-> 2, JUMPDEST |-> 3, PUSH1 |-> 0, JUMP |-> 2]
byteAt(pc) == IF pc < Len(code) /\ code[pc + 1] \in DOMAIN encoding THEN encoding[code[pc + 1]] ELSE 0
opAt(pc) == IF pc < Len(code) THEN code[pc + 1] ELSE "STOP"

\* c_instructionInfo: how many words an instruction takes, and leaves.
args(op) ==
    CASE op \in Environment \cup DOMAIN pushed \cup {"PC", "MSIZE", "GAS", "STOP", "JUMPDEST"} -> 0
      [] op \in Lookups \cup {"ISZERO", "NOT", "POP", "MLOAD", "SLOAD", "JUMP", "SUICIDE", "DUP1", "JUMPC"} -> 1
      [] op \in Arithmetic \cup Comparison \cup Bitwisely
                \cup {"BYTE", "SIGNEXTEND", "SHA3", "MSTORE", "MSTORE8", "SSTORE", "JUMPI",
                      "DUP2", "SWAP1", "LOG0", "RETURN", "REVERT"} -> 2
      [] op \in {"ADDMOD", "MULMOD", "CALLDATACOPY", "CODECOPY", "SWAP2", "LOG1", "CREATE"} -> 3
      [] op \in {"EXTCODECOPY", "LOG2"} -> 4
      [] op = "DELEGATECALL" -> 6
      [] op \in {"CALL", "CALLCODE"} -> 7
      [] OTHER -> 0

ret(op) ==
    CASE op \in {"POP", "MSTORE", "MSTORE8", "SSTORE", "JUMP", "JUMPI", "CALLDATACOPY", "CODECOPY",
                 "EXTCODECOPY", "STOP", "JUMPDEST", "RETURN", "REVERT", "SUICIDE", "JUMPC"} \cup Logs -> 0
      [] op \in {"DUP1", "SWAP1"} -> 2
      [] op \in {"DUP2", "SWAP2"} -> 3
      [] op \in {"BAD", "JUMPTO"} -> 0
      [] OTHER -> 1

\* tierStepGas, on a scale of 0 and 1.
tierGas(op) == IF op \in {"STOP", "RETURN", "REVERT", "SUICIDE", "JUMPDEST"} \cup Logs \cup Calls THEN 0 ELSE 1

span(offset, n) == IF n = 0 THEN <<0, 0>> ELSE <<offset, offset + n>>
roundUp(n) == ((n + WordBytes - 1) \div WordBytes) * WordBytes
gasForMem(n) ==
    LET s == n \div WordBytes IN schedule.memoryGas * s + (s * s) \div schedule.quadCoeffDiv
expansionGas(need) == IF roundUp(need) > m_memSize THEN gasForMem(roundUp(need)) - gasForMem(m_memSize) ELSE 0

-----------------------------------------------------------------------------
EVMInit ==
    /\ code \in Programs /\ schedule \in Schedules /\ m_io_gas \in InitialGas
    /\ m_PC = 0 /\ m_stack = <<>> /\ m_memSize = 0 /\ touched = <<0, 0>>
    /\ m_bounce = "interpretCases" /\ calleeGas = 0
    /\ storage = [k \in {0} |-> 0] /\ refunds = 0 /\ jumpedTo = 0 /\ halted = "no"

\* The table of jump destinations: a byte of the data of a push is none.
m_jumpDestsOfBytes == { pc \in 0 .. Len(code) - 1 : opAt(pc) = "JUMPDEST" }

m_jumpDests ==
    LET n == Len(code)
        after == [pc \in 0 .. n - 1 |-> pc + 1 + (IF opAt(pc) \in DOMAIN pushed THEN pushed[opAt(pc)] ELSE 0)]
        from[pc \in 0 .. n] ==
            IF pc = n THEN {}
            ELSE (IF opAt(pc) = "JUMPDEST" THEN {pc} ELSE {})
                 \cup (IF after[pc] > n THEN {} ELSE from[after[pc]])
    IN from[0]

running == m_bounce = "interpretCases"
op == opAt(m_PC)
sp(i) == m_stack[i + 1]
underneath(n) == SubSeq(m_stack, n + 1, Len(m_stack))
\* adjustStack lets the instruction pass.
stackHolds(o) == Len(m_stack) >= args(o) /\ Len(m_stack) - args(o) + ret(o) <= c_stackSize
at(ops) == running /\ op \in ops /\ stackHolds(op)

\* An exception leaves exec: what the gas is, is written back.
Throw(why) ==
    /\ m_bounce' = "over" /\ halted' = why
    /\ UNCHANGED <<code, schedule, m_PC, m_io_gas, m_stack, m_memSize, touched, calleeGas, storage, refunds, jumpedTo>>

Exit(why) == m_bounce' = "over" /\ halted' = why
Stay == UNCHANGED <<m_bounce, halted>>

canPay(gas, need) == need <= c_maxInt63 /\ m_io_gas >= gas + expansionGas(need)

\* updateMem and updateIOGas: the gas of the instruction and of the memory
\* it needs.
Pay(gas, need, used) ==
    /\ canPay(gas, need)
    /\ m_io_gas' = m_io_gas - gas - expansionGas(need)
    /\ m_memSize' = Max({m_memSize, roundUp(need)})
    /\ touched' = used

\* What an instruction leaves on the stack, and where the next one is.
PutBack(words, pc) ==
    /\ m_stack' = words \o underneath(args(op))
    /\ m_PC' = pc
    /\ UNCHANGED <<code, schedule>>
Push(word) == PutBack(<<word>>, m_PC + 1)
Quiet == UNCHANGED <<calleeGas, storage, refunds, jumpedTo>>
Plainly == Pay(tierGas(op), 0, <<0, 0>>) /\ Quiet /\ Stay

\* What an instruction costs besides the memory; the throw of updateIOGas.
copyGas(n) == schedule.copyGas * ((n + WordBytes - 1) \div WordBytes)
runGas ==
    CASE op \in Logs -> schedule.logGas + schedule.logGas * (args(op) - 2) + sp(1)
      [] op = "EXP" -> 1 + Cardinality({ i \in 0 .. WordBytes - 1 : sp(1) >= ByteSize ^ i })
      [] op = "SHA3" -> 1 + copyGas(sp(1))
      [] op \in {"CALLDATACOPY", "CODECOPY"} -> 1 + copyGas(sp(2))
      [] op = "EXTCODECOPY" -> 1 + copyGas(sp(3))
      [] op = "SSTORE" -> IF storage[0] = 0 /\ sp(1) # 0 THEN schedule.sstoreSetGas ELSE schedule.sstoreResetGas
      [] op = "SUICIDE" -> schedule.suicideGas
      [] op = "JUMPDEST" -> 1
      [] OTHER -> tierGas(op)
memory ==
    CASE op \in {"MLOAD", "MSTORE"} -> span(sp(0), WordBytes)
      [] op = "MSTORE8" -> span(sp(0), 1)
      [] op \in Logs \cup {"SHA3", "RETURN", "REVERT"} -> span(sp(0), sp(1))
      [] op \in {"CALLDATACOPY", "CODECOPY"} -> span(sp(0), sp(2))
      [] op = "EXTCODECOPY" -> span(sp(1), sp(3))
      [] OTHER -> <<0, 0>>

StackBad == running /\ ~stackHolds(op) /\ Throw("BadStack")
OutOfGas ==
    /\ running /\ stackHolds(op) /\ op \notin Calls \cup {"CREATE", "BAD", "JUMPTO", "JUMPC", "REVERT"}
    /\ ~canPay(runGas, memory[2])
    /\ Throw("OutOfGas")

Arith == at(Arithmetic) /\ Pay(runGas, 0, <<0, 0>>) /\ Push(arithmetic(op, sp(0), sp(1))) /\ Quiet /\ Stay
Compare == at(Comparison) /\ Plainly /\ Push(comparison(op, sp(0), sp(1)))
Combine == at(Bitwisely) /\ Plainly /\ Push(bitwise(op, sp(0), sp(1)))
NotOp == at({"NOT"}) /\ Plainly /\ Push(W - 1 - sp(0))
IsZero == at({"ISZERO"}) /\ Plainly /\ Push(truth(sp(0) = 0))
ByteOp == at({"BYTE"}) /\ Plainly /\ Push(byteOfWord(sp(0), sp(1)))
SignExtend == at({"SIGNEXTEND"}) /\ Plainly /\ Push(signExtend(sp(0), sp(1)))
Modular == at({"ADDMOD", "MULMOD"}) /\ Plainly /\ Push(modular(op, sp(0), sp(1), sp(2)))

Ask == at(Environment \cup Lookups) /\ Plainly /\ \E w \in Answers : Push(w)
Own == /\ at({"PC", "MSIZE", "GAS"}) /\ Plainly
       /\ Push(CASE op = "PC" -> wrap(m_PC) [] op = "MSIZE" -> wrap(m_memSize) [] op = "GAS" -> wrap(m_io_gas'))

Pop == at({"POP"}) /\ Plainly /\ PutBack(<<>>, m_PC + 1)
PushOp ==
    LET n == pushed[op] IN
    /\ at(DOMAIN pushed) /\ Plainly
    /\ PutBack(<<IF n = 1 THEN byteAt(m_PC + 1) ELSE ByteSize * byteAt(m_PC + 1) + byteAt(m_PC + 2)>>, m_PC + 1 + n)
Dup == at({"DUP1", "DUP2"}) /\ Plainly
       /\ PutBack(<<sp(args(op) - 1)>> \o SubSeq(m_stack, 1, args(op)), m_PC + 1)
Swap == LET n == args(op) IN
        at({"SWAP1", "SWAP2"}) /\ Plainly
        /\ PutBack([i \in 1 .. n |-> IF i = 1 THEN sp(n - 1) ELSE IF i = n THEN sp(0) ELSE sp(i - 1)], m_PC + 1)

\* Instructions on memory; what they read is any word.
Memory ==
    /\ at({"MLOAD", "MSTORE", "MSTORE8", "SHA3", "CALLDATACOPY", "CODECOPY", "EXTCODECOPY"} \cup Logs)
    /\ Pay(runGas, memory[2], memory)
    /\ IF op \in {"MLOAD", "SHA3"} THEN \E w \in Answers : Push(w) ELSE PutBack(<<>>, m_PC + 1)
    /\ Quiet /\ Stay

SLoad == at({"SLOAD"}) /\ Plainly /\ Push(storage[0])
\* The refund is noted before the gas is paid.
SStore ==
    /\ at({"SSTORE"}) /\ Pay(runGas, 0, <<0, 0>>) /\ PutBack(<<>>, m_PC + 1)
    /\ storage' = [storage EXCEPT ![0] = sp(1)]
    /\ refunds' = IF storage[0] # 0 /\ sp(1) = 0 THEN refunds + schedule.sstoreRefundGas ELSE refunds
    /\ UNCHANGED <<calleeGas, jumpedTo>> /\ Stay

JumpTo(pc) == PutBack(<<>>, pc) /\ jumpedTo' = pc /\ UNCHANGED <<calleeGas, storage, refunds>> /\ Stay
\* verifyJumpDest.
Jumps == op = "JUMP" \/ (op = "JUMPI" /\ sp(1) # 0)
Jump == /\ at({"JUMP", "JUMPI"}) /\ Jumps /\ sp(0) \in m_jumpDests
        /\ Pay(tierGas(op), 0, <<0, 0>>) /\ JumpTo(sp(0))
BadJump == at({"JUMP", "JUMPI"}) /\ Jumps /\ sp(0) \notin m_jumpDests /\ canPay(tierGas(op), 0) /\ Throw("BadJumpDestination")
DoesNotJump == at({"JUMPI"}) /\ ~Jumps /\ Plainly /\ PutBack(<<>>, m_PC + 1)
JumpDest == at({"JUMPDEST"}) /\ Pay(1, 0, <<0, 0>>) /\ PutBack(<<>>, m_PC + 1) /\ Quiet /\ Stay

\* Also the instructions that the build leaves out, those that only the
\* optimiser writes, and what the schedule does not know.
BadInstruction ==
    /\ at({"BAD", "JUMPTO", "JUMPC"} \cup (IF schedule.haveDelegateCall THEN {} ELSE {"DELEGATECALL"})
          \cup (IF schedule.haveRevert THEN {} ELSE {"REVERT"}))
    /\ Throw("BadInstruction")

Halt ==
    /\ at({"STOP", "RETURN", "SUICIDE"}) /\ Pay(runGas, memory[2], memory) /\ Exit(op)
    /\ UNCHANGED <<code, schedule, m_PC, m_stack>> /\ Quiet
Revert ==
    /\ at({"REVERT"}) /\ schedule.haveRevert
    /\ IF canPay(runGas, memory[2])
       THEN Pay(runGas, memory[2], memory) /\ Exit("REVERT") /\ UNCHANGED <<code, schedule, m_PC, m_stack>> /\ Quiet
       ELSE Throw("OutOfGas")

\* caseCallSetup: the static costs, then the gas that the callee gets, all of
\* what is asked or at most all but one share of the rest; the stipend is
\* on top of it.
valueOf == IF op = "DELEGATECALL" THEN 0 ELSE sp(2)
inputAt == IF op = "DELEGATECALL" THEN 2 ELSE 3

\* A plausible bug: the value is sent for nothing, the stipend stays.
staticGasFreeValue(exists) ==
    schedule.callGas
    + (IF op = "CALL" /\ ~exists /\ (sp(2) > 0 \/ ~schedule.eip158Mode) THEN schedule.callNewAccountGas ELSE 0)

callSpans == {span(sp(inputAt), sp(inputAt + 1)), span(sp(inputAt + 2), sp(inputAt + 3))}
callMemory == Max({ s[2] : s \in callSpans })

staticGas(exists) ==
    schedule.callGas
    + (IF op = "CALL" /\ ~exists /\ (sp(2) > 0 \/ ~schedule.eip158Mode) THEN schedule.callNewAccountGas ELSE 0)
    + (IF valueOf > 0 THEN schedule.callValueTransferGas ELSE 0)

allBut(gas) == gas - gas \div c_allButOne

CallSetup ==
    /\ at(Calls) /\ (op = "DELEGATECALL" => schedule.haveDelegateCall)
    /\ \E exists \in BOOLEAN :
        LET left == m_io_gas - staticGas(exists) - expansionGas(callMemory)
            given == IF schedule.eip150Mode THEN Min({sp(0), allBut(left)}) ELSE sp(0)
        IN IF ~canPay(staticGas(exists), callMemory) \/ left < given
           THEN Throw("OutOfGas")
           ELSE /\ m_io_gas' = left - given
                /\ calleeGas' = given + (IF valueOf > 0 THEN schedule.callStipend ELSE 0)
                /\ m_memSize' = Max({m_memSize, roundUp(callMemory)})
                /\ touched' = <<0, Max({ s[2] : s \in callSpans })>>
                /\ m_bounce' = "calling"
                /\ UNCHANGED <<code, schedule, m_PC, m_stack, storage, refunds, jumpedTo, halted>>

\* caseCreate: what the new contract may spend stays in m_io_gas_p until it
\* is known.
CreateSetup ==
    /\ at({"CREATE"})
    /\ LET need == span(sp(1), sp(2)) IN
        IF ~canPay(schedule.createGas, need[2]) THEN Throw("OutOfGas")
        ELSE LET left == m_io_gas - schedule.createGas - expansionGas(need[2])
                 given == IF schedule.eip150Mode THEN allBut(left) ELSE left
             IN /\ m_io_gas' = left - given /\ calleeGas' = given
                /\ m_memSize' = Max({m_memSize, roundUp(need[2])}) /\ touched' = need
                /\ m_bounce' = "calling"
                /\ UNCHANGED <<code, schedule, m_PC, m_stack, storage, refunds, jumpedTo, halted>>

\* The callee, or nobody when the balance or the depth does not allow it,
\* leaves some of the gas; the callee may have come back to this account.
CalleeReturns ==
    /\ m_bounce = "calling"
    /\ \E spent \in 0 .. calleeGas, answer \in Answers, stored \in {storage[0], 0} :
        /\ spent = 0 \/ calleeGas = spent \/ spent = 1
        /\ m_io_gas' = m_io_gas + calleeGas - spent
        /\ m_stack' = <<IF op = "CREATE" THEN answer ELSE truth(answer > 0)>> \o underneath(args(op))
        /\ storage' = [storage EXCEPT ![0] = stored]
    /\ m_bounce' = "interpretCases" /\ calleeGas' = 0 /\ m_PC' = m_PC + 1
    /\ UNCHANGED <<code, schedule, m_memSize, touched, refunds, jumpedTo, halted>>

EVMNext ==
    \/ StackBad \/ OutOfGas \/ BadInstruction \/ BadJump
    \/ Arith \/ Compare \/ Combine \/ NotOp \/ IsZero \/ ByteOp \/ SignExtend \/ Modular
    \/ Ask \/ Own \/ Pop \/ PushOp \/ Dup \/ Swap \/ Memory \/ SLoad \/ SStore
    \/ Jump \/ DoesNotJump \/ JumpDest \/ Halt \/ Revert
    \/ CallSetup \/ CreateSetup \/ CalleeReturns

EVMSpec == EVMInit /\ [][EVMNext]_evmVars

-----------------------------------------------------------------------------
\* Running never makes gas: every instruction that does not end the run costs
\* something, a call that carries a stipend included (the value transfer pays
\* for it), and what comes back from a callee is at most what it was given.
\* So no code runs for ever.
GasOnlyFalls ==
    [][/\ m_io_gas' + calleeGas' <= m_io_gas + calleeGas
       /\ running /\ m_bounce' # "over" => m_io_gas' + calleeGas' < m_io_gas + calleeGas]_evmVars

\* An instruction reads and writes inside the memory that it has paid for,
\* calls with their two ranges included.
AccessesWithinMemory == touched[2] <= m_memSize

\* A jump lands on an instruction JUMPDEST of the code as it is executed from
\* its start, never on a byte that is the data of a push.
isData(pc) ==
    LET starts == { s \in SUBSET (0 .. pc) :
            /\ 0 \in s
            /\ \A i \in s : i < pc => LET n == IF opAt(i) \in DOMAIN pushed THEN i + 1 + pushed[opAt(i)] ELSE i + 1
                                     IN /\ (n <= pc => n \in s) /\ (\A j \in i + 1 .. n - 1 : j <= pc => j \notin s) }
    IN \A s \in starts : pc \notin s
JumpsLandOnInstructions == jumpedTo # 0 => opAt(jumpedTo) = "JUMPDEST" /\ ~isData(jumpedTo)

\* Whatever the program, VM stays in the memory that was paid for, and in the
\* instructions of the code.
StaysWithinBounds == AccessesWithinMemory /\ JumpsLandOnInstructions

\* What every instruction relies on: the words are numbers, the memory reaches
\* as far as the last access, and a jump was to a destination of the table.
EVMInv ==
    /\ code \in Programs /\ schedule \in Schedules
    /\ {m_PC, m_io_gas, calleeGas, m_memSize, jumpedTo} \subseteq Nat
    /\ m_stack \in Seq(Words) /\ storage \in [{0} -> Words]
    /\ touched \in Nat \X Nat /\ AccessesWithinMemory
    /\ jumpedTo # 0 => jumpedTo \in m_jumpDests
=============================================================================
