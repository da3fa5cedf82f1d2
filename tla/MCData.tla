------------------------------- MODULE MCData -------------------------------
(***************************************************************************)
(* What a node computes and keeps, for TLC: the parts share no variable,    *)
(* and one of them runs.                                                    *)
(***************************************************************************)
EXTENDS Trie, EVM, Executive, Keys, Encodings, RangeMask, DAGFile, Datagrams,
        BlockHeaders, TLC

CONSTANTS v1, v2, alice, shop, oracle, miner, max

\* EVM: schedules with small costs, and programs that reach each instruction
homestead == [eip150Mode |-> FALSE, eip158Mode |-> FALSE, haveDelegateCall |-> TRUE, haveRevert |-> FALSE,
              callGas |-> 1, callStipend |-> 2, callValueTransferGas |-> 3, callNewAccountGas |-> 2,
              createGas |-> 2, memoryGas |-> 1, quadCoeffDiv |-> 4, copyGas |-> 1, logGas |-> 1,
              sstoreSetGas |-> 3, sstoreResetGas |-> 1, sstoreRefundGas |-> 2, suicideGas |-> 1]
spurious == [homestead EXCEPT !.eip150Mode = TRUE, !.eip158Mode = TRUE, !.haveRevert = TRUE]
frontier == [homestead EXCEPT !.haveDelegateCall = FALSE]
SmallSchedules == {homestead, spurious, frontier}

small == {"PUSH1", "PUSH2", "JUMP", "JUMPDEST"}
callWith(in, out, value, o) ==
    <<"PUSH1", out, "PUSH1", "ADD", "PUSH1", in, "PUSH1", "ADD", "PUSH1", value, "PUSH1", "ADD", "PUSH1", "MUL", o, "STOP">>
SmallPrograms ==
    {<<"STOP">>}
    \cup {<<"PUSH1", "JUMPDEST", "PUSH2", "STOP", "MUL", o, "STOP">> :
             o \in Arithmetic \cup Comparison \cup Bitwisely
                   \cup {"BYTE", "SIGNEXTEND", "MSTORE", "MSTORE8", "SSTORE", "RETURN", "REVERT", "LOG0", "SHA3", "SWAP1", "DUP2"}}
    \cup {<<"PUSH1", d, o, "STOP">> :
             d \in {"STOP", "JUMPDEST"}, o \in {"NOT", "ISZERO", "POP", "DUP1", "MLOAD", "BALANCE", "SUICIDE", "SLOAD"}}
    \cup {<<"ADDRESS", "GAS", "PC", "MSIZE", o, "STOP">> :
             o \in {"ADDMOD", "MULMOD", "CODECOPY", "EXTCODECOPY", "LOG1", "CREATE", "SWAP2", "BAD", "JUMPC"}}
    \cup {<<"PUSH1", "STOP", "JUMPDEST", "PUSH1", "STOP", "MSTORE", "STOP">>}
    \cup {callWith(in, "JUMPDEST", value, c) : in \in {"STOP", "MUL"}, value \in {"STOP", "MUL"}, c \in Calls}
    \cup {callWith("STOP", "STOP", value, c) : value \in {"STOP", "MUL"}, c \in Calls}
    \cup {<<"PUSH1", b, c, d>> : b \in {"MUL", "JUMPDEST", "PUSH1"}, c \in small, d \in small}
    \cup {<<"PUSH1", "JUMPDEST", b, c, d>> : b \in small, c \in small, d \in small}
    \cup {<<"PUSH1", b, "PUSH1", c, "JUMPI", "JUMPDEST">> : b \in {"STOP", "JUMPDEST"}, c \in small}
    \cup {<<"PUSH1", "ADD", "PUSH1", "STOP", "SSTORE", "PUSH1", "STOP", "PUSH1", "STOP", "SSTORE", "STOP">>}

\* Trie
FourKeys == {<<0, 0>>, <<0, 1>>, <<1, 0>>, <<0>>}

\* Executive
Balances == [a \in {alice, shop, max} |-> IF a = alice THEN 14 ELSE 1]
transfer(id, nonce, gas, value, to) ==
    [id |-> id, from |-> alice, nonce |-> nonce, gas |-> gas, price |-> 1, value |-> value, to |-> to,
     creation |-> FALSE, init |-> FALSE]
SomeTransactions ==
    {transfer(1, 0, 5, 1, shop), transfer(2, 1, 3, 0, shop), transfer(3, 0, 3, 1, oracle),
     [transfer(4, 0, 5, 1, shop) EXCEPT !.creation = TRUE, !.init = TRUE],
     [transfer(5, 0, 4, 1, shop) EXCEPT !.from = MaxAddress],
     [transfer(7, 1, 2, 1, shop) EXCEPT !.creation = TRUE]}

\* Encodings: "GAVO", "1234" and "GAVOFYORK", "000000001", "ZZZZZZZZZ"
SomeBytes == UNION {[1..n -> {0, 1, 62, 251, 255}] : n \in 0..4}
SomeInstitutions == {<<71, 65, 86, 79>>, <<49, 50, 51, 52>>}
SomeClientIds == {<<71, 65, 86, 79, 70, 89, 79, 82, 75>>, <<48, 48, 48, 48, 48, 48, 48, 48, 49>>,
                  <<90, 90, 90, 90, 90, 90, 90, 90, 90>>}
SomeMistypes == (48..57) \cup (65..90)

\* RangeMask and DAGFile
FirstToFifth == <<1, 5>>
sizeOfRevision == [r \in {22, 23} |-> r]

-----------------------------------------------------------------------------
VARIABLE part     \* the part that runs

Parts == {"trie", "evm", "executive", "keys", "encodings", "mask", "dag", "datagrams", "headers"}

mcVars == <<part, trieVars, evmVars, execVars, keyVars, encodingVars, maskVars, dagVars, datagramVars, headerVars>>

\* The others stay in an initial state, which is fixed where there are several
MCInit ==
    /\ part \in Parts
    /\ TrieInit
    /\ EVMInit
    /\ part # "evm" => (code = <<"STOP">> /\ schedule = homestead /\ m_io_gas = 5)
    /\ ExecInit
    /\ KeysInit
    /\ EncodingsInit
    /\ MaskInit
    /\ DAGInit
    /\ part # "dag" => (revision = 22 /\ seed = "s1")
    /\ DatagramsInit
    /\ part # "datagrams" => nearest = {}
    /\ HeadersInit

Only(p) == part = p /\ UNCHANGED part

MCNext ==
    \/ /\ Only("trie") /\ TrieNext
       /\ UNCHANGED <<evmVars, execVars, keyVars, encodingVars, maskVars, dagVars,
                       datagramVars, headerVars>>
    \/ /\ Only("evm") /\ EVMNext
       /\ UNCHANGED <<trieVars, execVars, keyVars, encodingVars, maskVars, dagVars,
                       datagramVars, headerVars>>
    \/ /\ Only("executive") /\ ExecNext
       /\ UNCHANGED <<trieVars, evmVars, keyVars, encodingVars, maskVars, dagVars,
                       datagramVars, headerVars>>
    \/ /\ Only("keys") /\ KeysNext
       /\ UNCHANGED <<trieVars, evmVars, execVars, encodingVars, maskVars, dagVars,
                       datagramVars, headerVars>>
    \/ /\ Only("encodings") /\ EncodingsNext
       /\ UNCHANGED <<trieVars, evmVars, execVars, keyVars, maskVars, dagVars,
                       datagramVars, headerVars>>
    \/ /\ Only("mask") /\ MaskNext
       /\ UNCHANGED <<trieVars, evmVars, execVars, keyVars, encodingVars, dagVars,
                       datagramVars, headerVars>>
    \/ /\ Only("dag") /\ DAGNext
       /\ UNCHANGED <<trieVars, evmVars, execVars, keyVars, encodingVars, maskVars,
                       datagramVars, headerVars>>
    \/ /\ Only("datagrams") /\ DatagramsNext
       /\ UNCHANGED <<trieVars, evmVars, execVars, keyVars, encodingVars, maskVars,
                       dagVars, headerVars>>
    \/ /\ Only("headers") /\ HeadersNext
       /\ UNCHANGED <<trieVars, evmVars, execVars, keyVars, encodingVars, maskVars,
                       dagVars, datagramVars>>

MCSpec ==
    /\ MCInit /\ [][MCNext]_mcVars
=============================================================================
