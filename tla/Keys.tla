-------------------------------- MODULE Keys --------------------------------
(***************************************************************************)
(* KeyManager and the SecretStore under it: passwords, key files and the   *)
(* encrypted keys file that lists them.  An operation changes the memory   *)
(* and leaves the files it writes in todo, in the order the code writes    *)
(* them, each with the memory the code has once it is written.  Step       *)
(* writes one; a write may fail, which throws out of the operation, and    *)
(* the process may die between two.                                        *)
(* A secret is identified with its address, a password with its hash.      *)
(***************************************************************************)
EXTENDS Integers, Sequences, FiniteSets, SequencesExt

CONSTANTS
    Accounts, Uuids, Passwords,
    Typos,              \* wrong passwords the user may load the keys file with
    none, torn,         \* h128(), the empty string or no file; a file cut short
    MaxKeyOperations, MaxKilled, MaxFailed   \* bounds: calls, deaths, failed writes

\* an entry of the keys file, and what the files of the store and the keys file can hold
entriesOf == [uuid : Uuids \cup {none}, passHash : Passwords \cup {"brain"}]
keyContents == [address : Accounts, pass : Passwords]
keysContents == [key : Passwords \X Nat, entries : [Accounts -> entriesOf \cup {none}]]

\* what the KeyManager and its store hold in memory
managers ==
    [m_keys : [Uuids -> keyContents \cup {none}], m_cached : SUBSET Uuids,
     m_addrLookup : [Accounts -> Uuids \cup {none}], m_uuidLookup : [Uuids -> Accounts \cup {none}],
     m_keyInfo : [Accounts -> Passwords \cup {"brain", none}], m_cachedPasswords : SUBSET Passwords,
     m_keysFileKey : (Passwords \X Nat) \cup {none}]

\* the files have names of their own, and nothing stands for something
ASSUME KeysAssumption ==
    /\ IsFiniteSet(Uuids) /\ "keys" \notin Uuids /\ "salt" \notin Uuids
    /\ none \notin Uuids \cup Accounts \cup Passwords \cup entriesOf \cup keyContents \cup keysContents \cup managers
    /\ none \notin (Passwords \X Nat) \cup {"brain"}
    /\ torn # none /\ torn \notin keyContents \cup keysContents

VARIABLES
    keyFiles,   \* the secrets directory: one file per uuid
    salt,       \* keys.info.salt: how often it was written
    keysFile,   \* keys.info: the key it is encrypted with, and its entries
    manager,    \* the KeyManager and its SecretStore, none while no process runs
    todo,       \* the writes the operation under way has still to do
    saving,     \* the password create or save is setting, none if neither is under way
    master,     \* history: the password last set
    broken,     \* history: a save ended after the salt, and none was whole since
    operations, deaths, failures  \* history, for the bounds

keyVars == <<keyFiles, salt, keysFile, manager, todo, saving, master, broken, operations, deaths, failures>>

\* What a KeyManager has just after it was constructed: the SecretStore has read
\* its directory, and its keys are looked up; one of those of an address
storedKeys == [u \in Uuids |-> IF keyFiles[u] = torn THEN none ELSE keyFiles[u]]
heldFor(a) == {u \in Uuids : storedKeys[u] # none /\ storedKeys[u].address = a}
constructed(lookup) ==
    [m_keys          |-> storedKeys,
     m_cached        |-> {},
     m_addrLookup    |-> lookup,
     m_uuidLookup    |-> [u \in Uuids |-> IF storedKeys[u] = none THEN none ELSE storedKeys[u].address],
     m_keyInfo       |-> [a \in Accounts |-> none],
     m_cachedPasswords |-> {},
     m_keysFileKey   |-> none]

KeysInit ==
    /\ keyFiles = [u \in Uuids |-> none]
    /\ salt = 0 /\ keysFile = none /\ manager = none /\ todo = <<>>
    /\ saving = none /\ master = none /\ broken = FALSE /\ operations = 0 /\ deaths = 0 /\ failures = 0

-----------------------------------------------------------------------------
\* Files.

exists == salt > 0 /\ keysFile # none

\* writeFile(..., true) goes through a temporary file and a rename, one write;
\* without it the file is truncated first and filled afterwards.  The memory is
\* before until the file is written, after from then on.
replaceFile(file, content, after) == <<[file |-> file, content |-> content, after |-> after]>>
truncateFile(file, content, before, after) ==
    replaceFile(file, torn, before) \o replaceFile(file, content, after)

\* SecretStore::save rewrites the file of every key it holds, in some order
storeSave(m, order, after) ==
    [i \in 1..2 * Len(order) |->
        LET u == order[(i + 1) \div 2]
        IN  truncateFile(u, m.m_keys[u], m, IF i = 2 * Len(order) THEN after ELSE m)[2 - (i % 2)]]

orders(m_keys) == SetToSeqs({u \in Uuids : m_keys[u] # none})

\* the keys file: one entry for each address with a KeyInfo
encoded(m, key) ==
    [key |-> key,
     entries |-> [a \in Accounts |->
         IF m.m_keyInfo[a] = none THEN none
         ELSE [uuid |-> m.m_addrLookup[a], passHash |-> m.m_keyInfo[a]]]]

\* mutant: the keys file rewritten in place
writeKeysFileInPlace(m) ==
    IF m.m_keysFileKey = none THEN <<>> ELSE truncateFile("keys", encoded(m, m.m_keysFileKey), m, m)

\* write(): nothing unless a keys file key is known
writeKeysFile(m) ==
    IF m.m_keysFileKey = none THEN <<>> ELSE replaceFile("keys", encoded(m, m.m_keysFileKey), m)

\* the keys file of a create or save is all that is left to write
atKeysFile == saving # none /\ Len(todo) = 1

Step ==
    /\ todo # <<>>
    /\ todo' = Tail(todo)
    /\ manager' = Head(todo).after
    /\ LET file == Head(todo).file  content == Head(todo).content IN
       /\ keyFiles' = IF file \in Uuids THEN [keyFiles EXCEPT ![file] = content] ELSE keyFiles
       /\ salt' = IF file = "salt" THEN content ELSE salt
       /\ keysFile' = IF file = "keys" THEN content ELSE keysFile
    /\ saving' = IF Len(todo) = 1 THEN none ELSE saving
    /\ master' = IF atKeysFile THEN saving ELSE master
    /\ broken' = (broken /\ ~atKeysFile)
    /\ UNCHANGED <<operations, deaths, failures>>

\* The operation ends before the next write
CutShort ==
    /\ todo' = <<>> /\ saving' = none
    /\ broken' = (broken \/ (atKeysFile /\ keysFile # none))
    /\ UNCHANGED <<keyFiles, salt, keysFile, master, operations>>

\* A write fails, and the exception leaves the operation
FileFails ==
    /\ todo # <<>> /\ failures < MaxFailed
    /\ failures' = failures + 1
    /\ CutShort
    /\ UNCHANGED <<manager, deaths>>

Construct ==
    /\ manager = none
    /\ \E lookup \in [Accounts -> Uuids \cup {none}] :
        /\ \A a \in Accounts : IF heldFor(a) = {} THEN lookup[a] = none ELSE lookup[a] \in heldFor(a)
        /\ manager' = constructed(lookup)
    /\ UNCHANGED <<keyFiles, salt, keysFile, todo, saving, master, broken, operations, deaths, failures>>

Die ==
    /\ manager # none /\ deaths < MaxKilled
    /\ manager' = none /\ deaths' = deaths + 1
    /\ CutShort
    /\ UNCHANGED failures

-----------------------------------------------------------------------------
\* The operations.  m is the memory until the first write, writes what is written.

Operate(m, writes) ==
    /\ manager # none /\ todo = <<>> /\ operations < MaxKeyOperations
    /\ manager' = m /\ todo' = writes /\ operations' = operations + 1
    /\ UNCHANGED <<keyFiles, salt, keysFile, broken, deaths, failures>>

\* write(pass, file): a new salt first, which makes a new key; the password is
\* cached, and the key remembered once the keys file is written under it
masterWrites(m, pass) ==
    LET noted == [m EXCEPT !.m_cachedPasswords = @ \union {pass}]
        key == <<pass, salt + 1>>
    IN  replaceFile("salt", salt + 1, noted)
            \o replaceFile("keys", encoded(m, key), [noted EXCEPT !.m_keysFileKey = key])

Create(pass) ==
    /\ manager # none /\ ~exists
    /\ Operate(manager, masterWrites(manager, pass))
    /\ saving' = pass /\ UNCHANGED master

Save(pass) ==
    /\ manager # none /\ manager.m_keysFileKey # none /\ exists
    /\ Operate(manager, masterWrites(manager, pass))
    /\ saving' = pass /\ UNCHANGED master

\* load: the key is derived, and remembered, before it is known to fit
loaded(m, pass) ==
    LET opened == [m EXCEPT !.m_keysFileKey = <<pass, salt>>]
        listed == {a \in Accounts : keysFile.entries[a] # none
                     /\ \/ keysFile.entries[a].uuid = none
                        \/ m.m_keys[keysFile.entries[a].uuid] # none}
    IN  IF keysFile = none THEN m
        ELSE IF keysFile.key # <<pass, salt>> THEN opened
        ELSE [opened EXCEPT
            !.m_keyInfo = [a \in Accounts |-> IF a \in listed THEN keysFile.entries[a].passHash ELSE @[a]],
            !.m_addrLookup = [a \in Accounts |->
                IF a \in listed /\ keysFile.entries[a].uuid # none THEN keysFile.entries[a].uuid ELSE @[a]],
            !.m_uuidLookup = [u \in Uuids |->
                IF \E a \in listed : keysFile.entries[a].uuid = u
                THEN CHOOSE a \in listed : keysFile.entries[a].uuid = u ELSE @[u]],
            !.m_cachedPasswords = @ \union {pass}]

Load(pass) ==
    /\ manager # none /\ pass \in {master} \union Typos
    /\ Operate(loaded(manager, pass), <<>>)
    /\ UNCHANGED <<master, saving>>

-----------------------------------------------------------------------------
\* getPassword: the cached password of that hash, else the user's if its hash
\* fits; any password will do for a key whose hash is unknown
getPassword(m, u, asked) ==
    LET hash == IF m.m_uuidLookup[u] = none THEN none ELSE m.m_keyInfo[m.m_uuidLookup[u]] IN
    IF hash \in m.m_cachedPasswords THEN hash
    ELSE IF hash \in {none, "brain", asked} THEN asked ELSE none

\* SecretStore::secret: from the cache, else decrypted; the MAC tells a wrong password
decrypts(m, u, pass) == m.m_keys[u] # none /\ m.m_keys[u].pass = pass
hasSecret(m, u, pass) == u \in m.m_cached \/ decrypts(m, u, pass)

Import(a, u, pass) ==
    /\ manager # none /\ manager.m_keys[u] = none /\ keyFiles[u] = none
    /\ LET held == [manager EXCEPT
                      !.m_keys[u] = [address |-> a, pass |-> pass], !.m_cached = @ \union {u},
                      !.m_cachedPasswords = @ \union {pass}]
           listed == [held EXCEPT !.m_keyInfo[a] = pass, !.m_addrLookup[a] = u, !.m_uuidLookup[u] = a]
       IN  \E order \in orders(held.m_keys) :
               Operate(held, storeSave(held, order, listed) \o writeKeysFile(listed))
    /\ UNCHANGED <<master, saving>>

\* secret(uuid, pass): a look at a key that is not cached.  The password is cached
\* as soon as its hash fits, the secret when the password does
asking(m, u, asked) ==
    IF u \in m.m_cached THEN m
    ELSE [m EXCEPT !.m_cachedPasswords = (@ \union {getPassword(m, u, asked)}) \ {none}]

Secret(u, asked) ==
    /\ manager # none /\ manager.m_keys[u] # none
    /\ Operate([asking(manager, u, asked) EXCEPT
                  !.m_cached = IF decrypts(manager, u, getPassword(manager, u, asked)) THEN @ \union {u} ELSE @], <<>>)
    /\ UNCHANGED <<master, saving>>

\* recode: the store's file is rewritten first, the hash in the keys file after
recoded(m, u, new) == [m EXCEPT !.m_keys[u].pass = new, !.m_cached = @ \ {u}]

Recode(a, new, asked) ==
    /\ manager # none /\ manager.m_addrLookup[a] # none
    /\ LET u == manager.m_addrLookup[a]
           m == recoded(asking(manager, u, asked), u, new)
           listed == [m EXCEPT !.m_keyInfo[a] = new]
       IN  /\ hasSecret(manager, u, getPassword(manager, u, asked))
           /\ \E order \in orders(m.m_keys) : Operate(m, storeSave(m, order, listed) \o writeKeysFile(listed))
    /\ UNCHANGED <<master, saving>>

\* importExisting: a key of the store the keys file does not list
ImportExisting(u, pass) ==
    /\ manager # none /\ manager.m_keys[u] # none
    /\ hasSecret(manager, u, pass)
    /\ LET a == manager.m_keys[u].address
           m == [manager EXCEPT !.m_uuidLookup[u] = a, !.m_addrLookup[a] = u, !.m_keyInfo[a] = pass,
                   !.m_cached = @ \union {u}, !.m_cachedPasswords = @ \union {pass}]
       IN  Operate(m, writeKeysFile(m))
    /\ UNCHANGED <<master, saving>>

\* importBrain, importExistingBrain: an address that may have no key, only a note
ImportBrain(a) ==
    /\ manager # none
    /\ LET m == [manager EXCEPT !.m_keyInfo[a] = IF @ = none THEN "brain" ELSE @] IN Operate(m, writeKeysFile(m))
    /\ UNCHANGED <<master, saving>>

\* kill: the address is forgotten first, the key when its file is gone; a file
\* cut short when it was new has not been noted and stays
KillAccount(a) ==
    /\ manager # none
    /\ LET u == manager.m_addrLookup[a]
           forgotten == [manager EXCEPT !.m_addrLookup[a] = none, !.m_keyInfo[a] = none]
           unlisted == [forgotten EXCEPT !.m_uuidLookup[u] = none, !.m_cached = @ \ {u}]
           killed == [unlisted EXCEPT !.m_keys[u] = none]
       IN  \/ u = none /\ Operate(forgotten, writeKeysFile(forgotten))
           \/ /\ u # none /\ (manager.m_keys[u] = none \/ keyFiles[u] = torn)
              /\ Operate(killed, writeKeysFile(killed))
           \/ /\ u # none /\ manager.m_keys[u] # none
              /\ Operate(unlisted, replaceFile(u, none, killed) \o writeKeysFile(killed))
    /\ UNCHANGED <<master, saving>>

-----------------------------------------------------------------------------
KeysNext ==
    \/ Construct \/ Step \/ FileFails \/ Die
    \/ /\ todo = <<>> /\ operations < MaxKeyOperations
       /\ \/ \E pass \in Passwords : Create(pass) \/ Save(pass) \/ Load(pass)
          \/ \E a \in Accounts, pass \in Passwords :
               \/ \E u \in Uuids : Import(a, u, pass)
               \/ \E asked \in Passwords : Recode(a, pass, asked)
          \/ \E u \in Uuids, pass \in Passwords : Secret(u, pass) \/ ImportExisting(u, pass)
          \/ \E a \in Accounts : ImportBrain(a) \/ KillAccount(a)

KeysSpec == KeysInit /\ [][KeysNext]_keyVars

-----------------------------------------------------------------------------
\* A process that dies, or a write that fails, at any point leaves a keys file
\* that the password last set opens.  It does not after a create or save that
\* replaced the salt and not the keys file (SomePasswordOpens is violated there),
\* until a save is whole again: not even a process that lives on repairs it.
\* Code: writeFile(..., true) in KeyManager::write, KeyManager.cpp:379-419.
KeysFileOpens ==
    keysFile # none /\ ~broken /\ todo = <<>> => keysFile # torn /\ keysFile.key = <<master, salt>>

\* What a keys file written with "useful not to lose any data" should keep up
\* whatever happens.  Code: KeyManager::write, KeyManager.cpp:390 and 416.
SomePasswordOpens ==
    keysFile # none /\ todo = <<>> => \E pass \in Passwords : keysFile.key = <<pass, salt>>

-----------------------------------------------------------------------------
(* The inductive invariant behind it.                                      *)

\* secrets are cached of keys the store holds
cachedHeld(m) == \A u \in m.m_cached : m.m_keys[u] # none

\* a write of a key, or of the keys file, while the manager has a key
managersUnder(key) == {m \in managers : m.m_keysFileKey = key /\ cachedHeld(m)}
keyWrites(key) == [file : Uuids, content : keyContents \cup {none, torn}, after : managersUnder(key)]
keysContentsUnder(key) == {c \in keysContents : c.key = key}
keysWrites(key) == [file : {"keys"}, content : keysContentsUnder(key), after : managersUnder(key)]
saltWrites(key) == [file : {"salt"}, content : {salt + 1}, after : managersUnder(key)]

KeysTypeOK ==
    /\ keyFiles \in [Uuids -> keyContents \cup {none, torn}]
    /\ salt \in Nat /\ keysFile \in keysContents \cup {none}
    /\ manager \in managers \cup {none} /\ saving \in Passwords \cup {none}
    /\ master \in Passwords \cup {none} /\ broken \in BOOLEAN
    /\ operations \in Nat /\ deaths \in Nat /\ failures \in Nat
    /\ manager # none => cachedHeld(manager) /\ (manager.m_keysFileKey # none => keysFile # none)

\* create and save write a salt and then the keys file that goes with it
SavingInOrder ==
    saving # none =>
        /\ manager # none
        /\ \/ \E s \in saltWrites(manager.m_keysFileKey), w \in keysWrites(<<saving, salt + 1>>) : todo = <<s, w>>
           \/ \E w \in keysWrites(<<saving, salt>>) : todo = <<w>>

\* the other operations write the keys file under the manager's key only
WritingUnderKey ==
    saving = none =>
        /\ manager = none => todo = <<>>
        /\ manager # none => todo \in Seq(keyWrites(manager.m_keysFileKey) \cup keysWrites(manager.m_keysFileKey))

\* the key of the manager, and that of the keys file, are those of the
\* password last set and of the salt, but between the two writes of a save
KeysAreMasters ==
    ~broken /\ ~atKeysFile =>
        /\ keysFile # none => keysFile.key = <<master, salt>>
        /\ manager # none /\ manager.m_keysFileKey # none => manager.m_keysFileKey = <<master, salt>>

KeysInv == KeysTypeOK /\ SavingInOrder /\ WritingUnderKey /\ KeysAreMasters

=============================================================================
