------------------------------- MODULE DAGFile -------------------------------
(***************************************************************************)
(* libethash's ethash_io_prepare: the file with the full DAG of an epoch is *)
(* opened if it is there and looks complete, and made anew if not.  The     *)
(* caller, which fills the file and writes the magic number last, is not in *)
(* the repository.  A process may be killed and the disk may be full.       *)
(***************************************************************************)
EXTENDS Naturals

CONSTANTS
    Seeds,         \* seed hashes
    Revisions,     \* ETHASH_REVISION of the programs that were installed
    fileSize,      \* the size of a DAG, by revision
    Dirs,          \* homes
    MaxPrepares    \* bound: calls

VARIABLES
    files,       \* the files there are, by path: size, whether the magic number is there, how much is filled
    revision, seed, home,   \* what is installed, which epoch it is, where the DAGs are kept
    openFile,    \* the open file and what ethash_io_prepare returned
    prepares

dagVars == <<files, revision, seed, home, openFile, prepares>>

notPrepared == [rc |-> "none", path |-> <<>>, forced |-> FALSE]

DAGInit ==
    /\ files = [p \in {} |-> 0] /\ revision \in Revisions /\ seed \in Seeds /\ home \in Dirs
    /\ openFile = notPrepared /\ prepares = 0

\* ethash_get_default_dirname, ethash_io_create_filename, ethash_io_mutable_name:
\* the character looked at is the terminating zero, so a slash is always added;
\* two slashes name the same directory as one
defaultDirname == home
mutableName == <<revision, seed>>
createFilename == <<defaultDirname, mutableName>>

\* A plausible slip: what is in the file is not looked at
noMagic(f) == TRUE

\* the first bytes read are the magic number
hasMagic(f) == f.magic

memoMatches(f) == f.size = fileSize[revision] /\ hasMagic(f)

\* ethash_io_prepare: a mismatch of the size or the magic number, or a file that
\* cannot be read, is told, and the caller comes again with force_create; a file
\* that cannot be opened is made anew like one that is not there
PrepareFile(force_create) ==
    /\ openFile.rc \in {"none", "MEMO_SIZE_MISMATCH"} /\ prepares < MaxPrepares
    /\ force_create <=> openFile.rc = "MEMO_SIZE_MISMATCH"
    /\ prepares' = prepares + 1
    /\ LET path == createFilename
           there == path \in DOMAIN files /\ ~force_create
           Created(f) == files' = [p \in DOMAIN files \union {path} |-> IF p = path THEN f ELSE files[p]]
           Return(rc) == openFile' = [rc |-> rc, path |-> path, forced |-> force_create]
       IN  \/ there /\ memoMatches(files[path]) /\ Return("MEMO_MATCH") /\ UNCHANGED files
           \/ there /\ Return("MEMO_SIZE_MISMATCH") /\ UNCHANGED files
           \/ /\ Return("MEMO_MISMATCH")
              /\ Created([size |-> fileSize[revision], magic |-> FALSE, filled |-> FALSE])
           \* insufficient space: the file is cut to nothing and stays
           \/ openFile' = notPrepared /\ Created([size |-> 0, magic |-> FALSE, filled |-> FALSE])
           \* the directory or the file cannot be made, or its size not be told
           \/ openFile' = notPrepared /\ UNCHANGED files
    /\ UNCHANGED <<revision, seed, home>>

-----------------------------------------------------------------------------
\* The caller of ethash_io_prepare

Fill ==
    /\ openFile.rc = "MEMO_MISMATCH" /\ ~files[openFile.path].filled
    /\ files' = [files EXCEPT ![openFile.path].filled = TRUE]
    /\ UNCHANGED <<revision, seed, home, openFile, prepares>>

WriteMagic ==
    /\ openFile.rc = "MEMO_MISMATCH" /\ files[openFile.path].filled /\ ~files[openFile.path].magic
    /\ files' = [files EXCEPT ![openFile.path].magic = TRUE]
    /\ UNCHANGED <<revision, seed, home, openFile, prepares>>

CloseFile ==
    /\ openFile.rc = "MEMO_MATCH" \/ (openFile.rc = "MEMO_MISMATCH" /\ files[openFile.path].magic)
    /\ openFile' = notPrepared
    /\ UNCHANGED <<files, revision, seed, home, prepares>>

\* The process is killed, and another revision may be there when it starts again
Killed ==
    /\ openFile' = notPrepared /\ revision' \in Revisions
    /\ UNCHANGED <<files, seed, home, prepares>>

NextEpoch ==
    /\ openFile = notPrepared /\ seed' \in Seeds
    /\ UNCHANGED <<files, revision, home, openFile, prepares>>

DAGNext ==
    \/ \E force_create \in BOOLEAN : PrepareFile(force_create)
    \/ Fill \/ WriteMagic \/ CloseFile \/ Killed \/ NextEpoch

DAGSpec == DAGInit /\ [][DAGNext]_dagVars

-----------------------------------------------------------------------------
\* A file that is reported as a match was filled to the end, for this epoch by
\* this revision, whenever the process that made it was killed.
\* Code: io.c:33-97, ETHASH_IO_MEMO_MATCH in io.h:48.
MatchIsComplete ==
    openFile.rc = "MEMO_MATCH" =>
        /\ openFile.path = createFilename
        /\ files[openFile.path].filled /\ files[openFile.path].size = fileSize[revision]

-----------------------------------------------------------------------------
(* The inductive invariant behind MatchIsComplete.                         *)

DAGTypes ==
    /\ files \in [DOMAIN files -> [size : {0} \union {fileSize[r] : r \in Revisions}, magic : BOOLEAN, filled : BOOLEAN]]
    /\ revision \in Revisions
    /\ openFile.rc \in {"none", "MEMO_MATCH", "MEMO_SIZE_MISMATCH", "MEMO_MISMATCH"}

\* The magic number is written last, and a file has the size of its revision
\* when it is.
MagicIsLast ==
    \A p \in DOMAIN files :
        files[p].magic => files[p].filled /\ files[p].size = fileSize[p[2][1]]

\* The open file is that of the revision and the epoch that are installed.
OpenIsOurs ==
    /\ openFile.rc \in {"MEMO_MATCH", "MEMO_MISMATCH"} =>
           openFile.path = createFilename /\ openFile.path \in DOMAIN files
    /\ openFile.rc = "MEMO_MISMATCH" => files[openFile.path].size = fileSize[revision]
    /\ openFile.rc = "MEMO_MATCH" => files[openFile.path].magic

DAGInv == DAGTypes /\ MagicIsLast /\ OpenIsOurs
=============================================================================
