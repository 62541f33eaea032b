-------------------------------- MODULE KeyStore --------------------------------
(***************************************************************************)
(* Core/KeyStore: key pairs by tag, in the memory of a process and in the  *)
(* files of a directory that several processes share.                      *)
(*                                                                         *)
(* A process makes one call at a time and can be killed within each.  A    *)
(* key pair stands for the process that generated it.  An "empty" file is  *)
(* one that was opened and not, or not wholly, written.                    *)
(***************************************************************************)
CONSTANTS
    Processes,      \* programs that use the directory
    Tags            \* tags of key pairs

ASSUME ProcessesNamed == Processes \cap {"none", "empty", "noKey"} = {}

VARIABLES
    directory,      \* what the path names: "none", "a file", "shared" or "private" directory
    files,          \* the content of each tag's file
    keyPairs,       \* _keyPairs of each process
    keyCall,        \* the call each process is in: where it stands, and its tag
    unwritten       \* history: the tags whose file a process that lives failed to write

keyVars == <<directory, files, keyPairs, keyCall, unwritten>>

NoKey == "noKey"
Earlier == "earlier"    \* the key pair of a program that ran before
IsDirectory == directory \in {"shared", "private"}
Idle == [at |-> "idle", tag |-> NoKey]

KeyInit ==
    /\ directory \in {"none", "aFile", "shared", "private"}
    /\ files \in [Tags -> IF IsDirectory THEN {"none", "empty", Earlier} ELSE {"none"}]
    /\ keyPairs = [p \in Processes |-> [t \in Tags |-> NoKey]]
    /\ keyCall = [p \in Processes |-> Idle]
    /\ unwritten = {}

At(p, at, tag) == keyCall' = [keyCall EXCEPT ![p] = [at |-> at, tag |-> tag]]
Returns(p) == At(p, "returned", keyCall[p].tag)
Throws(p) == At(p, "thrown", keyCall[p].tag)
In(p, at) == keyCall[p].at = at
NextCall(p) == keyCall[p].at \in {"idle", "returned", "thrown"}

-----------------------------------------------------------------------------
\* Mutant: the file is opened whether or not it is there.
OpenToWrite_NotExclusive(p) ==
    /\ In(p, "openToWrite")
    /\ LET t == keyCall[p].tag
       IN  IF IsDirectory
           THEN files' = [files EXCEPT ![t] = "empty"] /\ At(p, "write", t)
           ELSE Throws(p) /\ UNCHANGED files
    /\ UNCHANGED <<directory, keyPairs, unwritten>>

-----------------------------------------------------------------------------
\* do_create_key_store_directory: created with the rights every directory gets, ...
CreateKeyStoreDirectory(p) ==
    /\ NextCall(p)
    /\ \/ directory = "none" /\ directory' = "shared" /\ At(p, "restrict", NoKey)
       \/ Throws(p) /\ UNCHANGED directory
    /\ UNCHANGED <<files, keyPairs, unwritten>>

\* ... then restricted to its owner.
RestrictDirectory(p) ==
    /\ In(p, "restrict")
    /\ \/ directory' = "private" /\ Returns(p)
       \/ Throws(p) /\ UNCHANGED directory
    /\ UNCHANGED <<files, keyPairs, unwritten>>

\* do_verify_key_store_directory
VerifyKeyStoreDirectory(p) ==
    /\ NextCall(p)
    /\ IF directory = "private" THEN Returns(p) ELSE Throws(p)
    /\ UNCHANGED <<directory, files, keyPairs, unwritten>>

\* do_create_key_pair_tag and do_create_key_pair: a key pair is generated, ...
CreateKeyPair(p, t) ==
    /\ NextCall(p)
    /\ At(p, "openToWrite", t)
    /\ UNCHANGED <<directory, files, keyPairs, unwritten>>

\* ... its file opened, which must not be there, ...
OpenToWrite(p) ==
    /\ In(p, "openToWrite")
    /\ LET t == keyCall[p].tag
       IN  IF IsDirectory /\ files[t] = "none"
           THEN files' = [files EXCEPT ![t] = "empty"] /\ At(p, "write", t)
           ELSE Throws(p) /\ UNCHANGED files
    /\ UNCHANGED <<directory, keyPairs, unwritten>>

\* ... and written.  When the write fails the key pair is kept in memory all the same.
WriteKeyPair(p) ==
    /\ In(p, "write")
    /\ LET t == keyCall[p].tag
       IN  /\ \/ files' = [files EXCEPT ![t] = p] /\ UNCHANGED unwritten
              \/ unwritten' = unwritten \cup {<<p, t>>} /\ UNCHANGED files
           /\ keyPairs' = [keyPairs EXCEPT ![p][t] = IF @ = NoKey THEN p ELSE @]
    /\ Returns(p)
    /\ UNCHANGED directory

\* do_load_key_pair: nothing to do when it is loaded; the file must open, ...
LoadKeyPair(p, t) ==
    /\ NextCall(p)
    /\ CASE keyPairs[p][t] # NoKey -> At(p, "returned", t)
         [] keyPairs[p][t] = NoKey /\ IsDirectory /\ files[t] # "none" -> At(p, "read", t)
         [] OTHER -> At(p, "thrown", t)
    /\ UNCHANGED <<directory, files, keyPairs, unwritten>>

\* ... and hold a key pair by the time it is read.
ReadKeyPair(p) ==
    /\ In(p, "read")
    /\ LET t == keyCall[p].tag
       IN  IF files[t] = "empty"
           THEN Throws(p) /\ UNCHANGED keyPairs
           ELSE keyPairs' = [keyPairs EXCEPT ![p][t] = files[t]] /\ Returns(p)
    /\ UNCHANGED <<directory, files, unwritten>>

\* do_get_public_key and do_get_key_pair: of what is in memory.
GetKey(p, t) ==
    /\ NextCall(p)
    /\ At(p, IF keyPairs[p][t] = NoKey THEN "thrown" ELSE "returned", t)
    /\ UNCHANGED <<directory, files, keyPairs, unwritten>>

KeyStoreStep(p) == RestrictDirectory(p) \/ OpenToWrite(p) \/ WriteKeyPair(p) \/ ReadKeyPair(p)

\* The process is killed.
Killed(p) ==
    /\ keyPairs' = [keyPairs EXCEPT ![p] = [t \in Tags |-> NoKey]]
    /\ unwritten' = {w \in unwritten : w[1] # p}
    /\ At(p, "killed", NoKey)
    /\ UNCHANGED <<directory, files>>

-----------------------------------------------------------------------------
\* Any calls of any processes.
KeyNext ==
    \E p \in Processes :
        \/ CreateKeyStoreDirectory(p)
        \/ VerifyKeyStoreDirectory(p)
        \/ \E t \in Tags : CreateKeyPair(p, t) \/ LoadKeyPair(p, t) \/ GetKey(p, t)
        \/ KeyStoreStep(p)
        \/ Killed(p)

KeySpec == KeyInit /\ [][KeyNext]_keyVars

\* Whoever uses a key pair by its tag uses the one that is stored, however the processes
\* that create and load it interleave and whoever is killed.  Only a key pair that this very
\* process generated and failed to write is in no file, and then no other process has one of
\* that tag.
KeysAgree ==
    \A p \in Processes, t \in Tags : keyPairs[p][t] # NoKey =>
        \/ files[t] = keyPairs[p][t]
        \/ /\ <<p, t>> \in unwritten /\ files[t] = "empty"
           /\ \A q \in Processes \ {p} : keyPairs[q][t] = NoKey
=============================================================================
