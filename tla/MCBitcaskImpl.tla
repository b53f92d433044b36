--------------------------- MODULE MCBitcaskImpl ---------------------------
(***************************************************************************)
(* Values for the constants of BitcaskImpl, and the statements of the      *)
(* repository's documents and tests that the code does not keep.           *)
(***************************************************************************)
EXTENDS KVRefinement, TLC

CONSTANTS k1, k2, v1, v2

(* k2 is longer than k1, so that records of the two keys differ in size.   *)
MCKeySize == [k \in Keys |-> IF k = k2 THEN 2 ELSE 1]

(* BITCASK_TOMBSTONE_VALUE has 22 characters; v2 is longer than v1.        *)
MCValueSize == [v \in Vals \cup {Tombstone} |->
                   CASE v = Tombstone -> 22 [] v = v2 -> 3 [] OTHER -> 1]

Symmetry == Permutations(Clients)

-----------------------------------------------------------------------------
(* What the documents say and the code does not do.                        *)

(* README, Crash recovery: the index is rebuilt from all existing files.   *)
(* For every record whose bytes are all in its file a restart finds an     *)
(* entry for that write or a later one (RestoreActiveMap, ReadRecord).     *)
RecoverLatest ==
    wpc = "down" => \A i \in DOMAIN log : Whole(log[i]) =>
        RestoredHint(log, ActivePath(dir), dir, log[i].key).id >= log[i].id

(* README, Thread-safe: "concurrent reads and writes".  A Get that found   *)
(* an index entry returns nullopt only if the key was deleted, whatever    *)
(* the commit thread does meanwhile (Get, _activeMap.Clear in CommitWrite).*)
FoundUnlessDeleted ==
    \A c \in Clients :
        pc[c] = "got" /\ chint[c] # NoHint /\ ret[c] = NotFound =>
            \E i \in DOMAIN log : /\ log[i].key = ckey[c] /\ log[i].val = Tombstone
                                  /\ log[i].id >= chint[c].id

(* README, Read path: Get reads "the bytes at the stored offset".  The     *)
(* stream is where the client's own seek has put it (StableFile::Read).    *)
ReadsAtStoredOffset ==
    \A c \in Clients : pc[c] = "read" =>
        stableFiles[chint[c].fd] = chint[c].off
=============================================================================
