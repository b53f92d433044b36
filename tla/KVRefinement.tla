---------------------------- MODULE KVRefinement ----------------------------
(***************************************************************************)
(* BitcaskImpl implements KVStore: the state of the abstract store that a  *)
(* state of the program stands for.                                        *)
(***************************************************************************)
EXTENDS BitcaskImpl

(* Has the write that is being applied taken effect?  With its hint, or    *)
(* already with its value when the key's old hint leads to _activeMap.     *)
Shown ==
    \/ wpc = "ack"
    \/ /\ wpc = "index" /\ InActive
       /\ LET hint == recordMap[batch[applied + 1].key]
          IN  hint # NoHint /\ hint.fd = getActiveFD

(* The records of the running batch whose writes have not taken effect are *)
(* the last ones of the log.                                               *)
Visible == Len(log) - Len(records) + applied + (IF Shown THEN 1 ELSE 0)

WriteOf(r) == [key |-> r.key, val |-> r.val, id |-> r.id]

Written(L) == [i \in DOMAIN L |-> WriteOf(L[i])]

Rest(s, n) == SubSeq(s, n + 1, Len(s))

History == SubSeq(Written(log), 1, Visible)

Pending == Rest(Written(log), Visible) \o Rest(batch, Len(records)) \o writes

(* A Get takes effect in its last step: until then its caller is idle.     *)
CallerAt == [c \in Clients |-> IF pc[c] \in ReadPCs THEN "idle" ELSE pc[c]]
KeyGot == [c \in Clients |-> IF pc[c] = "got" THEN ckey[c] ELSE NoKey]

Store == INSTANCE KVStore WITH
    history <- History, pending <- Pending, durable <- synced,
    open <- wpc # "down", CanCrash <- "crash" \in Ops,
    pc <- CallerAt, key <- KeyGot

(* Every behaviour of the program is one of the abstract store: each Get   *)
(* and Delete is right at one moment during the call, calls that wait      *)
(* return after their write took effect, a close loses nothing that did,   *)
(* and a crash leaves the writes that came first (Get, Delete, Put,        *)
(* CommitWrite, the constructor and the destructor).                       *)
ImplementsKVStore == Store!Spec
=============================================================================
