------------------------------ MODULE KVStore ------------------------------
(***************************************************************************)
(* What the interface Bitcask promises, without files, maps or threads.    *)
(* Writes take effect one by one, in the order of the calls; a Get sees    *)
(* all that have taken effect; a Delete finds a key that was ever written; *)
(* a call that waits returns after its own write has taken effect; and a   *)
(* crash leaves a prefix of the writes.                                    *)
(***************************************************************************)
EXTENDS Integers, Sequences

CONSTANTS
    Clients, Keys, Vals, Tombstone, NotFound, NoKey,
    CanCrash    \* does a process end otherwise than by closing the store?

VARIABLES
    history,  \* the writes that have taken effect, oldest first
    pending,  \* the writes that were requested since
    durable,  \* how many of history \o pending a crash would leave
    issued,   \* how many writes were ever requested
    acked,    \* the writes whose promise was fulfilled
    open,     \* is a process running that has opened the store?
    pc,       \* what each client waits for or has got
    key, cid, \* the key of its Get, the id of its write
    ret       \* the result of its call

storeVars  == <<history, pending, durable, issued, acked, open>>
clientVars == <<pc, key, cid, ret>>
vars == <<storeVars, clientVars>>

Init ==
    /\ history = <<>> /\ pending = <<>> /\ durable = 0
    /\ issued = 0 /\ acked = {} /\ open = FALSE
    /\ pc = [c \in Clients |-> "idle"]
    /\ key = [c \in Clients |-> NoKey]
    /\ cid = [c \in Clients |-> 0]
    /\ ret = [c \in Clients |-> NotFound]

Requested == history \o pending

(* The writes of key k that have taken effect, and what Get makes of the   *)
(* last of them.                                                           *)
WritesOf(k) == {i \in DOMAIN history : history[i].key = k}

Latest(k) == history[CHOOSE i \in WritesOf(k) : \A j \in WritesOf(k) : j <= i].val

Value(k) == IF WritesOf(k) = {} \/ Latest(k) = Tombstone THEN NotFound ELSE Latest(k)

-----------------------------------------------------------------------------
Request(k, v) ==
    /\ open
    /\ issued' = issued + 1
    /\ pending' = Append(pending, [key |-> k, val |-> v, id |-> issued + 1])
    /\ UNCHANGED <<history, durable, acked, open>>

Wait(c, at) ==
    /\ pc' = [pc EXCEPT ![c] = at]
    /\ cid' = [cid EXCEPT ![c] = issued + 1]
    /\ UNCHANGED <<key, ret>>

Put(c, k, v) == pc[c] = "idle" /\ Request(k, v) /\ Wait(c, "putWait")

PutAsync(c, k, v) == pc[c] = "idle" /\ Request(k, v) /\ UNCHANGED clientVars

Delete(c, k) ==
    pc[c] = "idle" /\ WritesOf(k) # {} /\ Request(k, Tombstone) /\ Wait(c, "deleteWait")

DeleteMiss(c, k) ==
    /\ open /\ pc[c] = "idle" /\ WritesOf(k) = {}
    /\ pc' = [pc EXCEPT ![c] = "deleted"]
    /\ ret' = [ret EXCEPT ![c] = FALSE]
    /\ UNCHANGED <<storeVars, key, cid>>

FutureReady(c) ==
    /\ \E w \in acked : w.id = cid[c]
    /\ \/ /\ pc[c] = "putWait"
          /\ pc' = [pc EXCEPT ![c] = "idle"]
          /\ UNCHANGED ret
       \/ /\ pc[c] = "deleteWait"
          /\ pc' = [pc EXCEPT ![c] = "deleted"]
          /\ ret' = [ret EXCEPT ![c] = TRUE]
    /\ cid' = [cid EXCEPT ![c] = 0]
    /\ UNCHANGED <<storeVars, key>>

Get(c, k) ==
    /\ open /\ pc[c] = "idle"
    /\ pc' = [pc EXCEPT ![c] = "got"]
    /\ key' = [key EXCEPT ![c] = k]
    /\ ret' = [ret EXCEPT ![c] = Value(k)]
    /\ UNCHANGED <<storeVars, cid>>

Return(c) ==
    /\ pc[c] \in {"got", "deleted"}
    /\ pc' = [pc EXCEPT ![c] = "idle"]
    /\ key' = [key EXCEPT ![c] = NoKey]
    /\ ret' = [ret EXCEPT ![c] = NotFound]
    /\ UNCHANGED <<storeVars, cid>>

-----------------------------------------------------------------------------
(* The oldest pending write takes effect, ...                              *)
Apply ==
    /\ open /\ pending # <<>>
    /\ history' = Append(history, Head(pending))
    /\ pending' = Tail(pending)
    /\ UNCHANGED <<durable, issued, acked, open, clientVars>>

(* ... and only then is its promise fulfilled.                             *)
Acknowledge ==
    /\ \E i \in DOMAIN history : acked' = acked \cup {history[i]}
    /\ UNCHANGED <<history, pending, durable, issued, open, clientVars>>

Sync ==
    /\ durable' \in (durable + 1)..Len(Requested)
    /\ UNCHANGED <<history, pending, issued, acked, open, clientVars>>

Open ==
    /\ ~open /\ open' = TRUE
    /\ UNCHANGED <<history, pending, durable, issued, acked, clientVars>>

(* Closing keeps every write that took effect and drops the others.        *)
Close ==
    /\ open /\ open' = FALSE
    /\ pending' = <<>>
    /\ durable' = Len(history)
    /\ UNCHANGED <<history, issued, acked, clientVars>>

Crash ==
    /\ CanCrash
    /\ open /\ open' = FALSE
    /\ history' = SubSeq(Requested, 1, durable)
    /\ pending' = <<>>
    /\ pc' = [c \in Clients |-> "idle"]
    /\ key' = [c \in Clients |-> NoKey]
    /\ cid' = [c \in Clients |-> 0]
    /\ ret' = [c \in Clients |-> NotFound]
    /\ UNCHANGED <<durable, issued, acked>>

Next ==
    \/ \E c \in Clients, k \in Keys :
         \/ \E v \in Vals : Put(c, k, v) \/ PutAsync(c, k, v)
         \/ Delete(c, k) \/ DeleteMiss(c, k) \/ Get(c, k)
    \/ \E c \in Clients : FutureReady(c) \/ Return(c)
    \/ Apply \/ Acknowledge \/ Sync
    \/ Open \/ Close \/ Crash

Spec == Init /\ [][Next]_vars
=============================================================================
