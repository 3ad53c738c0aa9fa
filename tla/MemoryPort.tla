----------------------------- MODULE MemoryPort -----------------------------
(***************************************************************************)
(* What gage.MemoryStore promises its callers (memory.go): Remember saves  *)
(* a memory and returns it with what the store filled in, Recall returns   *)
(* memories that are there, of the asked scope, Forget removes one.  Each  *)
(* takes effect at one moment between its call and its return, here the    *)
(* moment it returns, or fails without any effect.                         *)
(***************************************************************************)
EXTENDS Naturals, Sequences

CONSTANTS
    Clients,
    Ids,
    Memories,  \* a scope stands for namespace, user and metadata; an omitted
               \* id is None, an omitted time of creation or of expiry 0
    Queries,   \* a scope of None is any
    None

NoRequest == [op |-> "none", of |-> None]
Requests ==
    [op : {"remember"}, of : Memories] \cup [op : {"recall"}, of : Queries] \cup [op : {"forget"}, of : Ids]

VARIABLES
    records,   \* Store.records
    request,   \* what each caller has asked for
    answer     \* what the call that has just returned returned; None, nothing or an error

vars == <<records, request, answer>>

Init ==
    /\ records = [id \in Ids |-> None]
    /\ request = [c \in Clients |-> NoRequest]
    /\ answer = None

Ask(c) ==
    /\ request[c] = NoRequest
    /\ request'[c] \in Requests
    /\ request' = [request EXCEPT ![c] = request'[c]]
    /\ answer' = None
    /\ UNCHANGED records

Return(c, op) ==
    /\ request[c].op = op
    /\ request' = [request EXCEPT ![c] = NoRequest]

\* What the caller omitted is filled in, what it gave is kept.
Completes(m, id, stored) ==
    /\ m.id \in {id, None}
    /\ stored.id = id
    /\ stored.text = m.text /\ stored.scope = m.scope /\ stored.expires = m.expires
    /\ m.created \in {stored.created, 0}

Remember(c) ==
    /\ Return(c, "remember")
    /\ \E id \in Ids :
         /\ records'[id] # None
         /\ Completes(request[c].of, id, records'[id])
         /\ records' = [records EXCEPT ![id] = records'[id]]
         /\ answer' = <<records'[id]>>

InScope(m, q) == q.scope \in {m.scope, None}

Recall(c) ==
    /\ Return(c, "recall")
    /\ answer' \in Seq({records[id] : id \in Ids} \ {None})
    /\ Len(answer') <= request[c].of.limit
    /\ \A i, j \in DOMAIN answer' : answer'[i] = answer'[j] => i = j
    /\ \A i \in DOMAIN answer' : InScope(answer'[i], request[c].of)
    /\ UNCHANGED records

Forget(c) ==
    /\ Return(c, "forget")
    /\ records' = [records EXCEPT ![request[c].of] = None]
    /\ answer' = <<>>

Fail(c) ==
    /\ request[c] # NoRequest
    /\ Return(c, request[c].op)
    /\ answer' = None
    /\ UNCHANGED records

Next == \E c \in Clients : Ask(c) \/ Remember(c) \/ Recall(c) \/ Forget(c) \/ Fail(c)

\* A step inside the store, or of the clock.
Internal == answer' = None /\ UNCHANGED <<records, request>>

Spec == Init /\ [][Next \/ Internal]_vars
=============================================================================
