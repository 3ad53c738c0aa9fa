--------------------------- MODULE BatchContract ---------------------------
(***************************************************************************)
(* What execTools (agent/loop.go) promises to runLoop about the tool calls  *)
(* of one turn, however it runs them: every call is settled once, with a   *)
(* result or as pending; results are streamed as they come; and the batch  *)
(* returns once, either complete, with all results streamed and both lists *)
(* in call order, or not ok, which takes a cancellation or a timeout.      *)
(***************************************************************************)
EXTENDS Integers, Sequences

CONSTANTS Calls,  \* 1 .. n, the positions of the calls
          None    \* not returned yet

VARIABLES outcome,   \* "open", "result" or "pending", for each call
          streamed,  \* the calls whose result was delivered, in that order
          ret,       \* what the batch returned
          stopped    \* the caller cancelled or the run timed out

vars == <<outcome, streamed, ret, stopped>>

Streamed(k) == \E j \in DOMAIN streamed : streamed[j] = k

\* s lists the calls with that outcome, in call order.
InCallOrder(s, o) ==
    /\ \A i, j \in DOMAIN s : i < j => s[i] < s[j]
    /\ {s[i] : i \in DOMAIN s} = {k \in Calls : outcome[k] = o}

Init ==
    /\ outcome = [k \in Calls |-> "open"]
    /\ streamed = <<>>
    /\ ret = None
    /\ stopped = FALSE

Stop ==
    /\ stopped' = TRUE
    /\ UNCHANGED <<outcome, streamed, ret>>

Settle(k, o) ==
    /\ ret = None
    /\ outcome[k] = "open"
    /\ outcome' = [outcome EXCEPT ![k] = o]
    /\ UNCHANGED <<streamed, ret, stopped>>

Stream(k) ==
    /\ ret = None
    /\ outcome[k] = "result"
    /\ ~Streamed(k)
    /\ streamed' = Append(streamed, k)
    /\ UNCHANGED <<outcome, ret, stopped>>

ReturnOK ==
    /\ ret = None
    /\ \A k \in Calls : outcome[k] = "pending" \/ (outcome[k] = "result" /\ Streamed(k))
    /\ ret' # None
    /\ ret'.ok
    /\ InCallOrder(ret'.results, "result")
    /\ InCallOrder(ret'.pending, "pending")
    /\ UNCHANGED <<outcome, streamed, stopped>>

ReturnFailed ==
    /\ ret = None
    /\ stopped
    /\ ret' = [ok |-> FALSE, results |-> <<>>, pending |-> <<>>]
    /\ UNCHANGED <<outcome, streamed, stopped>>

Next ==
    \/ Stop
    \/ \E k \in Calls : Settle(k, "result") \/ Settle(k, "pending") \/ Stream(k)
    \/ ReturnOK
    \/ ReturnFailed

Spec == Init /\ [][Next]_vars
=============================================================================
