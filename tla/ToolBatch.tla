----------------------------- MODULE ToolBatch -----------------------------
(***************************************************************************)
(* execTools, execTool and callTool (agent/loop.go): the goroutines that    *)
(* run the tool calls of one turn.                                         *)
(*                                                                         *)
(* With MaxParallelTools > 1 and several calls, each call has a worker     *)
(* goroutine; a worker takes a place in the semaphore, asks for approval,  *)
(* executes the tool and sends the result under sendMu.  Otherwise the     *)
(* loop's own goroutine does this call by call.  With ToolTimeout a tool   *)
(* runs in a goroutine of its own, which a timeout leaves behind.          *)
(*                                                                         *)
(* Abstractions: what a result says is reduced to how it came about; a     *)
(* call forced by the loop guard is one more way to be settled; hooks,     *)
(* validation and unknown tools are ways to be refused.                    *)
(***************************************************************************)
EXTENDS Integers, Sequences, FiniteSets

CONSTANTS
    N,            \* the number of calls in the batch
    Limits,       \* the values of Config.MaxParallelTools considered
    HasTimeout,   \* TRUE iff Config.Timeout > 0
    ToolTimeout,  \* TRUE iff Config.ToolTimeout > 0
    LongRunning,  \* the calls whose tool declares LongRunning
    None          \* no result; no lock holder; not returned

Calls == 1 .. N

\* How a result comes about, and what execTools returns.
Hows    == {"forced", "refused", "executed", "timed out"}
Returns == [ok : BOOLEAN, results : Seq(Calls), pending : Seq(Calls)]

ASSUME BatchAssumption ==
    /\ N \in Nat \ {0}
    /\ Limits \subseteq Nat
    /\ HasTimeout \in BOOLEAN /\ ToolTimeout \in BOOLEAN
    /\ LongRunning \subseteq Calls
    /\ None \notin Calls /\ None \notin Hows /\ None \notin Returns

VARIABLES
    limit,      \* Config.MaxParallelTools
    pc,         \* where the code handling each call stands
    sem,        \* the calls whose worker holds a place in sem
    sendMu,     \* the call whose worker holds sendMu, or None
    slots,      \* how the result of each call came about, or None
    pendingIdx, \* the calls whose approval is pending
    cancelled,  \* a delivery failed
    tool,       \* each call's tool: "idle", "running" or "finished"
    runDone,    \* ctx is done
    sendDone,   \* sendCtx is done
    streamed,   \* the calls whose result was delivered, in that order
    next,       \* the call the final loop has come to, 0 before it
    results,    \* the results the final loop has listed
    pending,    \* the pending calls it has listed
    ret         \* what execTools returned, or None

calls    == <<pc, sem, sendMu, slots, pendingIdx, cancelled, tool, streamed>>
gathered == <<next, results, pending, ret>>
contexts == <<runDone, sendDone>>
vars == <<limit, calls, gathered, contexts>>

-----------------------------------------------------------------------------
Sequential == limit <= 1 \/ N = 1

\* callTool waits for this tool without a deadline.
Direct(k) == ~ToolTimeout \/ k \in LongRunning

Goto(k, label) == pc' = [pc EXCEPT ![k] = label]

\* The worker has its result and must send it: under sendMu, if there are
\* other workers.
HasResult(k, how) ==
    /\ slots' = [slots EXCEPT ![k] = how]
    /\ Goto(k, IF Sequential THEN "sending" ELSE "locking")

Exited(k) == pc[k] = "exited"

\* Mutant of Acquire: the semaphore has a place too many.
AcquireOneMore(k) ==
    /\ ret = None
    /\ pc[k] = "spawned"
    /\ IF Sequential
       THEN /\ \A j \in 1 .. k - 1 : Exited(j)
            /\ ~cancelled /\ ~runDone
            /\ UNCHANGED sem
       ELSE /\ Cardinality(sem) <= limit
            /\ sem' = sem \cup {k}
    /\ Goto(k, "begin")
    /\ UNCHANGED <<limit, sendMu, slots, pendingIdx, cancelled, tool,
                   streamed, gathered, contexts>>

\* A worker is free to go on; the sequential loop takes the calls in turn and
\* looks at ctx before each.
Acquire(k) ==
    /\ ret = None
    /\ pc[k] = "spawned"
    /\ IF Sequential
       THEN /\ \A j \in 1 .. k - 1 : Exited(j)
            /\ ~cancelled /\ ~runDone
            /\ UNCHANGED sem
       ELSE /\ Cardinality(sem) < limit
            /\ sem' = sem \cup {k}
    /\ Goto(k, "begin")
    /\ UNCHANGED <<limit, sendMu, slots, pendingIdx, cancelled, tool,
                   streamed, gathered, contexts>>

\* The loop guard's forced result stands in for an execution.
Forced(k) ==
    /\ pc[k] = "begin"
    /\ HasResult(k, "forced")
    /\ UNCHANGED <<limit, sem, sendMu, pendingIdx, cancelled, tool, streamed,
                   gathered, contexts>>

\* The PreToolUse hook and the Approver run; they may take their time.
Ask(k) ==
    /\ pc[k] = "begin"
    /\ Goto(k, "asking")
    /\ UNCHANGED <<limit, sem, sendMu, slots, pendingIdx, cancelled, tool,
                   streamed, gathered, contexts>>

\* Mutant of Refused: a denied call is executed all the same.
RefusedButRun(k) ==
    /\ pc[k] = "asking"
    /\ tool' = [tool EXCEPT ![k] = "running"]
    /\ HasResult(k, "refused")
    /\ UNCHANGED <<limit, sem, sendMu, pendingIdx, cancelled, streamed,
                   gathered, contexts>>

\* No registry, unknown tool, blocked by the hook, invalid input, failed or
\* denied approval.
Refused(k) ==
    /\ pc[k] = "asking"
    /\ HasResult(k, "refused")
    /\ UNCHANGED <<limit, sem, sendMu, pendingIdx, cancelled, tool, streamed,
                   gathered, contexts>>

\* ErrApprovalPending: the worker leaves without a result.
Pending(k) ==
    /\ pc[k] = "asking"
    /\ pendingIdx' = pendingIdx \cup {k}
    /\ Goto(k, "leaving")
    /\ UNCHANGED <<limit, sem, sendMu, slots, cancelled, tool, streamed,
                   gathered, contexts>>

Allowed(k) ==
    /\ pc[k] = "asking"
    /\ tool' = [tool EXCEPT ![k] = "running"]
    /\ Goto(k, "executing")
    /\ UNCHANGED <<limit, sem, sendMu, slots, pendingIdx, cancelled, streamed,
                   gathered, contexts>>

\* Execute returns, or panics: at once for a call that waits for it, in vain
\* for one that has timed out.
ToolReturns(k) ==
    /\ tool[k] = "running"
    /\ tool' = [tool EXCEPT ![k] = "finished"]
    /\ UNCHANGED <<limit, pc, sem, sendMu, slots, pendingIdx, cancelled,
                   streamed, gathered, contexts>>

TakeOutcome(k) ==
    /\ pc[k] = "executing"
    /\ tool[k] = "finished"
    /\ HasResult(k, "executed")
    /\ UNCHANGED <<limit, sem, sendMu, pendingIdx, cancelled, tool, streamed,
                   gathered, contexts>>

\* execCtx is done: its deadline passed, or ctx is done.  The tool's goroutine
\* is left to itself.
TimedOut(k) ==
    /\ pc[k] = "executing"
    /\ ~Direct(k)
    /\ HasResult(k, "timed out")
    /\ UNCHANGED <<limit, sem, sendMu, pendingIdx, cancelled, tool, streamed,
                   gathered, contexts>>

Lock(k) ==
    /\ pc[k] = "locking"
    /\ sendMu = None
    /\ sendMu' = k
    /\ Goto(k, "sending")
    /\ UNCHANGED <<limit, sem, slots, pendingIdx, cancelled, tool, streamed,
                   gathered, contexts>>

\* The send ends and sendMu is released.
Send(k) ==
    /\ pc[k] = "sending"
    /\ streamed' = Append(streamed, k)
    /\ sendMu' = None
    /\ Goto(k, "leaving")
    /\ UNCHANGED <<limit, sem, slots, pendingIdx, cancelled, tool, gathered,
                   contexts>>

SendFails(k) ==
    /\ pc[k] = "sending"
    /\ sendDone
    /\ cancelled' = TRUE
    /\ sendMu' = None
    /\ Goto(k, "leaving")
    /\ UNCHANGED <<limit, sem, slots, pendingIdx, tool, streamed, gathered,
                   contexts>>

\* Mutant of Leave: a pending call keeps its place in the semaphore.
LeaveOccupied(k) ==
    /\ pc[k] = "leaving"
    /\ sem' = IF k \in pendingIdx THEN sem ELSE sem \ {k}
    /\ Goto(k, "exited")
    /\ UNCHANGED <<limit, sendMu, slots, pendingIdx, cancelled, tool,
                   streamed, gathered, contexts>>

\* <-sem and wg.Done, in the order of the deferred calls.
Leave(k) ==
    /\ pc[k] = "leaving"
    /\ sem' = sem \ {k}
    /\ Goto(k, "exited")
    /\ UNCHANGED <<limit, sendMu, slots, pendingIdx, cancelled, tool,
                   streamed, gathered, contexts>>

-----------------------------------------------------------------------------
(* Returning *)

\* All calls are dealt with, and no cancellation is noticed: the workers' is
\* looked for once more, the sequential loop's was before each call.
StartGathering ==
    /\ ret = None
    /\ next = 0
    /\ \A k \in Calls : Exited(k)
    /\ ~cancelled
    /\ Sequential \/ ~runDone
    /\ next' = 1
    /\ UNCHANGED <<limit, calls, results, pending, ret, contexts>>

\* Mutant of Gather: the results are taken as they were streamed.
GatherAsStreamed ==
    /\ next \in Calls
    /\ IF next \in pendingIdx
       THEN pending' = Append(pending, next) /\ UNCHANGED results
       ELSE results' = Append(results, streamed[Len(results) + 1]) /\ UNCHANGED pending
    /\ next' = next + 1
    /\ UNCHANGED <<limit, calls, ret, contexts>>

\* The calls are gone through in order.  (The sequential loop appends to its
\* lists as it goes, which nothing can tell from doing it at the end.)
Gather ==
    /\ next \in Calls
    /\ IF next \in pendingIdx
       THEN pending' = Append(pending, next) /\ UNCHANGED results
       ELSE /\ results' = IF slots[next] # None THEN Append(results, next) ELSE results
            /\ UNCHANGED pending
    /\ next' = next + 1
    /\ UNCHANGED <<limit, calls, ret, contexts>>

ReturnComplete ==
    /\ ret = None
    /\ next = N + 1
    /\ ret' = [ok |-> TRUE, results |-> results, pending |-> pending]
    /\ UNCHANGED <<limit, calls, next, results, pending, contexts>>

\* The sequential loop stops at the next call or at a failed send; the workers
\* are all waited for.
Stopping ==
    IF Sequential
    THEN /\ \A k \in Calls : pc[k] \in {"spawned", "exited"}
         /\ cancelled \/ (runDone /\ \E k \in Calls : ~Exited(k))
    ELSE /\ \A k \in Calls : Exited(k)
         /\ cancelled \/ runDone

ReturnNotOK ==
    /\ ret = None
    /\ next = 0
    /\ Stopping
    /\ ret' = [ok |-> FALSE, results |-> <<>>, pending |-> <<>>]
    /\ UNCHANGED <<limit, calls, next, results, pending, contexts>>

-----------------------------------------------------------------------------
(* The contexts *)

Expire ==
    /\ HasTimeout
    /\ ~runDone
    /\ runDone' = TRUE
    /\ UNCHANGED <<limit, calls, gathered, sendDone>>

\* Without a timeout ctx is sendCtx; with one it is a child of it.
Cancel ==
    /\ ~sendDone
    /\ sendDone' = TRUE
    /\ runDone' = (runDone \/ ~HasTimeout)
    /\ UNCHANGED <<limit, calls, gathered>>

CancelReachesRun ==
    /\ sendDone
    /\ ~runDone
    /\ runDone' = TRUE
    /\ UNCHANGED <<limit, calls, gathered, sendDone>>

-----------------------------------------------------------------------------
Init ==
    /\ limit \in Limits
    /\ pc = [k \in Calls |-> "spawned"]
    /\ sem = {}
    /\ sendMu = None
    /\ slots = [k \in Calls |-> None]
    /\ pendingIdx = {}
    /\ cancelled = FALSE
    /\ tool = [k \in Calls |-> "idle"]
    /\ runDone = FALSE
    /\ sendDone = FALSE
    /\ streamed = <<>>
    /\ next = 0
    /\ results = <<>>
    /\ pending = <<>>
    /\ ret = None

\* The steps of the code handling one call, its wait for the tool apart.
Handle(k) ==
    \/ Acquire(k) \/ Forced(k) \/ Ask(k)
    \/ Refused(k) \/ Pending(k) \/ Allowed(k)
    \/ TakeOutcome(k) \/ TimedOut(k)
    \/ Lock(k) \/ SendFails(k) \/ Leave(k)

Next ==
    \/ \E k \in Calls : Handle(k) \/ Send(k) \/ ToolReturns(k)
    \/ StartGathering \/ Gather \/ ReturnComplete \/ ReturnNotOK
    \/ Expire \/ Cancel \/ CancelReachesRun

Spec == Init /\ [][Next]_vars

\* Goroutines are scheduled, approvers answer, deadlines pass, the caller reads
\* until it cancels; only a tool that is waited for without a deadline is
\* assumed to return.
Fairness ==
    /\ \A k \in Calls :
         /\ WF_vars(Handle(k))
         /\ WF_vars(~sendDone /\ Send(k))
         /\ Direct(k) => WF_vars(ToolReturns(k))
    /\ WF_vars(StartGathering \/ Gather \/ ReturnComplete \/ ReturnNotOK)

FairSpec == Spec /\ Fairness

-----------------------------------------------------------------------------
(* Properties *)

Labels == {"spawned", "begin", "asking", "executing", "locking", "sending",
           "leaving", "exited"}

\* Every variable of the batch has its type.
TypeOK ==
    /\ limit \in Limits
    /\ pc \in [Calls -> Labels]
    /\ sem \subseteq Calls
    /\ sendMu \in Calls \cup {None}
    /\ slots \in [Calls -> Hows \cup {None}]
    /\ pendingIdx \subseteq Calls
    /\ cancelled \in BOOLEAN
    /\ tool \in [Calls -> {"idle", "running", "finished"}]
    /\ runDone \in BOOLEAN /\ sendDone \in BOOLEAN
    /\ streamed \in Seq(Calls)
    /\ next \in 0 .. N + 1
    /\ results \in Seq(Calls) /\ pending \in Seq(Calls)
    /\ ret \in {None} \cup Returns

\* The calls being handled: asked about, executed or reported.
Busy == {k \in Calls : pc[k] \notin {"spawned", "exited"}}

\* At most MaxParallelTools calls are handled at a time, one if it is 0 or 1.
ConcurrencyBound == Cardinality(Busy) <= IF Sequential THEN 1 ELSE limit

\* What the model is told agrees with what was done: a call whose approval is
\* pending or refused, or that the loop guard answered, never reaches its
\* tool; a call is reported executed only when its tool has finished; and a
\* tool that was started is still waited for or has a result.
ReportsAreTrue ==
    \A k \in Calls :
      /\ k \in pendingIdx \/ slots[k] \in {"forced", "refused"} => tool[k] = "idle"
      /\ slots[k] = "executed" => tool[k] = "finished"
      /\ tool[k] # "idle" =>
           pc[k] = "executing" \/ slots[k] \in {"executed", "timed out"}

\* The goroutines implement the contract runLoop relies on.
Outcome == [k \in Calls |->
              IF k \in pendingIdx THEN "pending"
              ELSE IF slots[k] # None THEN "result" ELSE "open"]

Contract == INSTANCE BatchContract WITH
              outcome <- Outcome, stopped <- (runDone \/ sendDone)

ImplementsContract == Contract!Spec

\* The batch returns, also when a tool under ToolTimeout never does, when
\* approvals are pending, and when the caller cancels and leaves.
BatchReturns == <>(ret # None)

-----------------------------------------------------------------------------
(* Why the properties hold: an inductive invariant *)

Streamed(k) == \E j \in DOMAIN streamed : streamed[j] = k

\* What is known of a call, from where its handling stands.
CallInv(k) ==
    /\ pc[k] \in {"spawned", "begin", "asking", "executing"} =>
         slots[k] = None /\ k \notin pendingIdx
    /\ pc[k] \in {"locking", "sending"} => slots[k] # None /\ k \notin pendingIdx
    /\ pc[k] \in {"leaving", "exited"} => (slots[k] = None <=> k \in pendingIdx)
    /\ tool[k] = "idle" <=>
         pc[k] # "executing" /\ slots[k] \in {None, "forced", "refused"}
    /\ slots[k] = "executed" => tool[k] = "finished"
    /\ Streamed(k) => pc[k] \in {"leaving", "exited"} /\ slots[k] # None
    /\ pc[k] \in {"leaving", "exited"} /\ slots[k] # None => Streamed(k) \/ cancelled
    /\ k \in Busy => ret = None

\* The semaphore holds exactly the busy workers; the sequential loop leaves a
\* call before it turns to the next.
WorkersInv ==
    /\ Sequential =>
         \A j, k \in Calls : j < k /\ pc[k] # "spawned" => Exited(j)
    /\ ~Sequential => sem = Busy /\ Cardinality(sem) <= limit

\* The final loop has listed, in order, what there is up to the call it is at.
Lists(s, S) ==
    /\ \A i, j \in DOMAIN s : i < j => s[i] < s[j]
    /\ {s[i] : i \in DOMAIN s} = S

GatherInv ==
    /\ next # 0 => ~cancelled /\ \A k \in Calls : Exited(k)
    /\ Lists(results, {k \in Calls : k < next /\ slots[k] # None})
    /\ Lists(pending, {k \in Calls : k < next /\ k \in pendingIdx})
    /\ cancelled => sendDone

\* The inductive invariant: each conjunct is kept with the help of the others.
IInv == TypeOK /\ (\A k \in Calls : CallInv(k)) /\ WorkersInv /\ GatherInv
=============================================================================
