----------------------------- MODULE AgentLoop -----------------------------
(***************************************************************************)
(* The agentic loop of package agent (agent/loop.go, agent/agent.go): one   *)
(* conversation driven by a run and by the resumes of its checkpoints.  A  *)
(* checkpoint is a value: it can be resumed again, after a resume that      *)
(* failed as after one that did not.  The runs that led to a run are the   *)
(* one whose checkpoint it resumed, and those that led to that one.        *)
(*                                                                         *)
(* The run goroutine calls the provider, retries failed streams, executes  *)
(* the tool calls of the reply, pauses when an approval is pending, and    *)
(* ends its event stream with one terminal event.  Around it, the caller   *)
(* may cancel, the run's own timeout may expire, and the holder of a       *)
(* checkpoint may resume it with any decisions.                            *)
(*                                                                         *)
(* Abstractions: a message keeps its role and its calls; a call is its      *)
(* identifier and its signature (name and input), a result its call;       *)
(* token counts are small numbers; the streamed deltas of a reply are one  *)
(* step, as are the start and the end of one tool execution (ToolBatch     *)
(* splits them).                                                           *)
(***************************************************************************)
EXTENDS Integers, Sequences, FiniteSets

CONSTANTS
    MaxTurns,         \* Config.MaxTurns
    TokenBudget,      \* Config.TokenBudget, 0 for none
    MaxToolRepeats,   \* Config.MaxToolRepeats, 0 for no guard
    MaxStreamRetries, \* Config.MaxStreamRetries
    Parallel,         \* TRUE iff Config.MaxParallelTools > 1
    HasCompactor,     \* TRUE iff Compactor and CompactAfter are set
    HasTimeout,       \* TRUE iff Config.Timeout > 0
    Sigs,             \* the signatures (name and input) of tool calls
    Costs,            \* the token usages a provider call may report
    MaxCalls,         \* bound: tool calls in one reply
    MaxRuns,          \* bound: the run and its resumes
    MaxHeld,          \* bound: checkpoints the caller keeps
    None              \* no signature

ASSUME ConfigAssumption ==
    /\ MaxTurns \in Nat \ {0}
    /\ TokenBudget \in Nat
    /\ MaxToolRepeats \in Nat
    /\ MaxStreamRetries \in Nat
    /\ {Parallel, HasCompactor, HasTimeout} \subseteq BOOLEAN
    /\ Costs \subseteq Nat
    /\ MaxCalls \in Nat \ {0}
    /\ MaxRuns \in Nat \ {0}
    /\ MaxHeld \in Nat \ {0}
    /\ None \notin Sigs

VARIABLES
    \* the run goroutine
    pc,        \* where runLoop stands
    turn,      \* the loop iteration
    attempt,   \* stream attempts already failed in this turn
    conv,      \* conversation
    usage,     \* runUsage.Total()
    repeat,    \* repeatSig and repeatCount
    calls,     \* the tool calls of the current turn
    status,    \* what became of each of them
    final,     \* the terminal event being sent
    \* the contexts and the caller
    runDone,   \* ctx is done
    sendDone,  \* sendCtx is done: the caller cancelled
    out,       \* tool results and terminal event delivered by this run
    saved,     \* the checkpoints the caller was handed
    run,       \* how many runs (first one and resumes) have started
    \* history of this run and of those that led to it; no guard reads it
    ran,       \* how often each call was executed
    shown,     \* how often each call's result was delivered
    reqs,      \* every call requested, with the run that received it
    tries      \* provider calls made, those of the compactor apart

ctxVars  == <<runDone, sendDone>>
turnVars == <<turn, attempt, conv, usage, repeat>>
batchVars == <<calls, status>>
callerVars == <<out, saved, run>>
histVars == <<ran, shown, reqs, tries>>
vars == <<pc, turnVars, batchVars, final, ctxVars, callerVars, histVars>>

-----------------------------------------------------------------------------
(* Data *)

Turns == 0 .. MaxTurns
Ids   == (0 .. MaxTurns - 1) \X (1 .. MaxCalls)
Calls == [id : Ids, sig : Sigs]

User == [role |-> "user"]
Assistant(cs) == [role |-> "assistant", calls |-> cs]
ToolResult(c) == [role |-> "tool", id |-> c.id]

\* A reply the provider may stream: its calls' signatures, whether it has
\* text, and the usage it reports.
Replies == [calls : UNION {[1 .. n -> Sigs] : n \in 0 .. MaxCalls},
            text : BOOLEAN, cost : Costs]

CallsOf(r) == [k \in DOMAIN r.calls |-> [id |-> <<turn, k>>, sig |-> r.calls[k]]]

\* The calls of a batch that have a result (their order is ToolBatch's matter).
Results(st) == {calls[k].id : k \in {j \in DOMAIN calls : st[j] = "sent"}}

\* Mutant of OverBudget: spending the whole budget is not noticed.
OverBudgetLate(total) == TokenBudget > 0 /\ total > TokenBudget

OverBudget(total) == TokenBudget > 0 /\ total >= TokenBudget

\* repeatSig and repeatCount after the first k calls of a reply.
RepeatAfter(cs) ==
    LET after[k \in 0 .. Len(cs)] ==
          IF k = 0 THEN repeat
          ELSE IF cs[k].sig = after[k - 1].sig
               THEN [after[k - 1] EXCEPT !.count = @ + 1]
               ELSE [sig |-> cs[k].sig, count |-> 1]
    IN  after

Looping(cs) ==
    /\ MaxToolRepeats > 0
    /\ \E k \in DOMAIN cs : RepeatAfter(cs)[k].count > MaxToolRepeats + 1

\* Mutant of ForcedCall: one repetition too late.
ForcedCallLate(cs, k) ==
    /\ MaxToolRepeats > 0
    /\ RepeatAfter(cs)[k].count = MaxToolRepeats + 2

ForcedCall(cs, k) ==
    /\ MaxToolRepeats > 0
    /\ RepeatAfter(cs)[k].count = MaxToolRepeats + 1

\* Mutant of Compactions: the cut does not move past tool results.
CompactionsAnywhere(msgs) ==
    {msgs} \cup
    {<<msgs[1], User>> \o SubSeq(msgs, k, Len(msgs)) : k \in 3 .. Len(msgs)}

\* What a Compactor may return: the conversation itself, or the first message,
\* a note, and a tail that does not start with a tool result.
Compactions(msgs) ==
    {msgs} \cup
    {<<msgs[1], User>> \o SubSeq(msgs, k, Len(msgs)) :
        k \in {j \in 3 .. Len(msgs) : msgs[j].role # "tool"}}

-----------------------------------------------------------------------------
(* Ending a run *)

\* fail, pause or DoneEvent: the terminal event is about to be sent.
End(event) == pc' = "ending" /\ final' = event

Past == [ran |-> ran, shown |-> shown, reqs |-> reqs, tries |-> tries]

\* Mutant of Checkpoint: the results of the calls dealt with are left out.
CheckpointWithoutResults ==
    [messages |-> conv, turn |-> turn, usage |-> usage,
     calls |-> calls, results |-> {}, past |-> Past]

\* past is history: what the runs up to the pause did.
Checkpoint == [messages |-> conv, turn |-> turn, usage |-> usage,
               calls |-> calls, results |-> Results(status), past |-> Past]

\* A caller that is handed a checkpoint may keep earlier ones, too.
Deliver ==
    /\ pc = "ending"
    /\ pc' = "closed"
    /\ out' = Append(out, final)
    /\ \/ final # "paused" /\ UNCHANGED saved
       \/ /\ final = "paused"
          /\ \E old \in SUBSET saved :
               Cardinality(old) < MaxHeld /\ saved' = old \cup {Checkpoint}
    /\ UNCHANGED <<turnVars, batchVars, final, ctxVars, run, histVars>>

\* Mutant of Drop: the send waits for a consumer that has left.
DropNever == pc = "ending" /\ sendDone /\ UNCHANGED vars

Drop ==
    /\ pc = "ending"
    /\ sendDone
    /\ pc' = "closed"
    /\ UNCHANGED <<turnVars, batchVars, final, ctxVars, callerVars, histVars>>

-----------------------------------------------------------------------------
(* A turn up to the provider call *)

TurnLimit ==
    /\ pc = "turn"
    /\ turn >= MaxTurns
    /\ End("error")
    /\ UNCHANGED <<turnVars, batchVars, ctxVars, callerVars, histVars>>

PrepareFails ==
    /\ pc = "turn"
    /\ turn < MaxTurns
    /\ End("error")
    /\ UNCHANGED <<turnVars, batchVars, ctxVars, callerVars, histVars>>

\* Proactive compaction, when the estimated size crosses CompactAfter.
CompactBefore(used, msgs) ==
    /\ pc = "turn"
    /\ turn < MaxTurns
    /\ HasCompactor
    /\ conv' = msgs
    /\ usage' = usage + used
    /\ IF OverBudget(usage')
       THEN End("error") /\ UNCHANGED <<attempt, tries>>
       ELSE pc' = "stream" /\ attempt' = 0 /\ tries' = tries + 1 /\ UNCHANGED final
    /\ UNCHANGED <<turn, repeat, batchVars, ctxVars, callerVars,
                   ran, shown, reqs>>

CallProvider ==
    /\ pc = "turn"
    /\ turn < MaxTurns
    /\ pc' = "stream"
    /\ attempt' = 0
    /\ tries' = tries + 1
    /\ UNCHANGED <<turn, conv, usage, repeat, batchVars, final, ctxVars,
                   callerVars, ran, shown, reqs>>

-----------------------------------------------------------------------------
(* The provider stream: streamTurn, consume *)

\* The stream ended without error and ctx is alive: the reply joins the
\* conversation, unless it is empty.
Receive(r) ==
    /\ pc = "stream"
    /\ ~runDone
    /\ usage' = usage + r.cost
    /\ conv' = IF r.text \/ r.calls # <<>>
               THEN Append(conv, Assistant(CallsOf(r)))
               ELSE conv
    /\ reqs' = reqs \o [k \in DOMAIN r.calls |->
                          [id |-> <<turn, k>>, sig |-> r.calls[k], run |-> run]]
    /\ UNCHANGED <<turn, attempt, ctxVars, callerVars, ran, shown, tries>>

FinalReply(r) ==
    /\ Receive(r)
    /\ r.calls = <<>>
    /\ End("done")
    /\ UNCHANGED <<batchVars, repeat>>

RefusedReply(r) ==
    /\ Receive(r)
    /\ r.calls # <<>>
    /\ OverBudget(usage') \/ Looping(CallsOf(r))
    /\ End("error")
    /\ UNCHANGED <<batchVars, repeat>>

CallingReply(r) ==
    /\ Receive(r)
    /\ r.calls # <<>>
    /\ ~OverBudget(usage')
    /\ ~Looping(CallsOf(r))
    /\ pc' = "batch"
    /\ calls' = CallsOf(r)
    /\ status' = [k \in DOMAIN r.calls |->
                    IF ForcedCall(CallsOf(r), k) THEN "forced" ELSE "ask"]
    /\ repeat' = IF MaxToolRepeats > 0
                 THEN RepeatAfter(CallsOf(r))[Len(r.calls)] ELSE repeat
    /\ UNCHANGED final

\* Mutant of StreamRetries: the attempts are not limited.
StreamRetriesForever ==
    /\ pc = "stream"
    /\ pc' = "backoff"
    /\ UNCHANGED <<turnVars, batchVars, final, ctxVars, callerVars,
                   ran, shown, reqs, tries>>

\* Provider.Stream returned an error, or the stream carried an EventError.
\* The usage it had reported, if any, goes with its accumulator.
StreamRetries ==
    /\ pc = "stream"
    /\ attempt < MaxStreamRetries
    /\ pc' = "backoff"
    /\ UNCHANGED <<turnVars, batchVars, final, ctxVars, callerVars,
                   ran, shown, reqs, tries>>

\* The error is not retryable or the attempts are used up; or ctx is done.
StreamFails ==
    /\ pc = "stream"
    /\ End("error")
    /\ UNCHANGED <<turnVars, batchVars, ctxVars, callerVars, histVars>>

\* A delta could not be delivered and ctx is not yet done.
StreamAbandoned ==
    /\ pc = "stream"
    /\ sendDone
    /\ ~runDone
    /\ pc' = "closed"
    /\ UNCHANGED <<turnVars, batchVars, final, ctxVars, callerVars, histVars>>

BackoffElapses ==
    /\ pc = "backoff"
    /\ pc' = "stream"
    /\ attempt' = attempt + 1
    /\ tries' = tries + 1
    /\ UNCHANGED <<turn, conv, usage, repeat, batchVars, final, ctxVars,
                   callerVars, ran, shown, reqs>>

BackoffInterrupted ==
    /\ pc = "backoff"
    /\ runDone
    /\ End("error")
    /\ UNCHANGED <<turnVars, batchVars, ctxVars, callerVars, histVars>>

-----------------------------------------------------------------------------
(* The tool batch: execTools and resumeToolBatch *)

\* A call not yet dealt with: to be asked about, forced by the loop guard, or
\* decided by the caller of Resume.
Open == {"ask", "forced", "allow", "deny"}

InBatch == pc \in {"batch", "resume"}

Sequential == pc = "resume" \/ ~Parallel \/ Len(calls) = 1

\* One at a time, each after a look at ctx; or each in its own goroutine.
MayStart(k) ==
    /\ InBatch
    /\ status[k] \in Open
    /\ Sequential =>
         /\ ~runDone
         /\ \A j \in 1 .. k - 1 : status[j] \in {"sent", "pending"}

\* The call gets a result without an execution: forced by the loop guard,
\* denied, blocked by a hook, unknown tool, invalid input, failed approval.
Refuse(k) ==
    /\ MayStart(k)
    /\ status' = [status EXCEPT ![k] = "ready"]
    /\ UNCHANGED <<pc, turnVars, calls, final, ctxVars, callerVars, histVars>>

\* The tool runs: it returns, fails, panics or times out, and has a result.
Execute(k) ==
    /\ MayStart(k)
    /\ status[k] \in {"ask", "allow"}
    /\ status' = [status EXCEPT ![k] = "ready"]
    /\ ran' = [ran EXCEPT ![calls[k].id] = @ + 1]
    /\ UNCHANGED <<pc, turnVars, calls, final, ctxVars, callerVars,
                   shown, reqs, tries>>

\* The Approver answered ErrApprovalPending.
Hold(k) ==
    /\ MayStart(k)
    /\ status[k] = "ask"
    /\ status' = [status EXCEPT ![k] = "pending"]
    /\ UNCHANGED <<pc, turnVars, calls, final, ctxVars, callerVars, histVars>>

SendResult(k) ==
    /\ InBatch
    /\ status[k] = "ready"
    /\ status' = [status EXCEPT ![k] = "sent"]
    /\ out' = Append(out, "result")
    /\ shown' = [shown EXCEPT ![calls[k].id] = @ + 1]
    /\ UNCHANGED <<pc, turnVars, calls, final, ctxVars, saved, run,
                   ran, reqs, tries>>

LoseResult(k) ==
    /\ InBatch
    /\ status[k] = "ready"
    /\ sendDone
    /\ status' = [status EXCEPT ![k] = "lost"]
    /\ UNCHANGED <<pc, turnVars, calls, final, ctxVars, callerVars, histVars>>

Settled == \A k \in DOMAIN status : status[k] \in {"sent", "lost", "pending"}
Lost    == \E k \in DOMAIN status : status[k] = "lost"

\* ok is false: a delivery failed, or ctx is done where the code looks at it.
BatchFailed ==
    IF Sequential
    THEN Lost \/ (runDone /\ \E k \in DOMAIN status :
                     status[k] \in Open /\ \A j \in 1 .. k - 1 : status[j] \in {"sent", "pending"})
    ELSE Settled /\ (Lost \/ runDone)

BatchAborts ==
    /\ InBatch
    /\ BatchFailed
    /\ IF runDone THEN End("error") ELSE pc' = "closed" /\ UNCHANGED final
    /\ UNCHANGED <<turnVars, batchVars, ctxVars, callerVars, histVars>>

BatchPauses ==
    /\ InBatch
    /\ Settled
    /\ ~BatchFailed
    /\ \E k \in DOMAIN status : status[k] = "pending"
    /\ End("paused")
    /\ UNCHANGED <<turnVars, batchVars, ctxVars, callerVars, histVars>>

\* The results join the conversation in call order.  After a turn, not after a
\* resume, the reported input tokens may trigger the compactor.
Answered == conv \o [k \in DOMAIN calls |-> ToolResult(calls[k])]

NextTurn ==
    /\ pc' = "turn"
    /\ turn' = turn + 1
    /\ UNCHANGED final

BatchComplete ==
    /\ InBatch
    /\ ~BatchFailed
    /\ \A k \in DOMAIN status : status[k] = "sent"

BatchCompletes ==
    /\ BatchComplete
    /\ conv' = Answered
    /\ NextTurn
    /\ UNCHANGED <<attempt, usage, repeat, batchVars, ctxVars, callerVars, histVars>>

CompactAfter(used, msgs) ==
    /\ BatchComplete
    /\ pc = "batch"
    /\ HasCompactor
    /\ conv' = msgs
    /\ usage' = usage + used
    /\ IF OverBudget(usage') THEN End("error") /\ UNCHANGED turn ELSE NextTurn
    /\ UNCHANGED <<attempt, repeat, batchVars, ctxVars, callerVars,
                   ran, shown, reqs, tries>>

\* Compact returned an error, before a turn or after one.
CompactFails ==
    /\ HasCompactor
    /\ (pc = "turn" /\ turn < MaxTurns) \/ (BatchComplete /\ pc = "batch")
    /\ conv' = IF pc = "batch" THEN Answered ELSE conv
    /\ End("error")
    /\ UNCHANGED <<turn, attempt, usage, repeat, batchVars, ctxVars,
                   callerVars, histVars>>

-----------------------------------------------------------------------------
(* The contexts and the caller *)

Running == pc # "closed"

\* Config.Timeout elapses: ctx is done, sendCtx is not.
Expire ==
    /\ Running
    /\ HasTimeout
    /\ ~runDone
    /\ runDone' = TRUE
    /\ UNCHANGED <<pc, turnVars, batchVars, final, sendDone, callerVars, histVars>>

\* The caller cancels.  Without a timeout ctx is sendCtx; with one it is a
\* child, cancelled just after its parent.
Cancel ==
    /\ Running
    /\ ~sendDone
    /\ sendDone' = TRUE
    /\ runDone' = (runDone \/ ~HasTimeout)
    /\ UNCHANGED <<pc, turnVars, batchVars, final, callerVars, histVars>>

CancelReachesRun ==
    /\ Running
    /\ sendDone
    /\ ~runDone
    /\ runDone' = TRUE
    /\ UNCHANGED <<pc, turnVars, batchVars, final, sendDone, callerVars, histVars>>

\* Mutant of ResumeStatus: the results of the checkpoint are not looked at.
ResumeStatusAll(cp, decide) == [k \in DOMAIN cp.calls |-> decide[k]]

\* The holder of a checkpoint decides some of its pending calls.
ResumeStatus(cp, decide) ==
    [k \in DOMAIN cp.calls |->
        IF cp.calls[k].id \in cp.results THEN "sent" ELSE decide[k]]

\* Agent.Resume takes a checkpoint by value and leaves it as it is, so that the
\* caller may resume it again, or one that came before: if the first resume
\* executed calls and failed, the second one does not know.
Resume(cp, decide) ==
    /\ ~Running
    /\ run < MaxRuns
    /\ DOMAIN decide = DOMAIN cp.calls
    /\ pc' = "resume"
    /\ run' = run + 1
    /\ turn' = cp.turn
    /\ conv' = cp.messages
    /\ usage' = cp.usage
    /\ calls' = cp.calls
    /\ status' = ResumeStatus(cp, decide)
    /\ repeat' = [sig |-> None, count |-> 0]
    /\ attempt' = 0
    /\ runDone' = FALSE
    /\ sendDone' = FALSE
    /\ out' = <<>>
    /\ final' = "none"
    /\ ran' = cp.past.ran
    /\ shown' = cp.past.shown
    /\ reqs' = cp.past.reqs
    /\ tries' = cp.past.tries
    /\ UNCHANGED saved

Decisions == UNION {[1 .. n -> {"allow", "deny", "pending"}] : n \in 1 .. MaxCalls}

-----------------------------------------------------------------------------
Init ==
    /\ pc = "turn"
    /\ turn = 0
    /\ attempt = 0
    /\ conv = <<User>>
    /\ usage = 0
    /\ repeat = [sig |-> None, count |-> 0]
    /\ calls = <<>>
    /\ status = <<>>
    /\ final = "none"
    /\ runDone = FALSE
    /\ sendDone = FALSE
    /\ out = <<>>
    /\ saved = {}
    /\ run = 1
    /\ ran = [id \in Ids |-> 0]
    /\ shown = [id \in Ids |-> 0]
    /\ reqs = <<>>
    /\ tries = 0

LoopStep ==
    \/ TurnLimit
    \/ PrepareFails
    \/ CallProvider
    \/ CompactFails
    \/ \E used \in Costs, msgs \in Compactions(conv) : CompactBefore(used, msgs)
    \/ \E used \in Costs, msgs \in Compactions(Answered) : CompactAfter(used, msgs)

StreamStep ==
    \/ \E r \in Replies : FinalReply(r) \/ RefusedReply(r) \/ CallingReply(r)
    \/ StreamRetries
    \/ StreamFails
    \/ StreamAbandoned
    \/ BackoffElapses
    \/ BackoffInterrupted

BatchStep ==
    \/ \E k \in DOMAIN calls :
         Refuse(k) \/ Execute(k) \/ Hold(k) \/ SendResult(k) \/ LoseResult(k)
    \/ BatchAborts
    \/ BatchPauses
    \/ BatchCompletes

Environment ==
    \/ Expire
    \/ Cancel
    \/ CancelReachesRun
    \/ \E cp \in saved, decide \in Decisions : Resume(cp, decide)

Next == LoopStep \/ StreamStep \/ BatchStep \/ Deliver \/ Drop \/ Environment

Spec == Init /\ [][Next]_vars

\* The scheduler runs the goroutine on, the provider ends its streams, tools
\* return, and the caller reads the stream until it cancels: sends are fair
\* only while sendCtx is alive, and fail fairly afterwards.
Fairness ==
    /\ WF_vars(LoopStep)
    /\ WF_vars(StreamStep)
    /\ WF_vars(\E k \in DOMAIN calls : Refuse(k) \/ Execute(k) \/ Hold(k))
    /\ WF_vars(\E k \in DOMAIN calls : ~sendDone /\ SendResult(k))
    /\ WF_vars(\E k \in DOMAIN calls : LoseResult(k))
    /\ WF_vars(BatchAborts \/ BatchPauses \/ BatchCompletes)
    /\ WF_vars(~sendDone /\ Deliver)
    /\ WF_vars(Drop)
    /\ WF_vars(CancelReachesRun)

FairSpec == Spec /\ Fairness

-----------------------------------------------------------------------------
(* Properties *)

Message ==
    {User} \cup [role : {"assistant"}, calls : Seq(Calls)]
           \cup [role : {"tool"}, id : Ids]

Requested == [id : Ids, sig : Sigs, run : 1 .. MaxRuns]

Pasts == [ran : [Ids -> Nat], shown : [Ids -> Nat], reqs : Seq(Requested), tries : Nat]

Checkpoints ==
    [messages : Seq(Message), turn : 0 .. MaxTurns - 1, usage : Nat,
     calls : Seq(Calls), results : SUBSET Ids, past : Pasts]

\* Every variable of the loop, of its caller and of the history has its type.
TypeOK ==
    /\ pc \in {"turn", "stream", "backoff", "batch", "resume", "ending", "closed"}
    /\ turn \in Turns
    /\ attempt \in 0 .. MaxStreamRetries
    /\ conv \in Seq(Message)
    /\ usage \in Nat
    /\ repeat \in [sig : Sigs \cup {None}, count : Nat]
    /\ calls \in Seq(Calls)
    /\ status \in Seq(Open \cup {"ready", "sent", "lost", "pending"})
    /\ Len(status) = Len(calls)
    /\ final \in {"none", "done", "error", "paused"}
    /\ runDone \in BOOLEAN /\ sendDone \in BOOLEAN
    /\ out \in Seq({"result", "done", "error", "paused"})
    /\ saved \subseteq Checkpoints
    /\ run \in 1 .. MaxRuns
    /\ ran \in [Ids -> Nat] /\ shown \in [Ids -> Nat]
    /\ reqs \in Seq(Requested)
    /\ tries \in Nat

\* Every tool use is followed at once by the result of each of its calls, in
\* call order, and there is no other tool result.
Paired(msgs) ==
    \A k \in DOMAIN msgs :
      /\ msgs[k].role = "assistant" =>
           \A j \in DOMAIN msgs[k].calls :
             k + j \in DOMAIN msgs /\ msgs[k + j] = ToolResult(msgs[k].calls[j])
      /\ msgs[k].role = "tool" =>
           \E i \in 1 .. k - 1 :
             msgs[i].role = "assistant" /\ k - i \in DOMAIN msgs[i].calls

\* What a provider is sent, and what a finished run reports, opens with a user
\* message and pairs every tool use with its results, whatever was retried,
\* paused, resumed in parts, executed in parallel or compacted away.
RequestsPaired ==
    pc = "stream" \/ final = "done" => conv[1] = User /\ Paired(conv)

\* Every checkpoint handed out accounts for the paused turn: its conversation ends
\* with the tool use whose calls it lists, a call has a result in it exactly when
\* the runs up to the pause dealt with it (they executed no call it lists as
\* pending), that result was delivered, and something is left to decide.  What a
\* later resume of it does is in no checkpoint until that one pauses in turn.
AccountsFor(cp) ==
    LET msgs == cp.messages
        done == cp.results
    IN  /\ Paired(SubSeq(msgs, 1, Len(msgs) - 1))
        /\ msgs[Len(msgs)].role = "assistant"
        /\ msgs[Len(msgs)].calls = cp.calls
        /\ \A k \in DOMAIN cp.calls :
             LET id == cp.calls[k].id
             IN  /\ cp.past.ran[id] = 1 => id \in done
                 /\ id \in done <=> cp.past.shown[id] = 1
        /\ \E k \in DOMAIN cp.calls : cp.calls[k].id \notin done

CheckpointAccounts == \A cp \in saved : AccountsFor(cp)

\* A tool call is executed at most once by a run and those that led to it.
ExecutedAtMostOnce == \A id \in Ids : ran[id] <= 1

\* A result is streamed once, and before it is fed back to the model.
ShownOnceAndFirst ==
    /\ \A id \in Ids : shown[id] <= 1
    /\ pc = "stream" =>
         \A k \in DOMAIN conv : conv[k].role = "tool" => shown[conv[k].id] = 1

\* Once the usage the loop counts reaches TokenBudget, no provider call is
\* made and no tool is executed, not even through a checkpoint.
BudgetRespected ==
    TokenBudget > 0 /\ pc \in {"stream", "backoff", "batch", "resume"}
      => usage < TokenBudget

\* Of more than MaxToolRepeats identical calls requested in a row during one
\* run, not all are executed, wherever turns and batches divide them.
RepeatsBounded ==
    MaxToolRepeats > 0 =>
      \A k \in 1 .. Len(reqs) - MaxToolRepeats :
        (\A j \in k .. k + MaxToolRepeats :
            reqs[j].sig = reqs[k].sig /\ reqs[j].run = reqs[k].run)
          => \E j \in k .. k + MaxToolRepeats : ran[reqs[j].id] = 0

\* A run and those that led to it together call the provider at most once per
\* turn and retry.
ProviderCallsBounded == tries <= MaxTurns * (MaxStreamRetries + 1)

\* A stream carries at most one terminal event, as its last event; it has one
\* unless the caller cancelled, even when the run's own timeout ended it.
TerminalEndsStream ==
    /\ \A k \in DOMAIN out : out[k] # "result" => k = Len(out) /\ ~Running
    /\ ~Running /\ ~sendDone => out # <<>> /\ out[Len(out)] # "result"

\* From the run that received it through the resumes that each continue the
\* last checkpoint, a tool call is executed at most once, and its result is
\* streamed at most once and before the model sees it.  A checkpoint that is
\* resumed a second time starts from what had been done when it was taken: what
\* its first resume executed is executed again (Workflow counts those).
HandledOnce == ExecutedAtMostOnce /\ ShownOnceAndFirst

\* What a run may cost together with those that led to it: no provider call and
\* no tool beyond the token budget, and no more provider calls than turns and
\* retries allow.
SpendingBounded == BudgetRespected /\ ProviderCallsBounded

\* Every run ends, whether the caller keeps reading or cancels and leaves.
RunEnds == Running ~> ~Running
=============================================================================
