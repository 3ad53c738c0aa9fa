-------------------------- MODULE AgentLoop_proofs --------------------------
(***************************************************************************)
(* Proofs about AgentLoop, for every configuration of the agent.            *)
(***************************************************************************)
EXTENDS AgentLoop, SequenceTheorems, WellFoundedInduction, TLAPS

-----------------------------------------------------------------------------
(* The token budget *)

\* Where the loop may still spend tokens or run tools: its usage is below the
\* budget there, and in a checkpoint about to be sent or held by the caller.
BudgetInv ==
    /\ usage \in Nat
    /\ TokenBudget > 0 =>
         \/ pc = "closed"
         \/ pc = "ending" /\ final # "paused"
         \/ usage < TokenBudget
    /\ \A cp \in saved :
         cp.usage \in Nat /\ (TokenBudget > 0 => cp.usage < TokenBudget)

\* What a checkpoint says of the run that paused.
LEMMA CheckpointFields ==
  /\ Checkpoint.messages = conv /\ Checkpoint.turn = turn /\ Checkpoint.usage = usage
  /\ Checkpoint.calls = calls /\ Checkpoint.results = Results(status)
  /\ Checkpoint.past = Past
  /\ Past.ran = ran /\ Past.shown = shown /\ Past.reqs = reqs /\ Past.tries = tries
BY DEF Checkpoint, Past

\* What the end of a run changes: a pause adds its checkpoint to those that are kept.
LEMMA Delivered ==
  ASSUME Deliver
  PROVE  /\ UNCHANGED <<turn, attempt, conv, usage, repeat, calls, status, final, runDone,
                        sendDone, run, ran, shown, reqs, tries>>
         /\ pc = "ending" /\ pc' = "closed"
         /\ final # "paused" => saved' = saved
         /\ \A cp \in saved' : cp \in saved \/ (final = "paused" /\ cp = Checkpoint)
BY DEF Deliver, turnVars, batchVars, ctxVars, histVars

\* What a resume takes from its checkpoint.
LEMMA Resumed ==
  ASSUME NEW cp, NEW decide, Resume(cp, decide)
  PROVE  /\ saved' = saved /\ pc = "closed" /\ pc' = "resume" /\ final' = "none"
         /\ run < MaxRuns /\ run' = run + 1 /\ DOMAIN decide = DOMAIN cp.calls
         /\ turn' = cp.turn /\ conv' = cp.messages /\ usage' = cp.usage /\ calls' = cp.calls
         /\ status' = ResumeStatus(cp, decide)
         /\ repeat' = [sig |-> None, count |-> 0] /\ attempt' = 0
         /\ runDone' = FALSE /\ sendDone' = FALSE /\ out' = <<>>
         /\ ran' = cp.past.ran /\ shown' = cp.past.shown
         /\ reqs' = cp.past.reqs /\ tries' = cp.past.tries
BY DEF Resume, Running

LEMMA BudgetInit == Init => BudgetInv
BY ConfigAssumption DEF Init, BudgetInv

LEMMA BudgetLoopStep ==
  ASSUME BudgetInv, LoopStep
  PROVE  BudgetInv'
<1> USE ConfigAssumption DEF BudgetInv, callerVars, turnVars, End
<1>1. CASE TurnLimit \/ PrepareFails \/ CompactFails
  BY <1>1 DEF TurnLimit, PrepareFails, CompactFails
<1>2. CASE CallProvider
  BY <1>2 DEF CallProvider
<1>3. ASSUME NEW used \in Costs, NEW msgs, CompactBefore(used, msgs)
      PROVE  BudgetInv'
  BY <1>3 DEF CompactBefore, OverBudget
<1>4. ASSUME NEW used \in Costs, NEW msgs, CompactAfter(used, msgs)
      PROVE  BudgetInv'
  BY <1>4 DEF CompactAfter, OverBudget, NextTurn
<1> QED
  BY <1>1, <1>2, <1>3, <1>4 DEF LoopStep

LEMMA BudgetStreamStep ==
  ASSUME BudgetInv, StreamStep
  PROVE  BudgetInv'
<1> USE ConfigAssumption DEF BudgetInv, callerVars, turnVars, End
<1>1. ASSUME NEW r \in Replies, Receive(r)
      PROVE  usage' \in Nat /\ saved' = saved
  <2>1. r.cost \in Nat
    BY DEF Replies
  <2>2. usage' = usage + r.cost /\ saved' = saved
    BY <1>1 DEF Receive
  <2> QED
    BY <2>1, <2>2
<1>2. ASSUME NEW r \in Replies, FinalReply(r) \/ RefusedReply(r)
      PROVE  BudgetInv'
  BY <1>1, <1>2 DEF FinalReply, RefusedReply
<1>3. ASSUME NEW r \in Replies, CallingReply(r)
      PROVE  BudgetInv'
  BY <1>1, <1>3 DEF CallingReply, OverBudget
<1>4. ASSUME StreamRetries
      PROVE  BudgetInv'
  BY <1>4 DEF StreamRetries
<1>5. CASE StreamFails \/ StreamAbandoned \/ BackoffElapses \/ BackoffInterrupted
  BY <1>5 DEF StreamFails, StreamAbandoned, BackoffElapses, BackoffInterrupted
<1> QED
  BY <1>2, <1>3, <1>4, <1>5 DEF StreamStep

LEMMA BudgetBatchStep ==
  ASSUME BudgetInv, BatchStep
  PROVE  BudgetInv'
<1> USE ConfigAssumption DEF BudgetInv, callerVars, turnVars, End
<1>1. ASSUME NEW k \in DOMAIN calls,
             Refuse(k) \/ Execute(k) \/ Hold(k) \/ SendResult(k) \/ LoseResult(k)
      PROVE  BudgetInv'
  BY <1>1 DEF Refuse, Execute, Hold, SendResult, LoseResult
<1>2. CASE BatchAborts
  BY <1>2 DEF BatchAborts
<1>3. CASE BatchPauses
  BY <1>3 DEF BatchPauses, InBatch
<1>4. CASE BatchCompletes
  BY <1>4 DEF BatchCompletes, BatchComplete, InBatch, NextTurn
<1> QED
  BY <1>1, <1>2, <1>3, <1>4 DEF BatchStep

LEMMA BudgetNext == BudgetInv /\ [Next]_vars => BudgetInv'
<1> SUFFICES ASSUME BudgetInv, [Next]_vars PROVE BudgetInv'
  OBVIOUS
<1>1. CASE Deliver
  <2>1. final = "paused" =>
          Checkpoint.usage \in Nat /\ (TokenBudget > 0 => Checkpoint.usage < TokenBudget)
    BY <1>1, CheckpointFields, Delivered DEF BudgetInv
  <2> QED
    BY <1>1, <2>1, Delivered DEF BudgetInv
<1>5. CASE Drop
  BY <1>5 DEF BudgetInv, Drop, turnVars, callerVars
<1>2. CASE Expire \/ Cancel \/ CancelReachesRun
  BY <1>2 DEF BudgetInv, Expire, Cancel, CancelReachesRun, turnVars, callerVars
<1>3. ASSUME NEW cp \in saved, NEW decide, Resume(cp, decide)
      PROVE  BudgetInv'
  BY <1>3, Resumed DEF BudgetInv
<1>4. CASE UNCHANGED vars
  BY <1>4 DEF BudgetInv, vars, turnVars, callerVars
<1> QED
  BY <1>1, <1>2, <1>3, <1>4, <1>5, BudgetLoopStep, BudgetStreamStep, BudgetBatchStep
     DEF Next, Environment

\* Once the usage the loop counts reaches TokenBudget, no provider call is
\* made and no tool is executed, not even through a checkpoint.
THEOREM Budget == Spec => []BudgetRespected
<1>1. Init => BudgetInv
  BY BudgetInit
<1>2. BudgetInv /\ [Next]_vars => BudgetInv'
  BY BudgetNext
<1>3. BudgetInv => BudgetRespected
  BY DEF BudgetInv, BudgetRespected
<1> QED
  BY <1>1, <1>2, <1>3, PTL DEF Spec

-----------------------------------------------------------------------------
(* The terminal event *)

Events == {"result", "done", "error", "paused"}

\* Only results are delivered while the run goes on; a delivery that fails, or
\* a run that leaves silently, takes a caller that cancelled.
TerminalInv ==
    /\ out \in Seq(Events)
    /\ Running => \A k \in 1 .. Len(out) : out[k] = "result"
    /\ pc = "ending" => final \in {"done", "error", "paused"}
    /\ ~Running =>
         \A k \in 1 .. Len(out) : out[k] # "result" => k = Len(out)
    /\ ~Running /\ ~sendDone => Len(out) > 0 /\ out[Len(out)] # "result"
    /\ Lost => sendDone

LEMMA TerminalInit == Init => TerminalInv
<1> SUFFICES ASSUME Init PROVE TerminalInv
  OBVIOUS
<1>1. out \in Seq(Events) /\ Len(out) = 0
  BY DEF Init
<1>2. ~Lost
  BY DEF Init, Lost
<1> QED
  BY <1>1, <1>2 DEF Init, TerminalInv, Running

\* Appending to what was delivered.
LEMMA AppendOut ==
  ASSUME out \in Seq(Events), NEW e \in Events, out' = Append(out, e)
  PROVE  /\ out' \in Seq(Events)
         /\ Len(out) \in Nat /\ Len(out') = Len(out) + 1
         /\ \A k \in 1 .. Len(out) : out'[k] = out[k]
         /\ out'[Len(out')] = e
BY AppendProperties, LenProperties

\* A step that delivers nothing and does not end the run.
LEMMA TerminalFrame ==
  ASSUME TerminalInv, Running, Running', out' = out,
         pc' = "ending" => final' \in {"done", "error", "paused"},
         Lost' => sendDone'
  PROVE  TerminalInv'
BY DEF TerminalInv

LEMMA TerminalNext == TerminalInv /\ [Next]_vars => TerminalInv'
<1> SUFFICES ASSUME TerminalInv, [Next]_vars PROVE TerminalInv'
  OBVIOUS
<1> USE DEF Running, callerVars, batchVars, ctxVars, End
<1>1. CASE LoopStep
  <2>1. /\ Running /\ Running' /\ out' = out
        /\ pc' = "ending" => final' \in {"done", "error", "paused"}
        /\ status' = status /\ sendDone' = sendDone
    BY <1>1 DEF LoopStep, TurnLimit, PrepareFails, CompactFails, CallProvider,
       CompactBefore, CompactAfter, BatchComplete, InBatch, NextTurn
  <2> QED
    BY <2>1, TerminalFrame DEF TerminalInv, Lost
<1>2. ASSUME NEW r \in Replies, FinalReply(r) \/ RefusedReply(r) \/ CallingReply(r)
      PROVE  TerminalInv'
  <2>1. /\ Running /\ Running' /\ out' = out /\ sendDone' = sendDone
        /\ pc' = "ending" => final' \in {"done", "error", "paused"}
    BY <1>2 DEF FinalReply, RefusedReply, CallingReply, Receive
  <2>2. Lost' => Lost
    BY <1>2 DEF FinalReply, RefusedReply, CallingReply, Receive, Lost
  <2> QED
    BY <2>1, <2>2, TerminalFrame DEF TerminalInv
<1>3. CASE StreamAbandoned \/ Drop
  BY <1>3 DEF StreamAbandoned, Drop, TerminalInv, Lost
<1>4. ASSUME StreamRetries
      PROVE  TerminalInv'
  <2>1. /\ Running /\ Running' /\ out' = out
        /\ pc' # "ending"
        /\ status' = status /\ sendDone' = sendDone
    BY <1>4 DEF StreamRetries
  <2> QED
    BY <2>1, TerminalFrame DEF TerminalInv, Lost
<1>5. CASE StreamFails \/ BackoffElapses \/ BackoffInterrupted \/ BatchPauses \/ BatchCompletes
  <2>1. /\ Running /\ Running' /\ out' = out
        /\ pc' = "ending" => final' \in {"done", "error", "paused"}
        /\ status' = status /\ sendDone' = sendDone
    BY <1>5 DEF StreamFails, BackoffElapses, BackoffInterrupted, BatchPauses,
       BatchCompletes, BatchComplete, InBatch, NextTurn
  <2> QED
    BY <2>1, TerminalFrame DEF TerminalInv, Lost
<1>6. ASSUME NEW k \in DOMAIN calls, Refuse(k) \/ Execute(k) \/ Hold(k) \/ LoseResult(k)
      PROVE  TerminalInv'
  <2>1. /\ Running /\ Running' /\ out' = out
        /\ pc' # "ending" /\ sendDone' = sendDone
    BY <1>6 DEF Refuse, Execute, Hold, LoseResult, MayStart, InBatch
  <2>2. Lost' => Lost \/ sendDone
    BY <1>6 DEF Refuse, Execute, Hold, LoseResult, Lost
  <2> QED
    BY <2>1, <2>2, TerminalFrame DEF TerminalInv
<1>7. ASSUME NEW k \in DOMAIN calls, SendResult(k)
      PROVE  TerminalInv'
  <2>1. /\ Running /\ Running' /\ pc' # "ending"
        /\ out' = Append(out, "result") /\ sendDone' = sendDone
    BY <1>7 DEF SendResult, InBatch
  <2>2. Lost' => Lost
    BY <1>7 DEF SendResult, Lost
  <2>3. "result" \in Events /\ out \in Seq(Events)
    BY DEF Events, TerminalInv
  <2>4. /\ out' \in Seq(Events)
        /\ Len(out) \in Nat /\ Len(out') = Len(out) + 1
        /\ \A j \in 1 .. Len(out) : out'[j] = out[j]
        /\ out'[Len(out')] = "result"
    BY <2>1, <2>3, AppendOut
  <2>5. \A j \in 1 .. Len(out') : out'[j] = "result"
    <3>1. \A j \in 1 .. Len(out') : j \in 1 .. Len(out) \/ j = Len(out')
      BY <2>4
    <3> QED
      BY <2>1, <2>4, <3>1 DEF TerminalInv
  <2> QED
    BY <2>1, <2>2, <2>4, <2>5 DEF TerminalInv
<1>8. CASE BatchAborts
  <2>1. CASE runDone
    <3>1. /\ Running /\ Running' /\ out' = out
          /\ pc' = "ending" /\ final' = "error"
          /\ status' = status /\ sendDone' = sendDone
      BY <1>8, <2>1 DEF BatchAborts, InBatch
    <3> QED
      BY <3>1, TerminalFrame DEF TerminalInv, Lost
  <2>2. CASE ~runDone
    <3>1. Lost /\ pc' = "closed" /\ UNCHANGED <<out, status, sendDone>> /\ Running
      BY <1>8, <2>2 DEF BatchAborts, BatchFailed, InBatch
    <3> QED
      BY <3>1 DEF TerminalInv, Lost
  <2> QED
    BY <2>1, <2>2
<1>9. CASE Deliver
  <2>1. /\ Running /\ ~Running' /\ pc' # "ending"
        /\ out' = Append(out, final) /\ UNCHANGED <<status, sendDone>>
    BY <1>9 DEF Deliver
  <2>2. final \in {"done", "error", "paused"} /\ out \in Seq(Events)
    BY <1>9 DEF Deliver, TerminalInv
  <2>3. final \in Events /\ final # "result"
    BY <2>2 DEF Events
  <2>4. /\ out' \in Seq(Events)
        /\ Len(out) \in Nat /\ Len(out') = Len(out) + 1
        /\ \A j \in 1 .. Len(out) : out'[j] = out[j]
        /\ out'[Len(out')] = final
    BY <2>1, <2>2, <2>3, AppendOut
  <2>5. \A j \in 1 .. Len(out') : out'[j] # "result" => j = Len(out')
    <3>1. \A j \in 1 .. Len(out') : j \in 1 .. Len(out) \/ j = Len(out')
      BY <2>4
    <3> QED
      BY <2>1, <2>4, <3>1 DEF TerminalInv
  <2> QED
    BY <2>1, <2>3, <2>4, <2>5 DEF TerminalInv, Lost
<1>10. CASE Expire \/ Cancel \/ CancelReachesRun
  BY <1>10, TerminalFrame DEF Expire, Cancel, CancelReachesRun, TerminalInv, Lost
<1>11. ASSUME NEW cp \in saved, NEW decide \in Decisions, Resume(cp, decide)
      PROVE  TerminalInv'
  <2>1. out' = <<>> /\ pc' = "resume" /\ status' = ResumeStatus(cp, decide)
        /\ DOMAIN decide = DOMAIN cp.calls
    BY <1>11, Resumed
  <2>2. \A k \in DOMAIN decide : decide[k] # "lost"
    BY DEF Decisions
  <2>3. ~Lost'
    BY <2>1, <2>2 DEF Lost, ResumeStatus
  <2>4. out' \in Seq(Events) /\ Len(out') = 0
    BY <2>1
  <2> QED
    BY <2>1, <2>3, <2>4 DEF TerminalInv
<1>12. CASE UNCHANGED vars
  BY <1>12 DEF TerminalInv, vars, Lost
<1> QED
  BY <1>1, <1>2, <1>3, <1>4, <1>5, <1>6, <1>7, <1>8, <1>9, <1>10, <1>11, <1>12
     DEF Next, StreamStep, BatchStep, Environment

\* A stream carries at most one terminal event, as its last event; it has one
\* unless the caller cancelled, even when the run's own timeout ended it.
THEOREM Terminal == Spec => []TerminalEndsStream
<1>1. Init => TerminalInv
  BY TerminalInit
<1>2. TerminalInv /\ [Next]_vars => TerminalInv'
  BY TerminalNext
<1>3. TerminalInv => TerminalEndsStream
  <2> SUFFICES ASSUME TerminalInv PROVE TerminalEndsStream
    OBVIOUS
  <2>1. out \in Seq(Events) /\ DOMAIN out = 1 .. Len(out) /\ Len(out) \in Nat
    BY LenProperties DEF TerminalInv
  <2>2. Len(out) > 0 => out # <<>>
    OBVIOUS
  <2> QED
    BY <2>1, <2>2 DEF TerminalInv, TerminalEndsStream
<1> QED
  BY <1>1, <1>2, <1>3, PTL DEF Spec

-----------------------------------------------------------------------------
(* The number of provider calls *)

Attempts == MaxStreamRetries + 1

\* The calls that t whole turns may take.
Upto(t) == t * Attempts

LEMMA UptoFacts ==
  /\ Attempts \in Nat \ {0}
  /\ \A t \in Nat : Upto(t) \in Nat /\ Upto(t + 1) = Upto(t) + Attempts
  /\ \A t \in 0 .. MaxTurns : Upto(t) <= Upto(MaxTurns)
  /\ Upto(0) = 0
<1>1. Attempts \in Nat \ {0}
  BY ConfigAssumption DEF Attempts
<1>2. ASSUME NEW t \in Nat, NEW A \in Nat
      PROVE  t * A \in Nat /\ (t + 1) * A = t * A + A
  OBVIOUS
<1>3. ASSUME NEW t \in Nat, NEW m \in Nat, t <= m, NEW A \in Nat
      PROVE  t * A <= m * A
  <2>1. PICK d \in Nat : m = t + d
    BY <1>3
  <2>2. m * A = t * A + d * A /\ d * A \in Nat /\ t * A \in Nat
    BY <2>1
  <2> QED
    BY <2>2
<1>4. 0 * Attempts = 0
  BY <1>1
<1> QED
  BY <1>1, <1>2, <1>3, <1>4, ConfigAssumption DEF Upto

\* How many calls were made, by where the loop stands.
TriesInv ==
    /\ turn \in 0 .. MaxTurns
    /\ attempt \in 0 .. MaxStreamRetries
    /\ tries \in Nat /\ tries <= Upto(MaxTurns)
    /\ pc = "turn" => tries <= Upto(turn)
    /\ pc \in {"stream", "backoff"} =>
         turn < MaxTurns /\ tries <= Upto(turn) + attempt + 1
    /\ pc = "backoff" => attempt < MaxStreamRetries
    /\ pc \in {"batch", "resume"} \/ (pc = "ending" /\ final = "paused") =>
         turn < MaxTurns /\ tries <= Upto(turn) + Attempts
    /\ \A cp \in saved :
         /\ cp.turn \in 0 .. MaxTurns - 1
         /\ cp.past.tries \in Nat
         /\ cp.past.tries <= Upto(cp.turn) + Attempts

LEMMA TriesInit == Init => TriesInv
BY ConfigAssumption, UptoFacts DEF Init, TriesInv

LEMMA TriesLoopStep ==
  ASSUME TriesInv, LoopStep
  PROVE  TriesInv'
<1> USE ConfigAssumption, UptoFacts DEF TriesInv, callerVars, turnVars, histVars, End
<1>1. CASE TurnLimit \/ PrepareFails \/ CompactFails
  BY <1>1 DEF TurnLimit, PrepareFails, CompactFails, BatchComplete, InBatch
<1>2. ASSUME pc = "turn", turn < MaxTurns, pc' = "stream", attempt' = 0,
             tries' = tries + 1, UNCHANGED <<turn, saved>>
      PROVE  TriesInv'
  <2>1. /\ turn \in Nat /\ turn + 1 \in 0 .. MaxTurns
        /\ tries <= Upto(turn)
    BY <1>2
  <2>2. Upto(turn) + 1 <= Upto(turn + 1) /\ Upto(turn + 1) <= Upto(MaxTurns)
    BY <2>1
  <2>3. tries' <= Upto(turn) + 1 /\ tries' <= Upto(MaxTurns)
    BY <1>2, <2>1, <2>2
  <2> QED
    BY <1>2, <2>1, <2>3
<1>3. CASE CallProvider
  BY <1>2, <1>3 DEF CallProvider
<1>4. ASSUME NEW used \in Costs, NEW msgs, CompactBefore(used, msgs)
      PROVE  TriesInv'
  <2>1. CASE OverBudget(usage')
    BY <1>4, <2>1 DEF CompactBefore
  <2>2. CASE ~OverBudget(usage')
    BY <1>2, <1>4, <2>2 DEF CompactBefore
  <2> QED
    BY <2>1, <2>2
<1>5. ASSUME NEW used \in Costs, NEW msgs, CompactAfter(used, msgs)
      PROVE  TriesInv'
  BY <1>5 DEF CompactAfter, BatchComplete, NextTurn
<1> QED
  BY <1>1, <1>3, <1>4, <1>5 DEF LoopStep

LEMMA TriesStreamStep ==
  ASSUME TriesInv, StreamStep
  PROVE  TriesInv'
<1> USE ConfigAssumption, UptoFacts DEF TriesInv, callerVars, turnVars, histVars, End
<1>1. ASSUME NEW r \in Replies, FinalReply(r) \/ RefusedReply(r) \/ CallingReply(r)
      PROVE  TriesInv'
  <2>1. /\ pc = "stream" /\ UNCHANGED <<turn, attempt, tries, saved>>
        /\ pc' = "batch" \/ (pc' = "ending" /\ final' # "paused")
    BY <1>1 DEF FinalReply, RefusedReply, CallingReply, Receive
  <2>2. tries <= Upto(turn) + Attempts
    BY <2>1 DEF Attempts
  <2> QED
    BY <2>1, <2>2
<1>2. ASSUME StreamRetries
      PROVE  TriesInv'
  BY <1>2 DEF StreamRetries
<1>3. CASE StreamFails \/ StreamAbandoned \/ BackoffInterrupted
  BY <1>3 DEF StreamFails, StreamAbandoned, BackoffInterrupted
<1>4. CASE BackoffElapses
  <2>1. /\ pc = "backoff" /\ pc' = "stream" /\ attempt' = attempt + 1
        /\ tries' = tries + 1 /\ UNCHANGED <<turn, saved>>
    BY <1>4 DEF BackoffElapses
  <2>2. /\ attempt' \in 0 .. MaxStreamRetries
        /\ tries' <= Upto(turn) + attempt' + 1 /\ tries' <= Upto(turn) + Attempts
    BY <2>1 DEF Attempts
  <2>3. turn \in Nat /\ turn + 1 \in 0 .. MaxTurns
    BY <2>1
  <2>4. Upto(turn) + Attempts <= Upto(MaxTurns)
    BY <2>3
  <2>5. tries' \in Nat /\ tries' <= Upto(MaxTurns)
    BY <2>1, <2>2, <2>3, <2>4
  <2> QED
    BY <2>1, <2>2, <2>5
<1> QED
  BY <1>1, <1>2, <1>3, <1>4 DEF StreamStep

LEMMA TriesBatchStep ==
  ASSUME TriesInv, BatchStep
  PROVE  TriesInv'
<1> USE ConfigAssumption, UptoFacts DEF TriesInv, callerVars, turnVars, histVars, End
<1>1. ASSUME NEW k \in DOMAIN calls,
             Refuse(k) \/ Execute(k) \/ Hold(k) \/ SendResult(k) \/ LoseResult(k)
      PROVE  TriesInv'
  BY <1>1 DEF Refuse, Execute, Hold, SendResult, LoseResult
<1>2. CASE BatchAborts
  BY <1>2 DEF BatchAborts, InBatch
<1>3. CASE BatchPauses
  BY <1>3 DEF BatchPauses, InBatch
<1>4. CASE BatchCompletes
  BY <1>4 DEF BatchCompletes, BatchComplete, InBatch, NextTurn
<1> QED
  BY <1>1, <1>2, <1>3, <1>4 DEF BatchStep

LEMMA TriesNext == TriesInv /\ [Next]_vars => TriesInv'
<1> SUFFICES ASSUME TriesInv, [Next]_vars PROVE TriesInv'
  OBVIOUS
<1> USE DEF turnVars, callerVars, histVars
<1>1. CASE Deliver
  <2>1. final = "paused" =>
          /\ Checkpoint.turn \in 0 .. MaxTurns - 1
          /\ Checkpoint.past.tries \in Nat
          /\ Checkpoint.past.tries <= Upto(Checkpoint.turn) + Attempts
    BY <1>1, CheckpointFields, Delivered, ConfigAssumption DEF TriesInv
  <2> QED
    BY <1>1, <2>1, Delivered DEF TriesInv
<1>2. CASE Drop
  BY <1>2 DEF TriesInv, Drop
<1>3. CASE Expire \/ Cancel \/ CancelReachesRun
  BY <1>3 DEF TriesInv, Expire, Cancel, CancelReachesRun
<1>4. ASSUME NEW cp \in saved, NEW decide, Resume(cp, decide)
      PROVE  TriesInv'
  <2>1. /\ saved' = saved /\ pc' = "resume"
        /\ turn' = cp.turn /\ attempt' = 0 /\ tries' = cp.past.tries
    BY <1>4, Resumed
  <2>2. /\ turn' \in 0 .. MaxTurns /\ turn' < MaxTurns
        /\ turn' \in Nat /\ turn' + 1 \in 0 .. MaxTurns
        /\ tries' \in Nat /\ tries' <= Upto(turn') + Attempts
    BY <2>1, ConfigAssumption DEF TriesInv
  <2>3. attempt' \in 0 .. MaxStreamRetries /\ tries' <= Upto(MaxTurns)
    <3>1. Upto(turn') + Attempts <= Upto(MaxTurns) /\ Upto(turn') \in Nat /\ Upto(MaxTurns) \in Nat
          /\ Attempts \in Nat
      BY <2>2, UptoFacts, ConfigAssumption
    <3> QED
      BY <2>1, <2>2, <3>1, ConfigAssumption
  <2> QED
    BY <2>1, <2>2, <2>3 DEF TriesInv
<1>5. CASE UNCHANGED vars
  BY <1>5 DEF TriesInv, vars
<1> QED
  BY <1>1, <1>2, <1>3, <1>4, <1>5, TriesLoopStep, TriesStreamStep, TriesBatchStep
     DEF Next, Environment

\* A run and those that led to it (each continued a checkpoint of the one before)
\* together call the provider at most once per turn and retry.
THEOREM ProviderCalls == Spec => []ProviderCallsBounded
<1>1. Init => TriesInv
  BY TriesInit
<1>2. TriesInv /\ [Next]_vars => TriesInv'
  BY TriesNext
<1>3. TriesInv => ProviderCallsBounded
  BY DEF TriesInv, ProviderCallsBounded, Upto, Attempts
<1> QED
  BY <1>1, <1>2, <1>3, PTL DEF Spec

\* What a run may cost together with those that led to it: no provider call and no
\* tool beyond the token budget, and no more provider calls than turns and retries.
THEOREM Spending == Spec => []SpendingBounded
<1>1. BudgetRespected /\ ProviderCallsBounded <=> SpendingBounded
  BY DEF SpendingBounded
<1> QED
  BY <1>1, Budget, ProviderCalls, PTL

------------------------------------------------------------------------------

-----------------------------------------------------------------------------
(* Calls, their executions and their deliveries *)

\* A batch of turn t: its calls are numbered, so that no two have one id.
Numbered(cs, t) ==
    /\ t \in 0 .. MaxTurns - 1
    /\ cs \in Seq(Calls)
    /\ \A k \in 1 .. Len(cs) : k \in 1 .. MaxCalls /\ cs[k].id = <<t, k>>

\* No call of turn t or a later one was dealt with.
Fresh(t) == \A id \in Ids : id[1] >= t => ran[id] = 0 /\ shown[id] = 0

\* A batch is being dealt with, or its checkpoint is on its way to the caller.
Active == InBatch \/ (pc = "ending" /\ final = "paused")

Statuses == Open \cup {"ready", "sent", "lost", "pending"}

\* What a call's status says of its execution and of its delivery.
Told(id, s) ==
    /\ s \in Open \cup {"pending"} => ran[id] = 0 /\ shown[id] = 0
    /\ s \in {"ready", "lost"} => shown[id] = 0
    /\ s = "sent" => shown[id] = 1

BatchInv ==
    Active =>
        /\ Numbered(calls, turn)
        /\ status \in Seq(Statuses)
        /\ Len(status) = Len(calls)
        /\ \A k \in 1 .. Len(calls) : Told(calls[k].id, status[k])
        /\ Fresh(turn + 1)
        /\ ~InBatch => \A k \in 1 .. Len(calls) : status[k] \in {"sent", "pending"}
        /\ ~InBatch => \E k \in 1 .. Len(calls) : status[k] = "pending"

\* Messages whose results the caller was shown.
ShownIn(sh) == {m \in Message : m.role = "tool" => sh[m.id] = 1}

Shown == ShownIn(shown)

\* The same of a checkpoint, by what had been done when it was taken.
SavedInv ==
    \A cp \in saved :
        /\ Numbered(cp.calls, cp.turn)
        /\ cp.past.ran \in [Ids -> 0 .. 1] /\ cp.past.shown \in [Ids -> 0 .. 1]
        /\ \A k \in 1 .. Len(cp.calls) :
             LET id == cp.calls[k].id
             IN  IF id \in cp.results THEN cp.past.shown[id] = 1
                 ELSE cp.past.ran[id] = 0 /\ cp.past.shown[id] = 0
        /\ \E k \in 1 .. Len(cp.calls) : cp.calls[k].id \notin cp.results
        /\ \A id \in Ids :
             id[1] >= cp.turn + 1 => cp.past.ran[id] = 0 /\ cp.past.shown[id] = 0
        /\ cp.messages \in Seq(ShownIn(cp.past.shown))

HandledInv ==
    /\ ran \in [Ids -> 0 .. 1]
    /\ shown \in [Ids -> 0 .. 1]
    /\ pc \in {"turn", "stream", "backoff"} => Fresh(turn)
    /\ BatchInv
    /\ SavedInv
    /\ conv \in Seq(Shown)

LEMMA HandledInit == Init => HandledInv
<1> SUFFICES ASSUME Init PROVE HandledInv
  OBVIOUS
<1>1. User \in Shown
  <2>1. User \in Message /\ User.role # "tool"
    BY DEF Message, User
  <2> QED
    BY <2>1 DEF Shown, ShownIn
<1>2. conv \in Seq(Shown)
  BY <1>1 DEF Init
<1>3. ran \in [Ids -> 0 .. 1] /\ shown \in [Ids -> 0 .. 1] /\ Fresh(turn)
  BY DEF Init, Fresh
<1> QED
  BY <1>2, <1>3 DEF Init, HandledInv, BatchInv, SavedInv, Active, InBatch

LEMMA IdFacts ==
  ASSUME NEW cs, NEW t, Numbered(cs, t), NEW k \in 1 .. Len(cs)
  PROVE  /\ cs[k].id \in Ids /\ cs[k] \in Calls
         /\ cs[k].id[1] = t
         /\ \A j \in 1 .. Len(cs) : cs[j].id = cs[k].id => j = k
<1>1. cs \in Seq(Calls) /\ cs[k].id = <<t, k>>
  BY DEF Numbered
<1>2. cs[k] \in Calls
  BY <1>1, ElementOfSeq
<1>3. cs[k].id \in Ids
  BY <1>2 DEF Calls
<1>4. <<t, k>>[1] = t
  OBVIOUS
<1>5. ASSUME NEW j \in 1 .. Len(cs), cs[j].id = cs[k].id PROVE j = k
  <2>1. cs[j].id = <<t, j>>
    BY DEF Numbered
  <2> QED
    BY <1>1, <1>5, <2>1
<1> QED
  BY <1>1, <1>2, <1>3, <1>4, <1>5

\* What is shown stays shown: a step may add results and executions of calls.
LEMMA ShownGrows ==
  ASSUME \A id \in Ids : shown[id] = 1 => shown'[id] = 1
  PROVE  Shown \subseteq Shown' /\ Seq(Shown) \subseteq Seq(Shown')
<1>1. ASSUME NEW m \in Shown PROVE m \in Shown'
  <2>1. m \in Message /\ (m.role = "tool" => shown[m.id] = 1)
    BY DEF Shown, ShownIn
  <2>2. m.role = "tool" => m.id \in Ids
    BY <2>1 DEF Message, User
  <2> QED
    BY <2>1, <2>2 DEF Shown, ShownIn
<1> QED
  BY <1>1, SeqMonotonic

\* Steps that neither execute nor deliver anything and leave the batch alone.
LEMMA HandledFrame ==
  ASSUME HandledInv, UNCHANGED <<ran, shown, saved>>, conv' \in Seq(Shown),
         pc' \in {"turn", "stream", "backoff"} => Fresh(turn'),
         Active' => Active /\ UNCHANGED <<calls, status, turn>>,
         Active' /\ InBatch => InBatch'
  PROVE  HandledInv'
<1>1. Shown' = Shown
  BY DEF Shown, ShownIn
<1>2. \A t : Fresh(t)' <=> Fresh(t)
  BY DEF Fresh
<1>3. BatchInv'
  <2> SUFFICES ASSUME Active' PROVE BatchInv'
    BY DEF BatchInv
  <2>1. \A k \in 1 .. Len(calls) : Told(calls[k].id, status[k])' <=> Told(calls[k].id, status[k])
    BY DEF Told
  <2> QED
    BY <1>2, <2>1 DEF BatchInv, HandledInv, Numbered, Fresh, Told
<1>4. SavedInv' /\ conv' \in Seq(Shown)'
  BY <1>1 DEF HandledInv, SavedInv
<1>5. (pc \in {"turn", "stream", "backoff"} => Fresh(turn))'
  BY DEF Fresh
<1> QED
  BY <1>3, <1>4, <1>5 DEF HandledInv

LEMMA UserShown == User \in Shown /\ User \in Message
<1>1. User \in Message /\ User.role # "tool"
  BY DEF Message, User
<1> QED
  BY <1>1 DEF Shown, ShownIn

\* A compaction keeps messages and adds a note of the user's.
LEMMA CompactionsKeep ==
  ASSUME NEW S, User \in S, NEW msgs \in Seq(S), NEW c \in Compactions(msgs)
  PROVE  c \in Seq(S)
<1>1. ASSUME NEW k \in 3 .. Len(msgs), c = <<msgs[1], User>> \o SubSeq(msgs, k, Len(msgs))
      PROVE  c \in Seq(S)
  <2>1. Len(msgs) \in Nat /\ k \in Int /\ 1 \in 1 .. Len(msgs) /\ k \in Nat
    BY LenProperties
  <2>2. msgs[1] \in S /\ \A i \in k .. Len(msgs) : msgs[i] \in S
    BY <2>1, ElementOfSeq
  <2>3. <<msgs[1], User>> \in Seq(S)
    BY <2>2
  <2>4. SubSeq(msgs, k, Len(msgs)) \in Seq(S)
    BY <2>1, <2>2, SubSeqProperties
  <2> QED
    BY <2>3, <2>4, <1>1, ConcatProperties
<1> QED
  BY <1>1 DEF Compactions

\* When every call has been answered, the results join the conversation.
LEMMA AnsweredShown ==
  ASSUME HandledInv, BatchComplete
  PROVE  Answered \in Seq(Shown) /\ Fresh(turn + 1)
<1>1. /\ Numbered(calls, turn) /\ calls \in Seq(Calls) /\ status \in Seq(Statuses)
      /\ Len(status) = Len(calls)
      /\ \A k \in 1 .. Len(calls) : Told(calls[k].id, status[k])
      /\ Fresh(turn + 1)
  BY DEF HandledInv, BatchInv, BatchComplete, Active, Numbered
<1>2. /\ DOMAIN calls = 1 .. Len(calls) /\ Len(calls) \in Nat
      /\ DOMAIN status = 1 .. Len(calls)
  BY <1>1, LenProperties
<1>3. ASSUME NEW k \in 1 .. Len(calls) PROVE ToolResult(calls[k]) \in Shown
  <2>1. calls[k].id \in Ids
    BY <1>1, IdFacts
  <2>2. shown[calls[k].id] = 1
    BY <1>1, <1>2 DEF Told, BatchComplete
  <2>3. ToolResult(calls[k]) \in Message
    BY <2>1 DEF ToolResult, Message
  <2> QED
    BY <2>2, <2>3 DEF Shown, ShownIn, ToolResult
<1>4. [k \in DOMAIN calls |-> ToolResult(calls[k])] \in Seq(Shown)
  BY <1>2, <1>3
<1>5. conv \in Seq(Shown)
  BY DEF HandledInv
<1> QED
  BY <1>1, <1>4, <1>5, ConcatProperties DEF Answered

LEMMA HandledLoopStep ==
  ASSUME HandledInv, LoopStep
  PROVE  HandledInv'
<1> USE DEF turnVars, callerVars, histVars, batchVars, End
<1>1. conv \in Seq(Shown)
  BY DEF HandledInv
<1>2. CASE TurnLimit \/ PrepareFails
  <2>1. UNCHANGED <<ran, shown, saved, conv>> /\ pc' = "ending" /\ ~Active'
    BY <1>2 DEF TurnLimit, PrepareFails, Active, InBatch
  <2> QED
    BY <1>1, <2>1, HandledFrame
<1>3. CASE CallProvider
  <2>1. UNCHANGED <<ran, shown, saved, conv, turn>> /\ pc = "turn" /\ pc' = "stream" /\ ~Active'
    BY <1>3 DEF CallProvider, Active, InBatch
  <2> QED
    BY <1>1, <2>1, HandledFrame DEF HandledInv
<1>4. ASSUME NEW used \in Costs, NEW msgs \in Compactions(conv), CompactBefore(used, msgs)
      PROVE  HandledInv'
  <2>1. /\ UNCHANGED <<ran, shown, saved, turn>> /\ pc = "turn" /\ conv' = msgs
        /\ pc' = "stream" \/ (pc' = "ending" /\ final' = "error")
    BY <1>4 DEF CompactBefore
  <2>2. msgs \in Seq(Shown)
    BY <1>1, UserShown, CompactionsKeep
  <2>3. ~Active'
    BY <2>1 DEF Active, InBatch
  <2> QED
    BY <2>1, <2>2, <2>3, HandledFrame DEF HandledInv
<1>5. ASSUME NEW used \in Costs, NEW msgs \in Compactions(Answered), CompactAfter(used, msgs)
      PROVE  HandledInv'
  <2>1. /\ UNCHANGED <<ran, shown, saved>> /\ conv' = msgs
        /\ (pc' = "turn" /\ turn' = turn + 1) \/ (pc' = "ending" /\ final' = "error")
    BY <1>5 DEF CompactAfter, NextTurn
  <2>2. Answered \in Seq(Shown) /\ Fresh(turn + 1)
    BY <1>5, AnsweredShown DEF CompactAfter
  <2>3. msgs \in Seq(Shown)
    BY <2>2, UserShown, CompactionsKeep
  <2>4. ~Active'
    BY <2>1 DEF Active, InBatch
  <2> QED
    BY <2>1, <2>2, <2>3, <2>4, HandledFrame
<1>6. CASE CompactFails
  <2>1. /\ UNCHANGED <<ran, shown, saved>> /\ pc' = "ending" /\ final' = "error"
        /\ (conv' = Answered /\ BatchComplete) \/ conv' = conv
    BY <1>6 DEF CompactFails
  <2>2. conv' \in Seq(Shown) /\ ~Active'
    BY <1>1, <2>1, AnsweredShown DEF Active, InBatch
  <2> QED
    BY <2>1, <2>2, HandledFrame
<1> QED
  BY <1>2, <1>3, <1>4, <1>5, <1>6 DEF LoopStep

\* The calls of a reply, numbered by their turn.
LEMMA CallsOfReply ==
  ASSUME NEW r \in Replies, turn \in 0 .. MaxTurns - 1
  PROVE  /\ r.calls \in Seq(Sigs) /\ DOMAIN r.calls = 1 .. Len(r.calls)
         /\ CallsOf(r) \in Seq(Calls) /\ Len(CallsOf(r)) = Len(r.calls)
         /\ Numbered(CallsOf(r), turn)
         /\ Assistant(CallsOf(r)) \in Message
<1>1. PICK n \in 0 .. MaxCalls : r.calls \in [1 .. n -> Sigs]
  BY DEF Replies
<1>2. r.calls \in Seq(Sigs) /\ Len(r.calls) = n /\ DOMAIN r.calls = 1 .. n
  BY <1>1, ConfigAssumption
<1>3. ASSUME NEW k \in 1 .. n PROVE [id |-> <<turn, k>>, sig |-> r.calls[k]] \in Calls
  BY <1>1, ConfigAssumption DEF Calls, Ids
<1>4. CallsOf(r) \in Seq(Calls) /\ Len(CallsOf(r)) = n
  BY <1>2, <1>3, ConfigAssumption DEF CallsOf
<1>5. \A k \in 1 .. n : CallsOf(r)[k].id = <<turn, k>> /\ k \in 1 .. MaxCalls
  BY <1>2, ConfigAssumption DEF CallsOf
<1> QED
  BY <1>2, <1>4, <1>5 DEF Numbered, Assistant, Message

LEMMA HandledStreamStep ==
  ASSUME HandledInv, TriesInv, StreamStep
  PROVE  HandledInv'
<1> USE DEF turnVars, callerVars, histVars, batchVars, End
<1>1. conv \in Seq(Shown)
  BY DEF HandledInv
<1>2. ASSUME NEW r \in Replies, Receive(r)
      PROVE  /\ UNCHANGED <<ran, shown, saved, turn>> /\ conv' \in Seq(Shown)
             /\ turn \in 0 .. MaxTurns - 1 /\ Fresh(turn)
  <2>1. turn \in 0 .. MaxTurns - 1 /\ Fresh(turn)
    BY <1>2, ConfigAssumption DEF Receive, TriesInv, HandledInv
  <2>2. Assistant(CallsOf(r)) \in Shown
    BY <2>1, CallsOfReply DEF Shown, ShownIn, Assistant
  <2>3. Append(conv, Assistant(CallsOf(r))) \in Seq(Shown)
    BY <1>1, <2>2, AppendProperties
  <2> QED
    BY <1>1, <1>2, <2>1, <2>3 DEF Receive
<1>3. ASSUME NEW r \in Replies, FinalReply(r) \/ RefusedReply(r)
      PROVE  HandledInv'
  <2>1. Receive(r) /\ pc' = "ending" /\ final' # "paused"
    BY <1>3 DEF FinalReply, RefusedReply
  <2>2. UNCHANGED <<ran, shown, saved>> /\ conv' \in Seq(Shown)
    BY <1>2, <2>1
  <2> QED
    BY <2>1, <2>2, HandledFrame DEF Active, InBatch
<1>4. ASSUME NEW r \in Replies, CallingReply(r)
      PROVE  HandledInv'
  <2>1. /\ UNCHANGED <<ran, shown, saved, turn>> /\ conv' \in Seq(Shown)
        /\ turn \in 0 .. MaxTurns - 1 /\ Fresh(turn)
        /\ pc' = "batch" /\ calls' = CallsOf(r)
        /\ status' = [k \in DOMAIN r.calls |-> IF ForcedCall(CallsOf(r), k) THEN "forced" ELSE "ask"]
    BY <1>2, <1>4 DEF CallingReply
  <2>2. Shown' = Shown
    BY <2>1 DEF Shown, ShownIn
  <2>3. /\ Numbered(calls', turn') /\ calls' \in Seq(Calls) /\ Len(calls') = Len(r.calls)
        /\ DOMAIN r.calls = 1 .. Len(r.calls) /\ Len(r.calls) \in Nat
    BY <2>1, CallsOfReply, LenProperties DEF Numbered
  <2>4. /\ status' \in Seq(Statuses) /\ Len(status') = Len(calls')
        /\ \A k \in 1 .. Len(calls') : status'[k] \in {"forced", "ask"}
    BY <2>1, <2>3 DEF Statuses, Open
  <2>5. ASSUME NEW k \in 1 .. Len(calls') PROVE Told(calls[k].id, status[k])'
    <3>1. calls'[k].id \in Ids /\ calls'[k].id[1] = turn /\ turn >= turn
      BY <2>1, <2>3, IdFacts
    <3>2. ran'[calls'[k].id] = 0 /\ shown'[calls'[k].id] = 0
      BY <2>1, <3>1 DEF Fresh
    <3> QED
      BY <2>4, <3>2 DEF Told
  <2>6. Fresh(turn + 1)'
    BY <2>1 DEF Fresh, Ids
  <2>7. BatchInv'
    BY <2>1, <2>3, <2>4, <2>5, <2>6 DEF BatchInv, InBatch, Numbered
  <2> QED
    BY <2>1, <2>2, <2>7 DEF HandledInv, SavedInv
<1>5. CASE StreamRetries \/ BackoffElapses
  <2>1. /\ UNCHANGED <<ran, shown, saved, conv, turn>> /\ pc \in {"stream", "backoff"}
        /\ pc' \in {"stream", "backoff"}
    BY <1>5 DEF StreamRetries, BackoffElapses
  <2> QED
    BY <1>1, <2>1, HandledFrame DEF HandledInv, Active, InBatch
<1>6. CASE StreamFails \/ StreamAbandoned \/ BackoffInterrupted
  <2>1. /\ UNCHANGED <<ran, shown, saved, conv>>
        /\ pc' = "closed" \/ (pc' = "ending" /\ final' = "error")
    BY <1>6 DEF StreamFails, StreamAbandoned, BackoffInterrupted
  <2> QED
    BY <1>1, <2>1, HandledFrame DEF Active, InBatch
<1> QED
  BY <1>3, <1>4, <1>5, <1>6 DEF StreamStep

-----------------------------------------------------------------------------
\* A step of the handling of call k.
LEMMA HandledCallStep ==
  ASSUME HandledInv, InBatch, NEW k \in 1 .. Len(calls), NEW s \in Statuses,
         status' = [status EXCEPT ![k] = s],
         UNCHANGED <<pc, turn, conv, calls, saved>>,
         ran' \in [Ids -> 0 .. 1], shown' \in [Ids -> 0 .. 1],
         \A id \in Ids : id # calls[k].id => ran'[id] = ran[id] /\ shown'[id] = shown[id],
         shown[calls[k].id] = 1 => shown'[calls[k].id] = 1,
         Told(calls[k].id, s)'
  PROVE  HandledInv'
<1>1. /\ Numbered(calls, turn) /\ status \in Seq(Statuses) /\ Len(status) = Len(calls)
      /\ \A j \in 1 .. Len(calls) : Told(calls[j].id, status[j])
      /\ Fresh(turn + 1) /\ turn \in Nat
  BY ConfigAssumption DEF HandledInv, BatchInv, Active, Numbered
<1>2. /\ status' \in Seq(Statuses) /\ Len(status') = Len(calls)
      /\ \A j \in 1 .. Len(calls) : status'[j] = IF j = k THEN s ELSE status[j]
  BY <1>1, ExceptSeq
<1>3. ASSUME NEW j \in 1 .. Len(calls) PROVE Told(calls[j].id, status[j])'
  <2>1. CASE j = k
    BY <1>2, <2>1 DEF Told
  <2>2. CASE j # k
    <3>1. calls[j].id \in Ids /\ calls[j].id # calls[k].id
      BY <1>1, <2>2, IdFacts
    <3> QED
      BY <1>1, <1>2, <2>2, <3>1 DEF Told
  <2> QED
    BY <2>1, <2>2
<1>4. ASSUME NEW id \in Ids, id[1] >= turn + 1 PROVE ran'[id] = 0 /\ shown'[id] = 0
  <2>1. calls[k].id[1] = turn
    BY <1>1, IdFacts
  <2>2. id # calls[k].id
    BY <1>1, <1>4, <2>1
  <2> QED
    BY <1>1, <1>4, <2>2 DEF Fresh
<1>5. Fresh(turn + 1)'
  BY <1>4 DEF Fresh
<1>6. BatchInv'
  BY <1>1, <1>2, <1>3, <1>5 DEF BatchInv, Numbered, InBatch
<1>7. Shown \subseteq Shown' /\ Seq(Shown) \subseteq Seq(Shown')
  BY ShownGrows
<1> QED
  BY <1>6, <1>7 DEF HandledInv, SavedInv, InBatch

LEMMA HandledBatchStep ==
  ASSUME HandledInv, TriesInv, BatchStep
  PROVE  HandledInv'
<1> USE DEF turnVars, callerVars, histVars, batchVars, End
<1>1. InBatch /\ conv \in Seq(Shown)
  <2>1. InBatch
    BY DEF BatchStep, Refuse, Execute, Hold, SendResult, LoseResult, BatchAborts, BatchPauses,
       BatchCompletes, BatchComplete, MayStart
  <2> QED
    BY <2>1 DEF InBatch, TriesInv, HandledInv
<1>2. /\ Numbered(calls, turn) /\ calls \in Seq(Calls) /\ status \in Seq(Statuses)
      /\ Len(status) = Len(calls)
      /\ \A k \in 1 .. Len(calls) : Told(calls[k].id, status[k])
      /\ Fresh(turn + 1)
      /\ ran \in [Ids -> 0 .. 1] /\ shown \in [Ids -> 0 .. 1]
  BY <1>1 DEF HandledInv, BatchInv, Active, Numbered
<1>3. /\ DOMAIN calls = 1 .. Len(calls) /\ DOMAIN status = 1 .. Len(calls)
  BY <1>2, LenProperties
<1>4. ASSUME NEW k \in DOMAIN calls, Refuse(k) \/ Hold(k) \/ LoseResult(k)
      PROVE  HandledInv'
  <2>1. PICK s \in {"ready", "pending", "lost"} :
          /\ status' = [status EXCEPT ![k] = s]
          /\ s = "pending" => status[k] = "ask"
    BY <1>4 DEF Refuse, Hold, LoseResult
  <2>2. UNCHANGED <<pc, turn, conv, calls, saved, ran, shown>> /\ status[k] \in Open \cup {"ready"}
    BY <1>4 DEF Refuse, Hold, LoseResult, MayStart
  <2>3. s \in Statuses /\ k \in 1 .. Len(calls)
    BY <1>3 DEF Statuses
  <2>4. Told(calls[k].id, s)'
    BY <1>2, <2>1, <2>2, <2>3 DEF Told, Open
  <2> QED
    BY <1>1, <1>2, <2>1, <2>2, <2>3, <2>4, HandledCallStep
<1>5. ASSUME NEW k \in DOMAIN calls, Execute(k)
      PROVE  HandledInv'
  <2>1. /\ status' = [status EXCEPT ![k] = "ready"] /\ status[k] \in Open
        /\ ran' = [ran EXCEPT ![calls[k].id] = @ + 1]
        /\ UNCHANGED <<pc, turn, conv, calls, saved, shown>>
    BY <1>5 DEF Execute, MayStart
  <2>2. k \in 1 .. Len(calls) /\ "ready" \in Statuses
    BY <1>3 DEF Statuses
  <2>3. calls[k].id \in Ids /\ ran[calls[k].id] = 0 /\ shown[calls[k].id] = 0
    BY <1>2, <2>1, <2>2, IdFacts DEF Told
  <2>4. /\ ran' \in [Ids -> 0 .. 1]
        /\ \A id \in Ids : id # calls[k].id => ran'[id] = ran[id]
    BY <1>2, <2>1, <2>3
  <2>5. Told(calls[k].id, "ready")'
    BY <2>1, <2>3 DEF Told, Open
  <2> QED
    BY <1>1, <1>2, <2>1, <2>2, <2>3, <2>4, <2>5, HandledCallStep
<1>6. ASSUME NEW k \in DOMAIN calls, SendResult(k)
      PROVE  HandledInv'
  <2>1. /\ status' = [status EXCEPT ![k] = "sent"] /\ status[k] = "ready"
        /\ shown' = [shown EXCEPT ![calls[k].id] = @ + 1]
        /\ UNCHANGED <<pc, turn, conv, calls, saved, ran>>
    BY <1>6 DEF SendResult
  <2>2. k \in 1 .. Len(calls) /\ "sent" \in Statuses
    BY <1>3 DEF Statuses
  <2>3. calls[k].id \in Ids /\ shown[calls[k].id] = 0
    BY <1>2, <2>1, <2>2, IdFacts DEF Told
  <2>4. /\ shown' \in [Ids -> 0 .. 1] /\ shown'[calls[k].id] = 1
        /\ \A id \in Ids : id # calls[k].id => shown'[id] = shown[id]
    BY <1>2, <2>1, <2>3
  <2>5. Told(calls[k].id, "sent")'
    BY <2>1, <2>4 DEF Told, Open
  <2> QED
    BY <1>1, <1>2, <2>1, <2>2, <2>3, <2>4, <2>5, HandledCallStep
<1>7. CASE BatchAborts
  <2>1. /\ UNCHANGED <<ran, shown, saved, conv>>
        /\ pc' = "closed" \/ (pc' = "ending" /\ final' = "error")
    BY <1>7 DEF BatchAborts
  <2> QED
    BY <1>1, <2>1, HandledFrame DEF Active, InBatch
<1>8. CASE BatchPauses
  <2>1. /\ UNCHANGED <<ran, shown, saved, conv, turn, calls, status>>
        /\ pc' = "ending" /\ final' = "paused"
        /\ Settled /\ ~Lost /\ \E k \in DOMAIN status : status[k] = "pending"
    BY <1>8 DEF BatchPauses, BatchFailed, Settled
  <2>2. \A k \in 1 .. Len(calls) : status[k] \in {"sent", "pending"}
    BY <1>3, <2>1 DEF Settled, Lost
  <2>3. \E k \in 1 .. Len(calls) : status[k] = "pending"
    BY <1>3, <2>1
  <2>4. BatchInv' /\ Shown' = Shown
    BY <1>2, <2>1, <2>2, <2>3 DEF BatchInv, InBatch, Numbered, Told, Fresh, Shown, ShownIn
  <2> QED
    BY <1>1, <1>2, <2>1, <2>4 DEF HandledInv, SavedInv
<1>9. CASE BatchCompletes
  <2>1. /\ UNCHANGED <<ran, shown, saved>> /\ BatchComplete /\ conv' = Answered
        /\ pc' = "turn" /\ turn' = turn + 1
    BY <1>9 DEF BatchCompletes, NextTurn
  <2> QED
    BY <2>1, AnsweredShown, HandledFrame DEF Active, InBatch
<1> QED
  BY <1>4, <1>5, <1>6, <1>7, <1>8, <1>9 DEF BatchStep

\* The checkpoint says of every call what its status said.
LEMMA HandledDeliver ==
  ASSUME HandledInv, TriesInv, Deliver
  PROVE  HandledInv'
<1>1. /\ UNCHANGED <<ran, shown, conv, turn, calls, status>> /\ pc = "ending" /\ pc' = "closed"
      /\ \A cp \in saved' : cp \in saved \/ (final = "paused" /\ cp = Checkpoint)
      /\ conv \in Seq(Shown) /\ Shown' = Shown /\ ~Active'
  BY Delivered DEF HandledInv, Shown, Active, InBatch
<1>2. ASSUME final = "paused"
      PROVE  /\ Numbered(calls, turn)
             /\ \A k \in 1 .. Len(calls) :
                  IF calls[k].id \in Results(status) THEN shown[calls[k].id] = 1
                  ELSE ran[calls[k].id] = 0 /\ shown[calls[k].id] = 0
             /\ \E k \in 1 .. Len(calls) : calls[k].id \notin Results(status)
             /\ Fresh(turn + 1)
  <2>1. /\ Numbered(calls, turn) /\ Fresh(turn + 1)
        /\ calls \in Seq(Calls)
        /\ \A k \in 1 .. Len(calls) : Told(calls[k].id, status[k])
        /\ \A k \in 1 .. Len(calls) : status[k] \in {"sent", "pending"}
        /\ \E k \in 1 .. Len(calls) : status[k] = "pending"
    BY <1>1, <1>2 DEF HandledInv, BatchInv, Active, InBatch, Numbered
  <2>2. DOMAIN calls = 1 .. Len(calls)
    BY <2>1, LenProperties
  <2>3. ASSUME NEW k \in 1 .. Len(calls)
        PROVE  calls[k].id \in Results(status) <=> status[k] = "sent"
    BY <2>1, <2>2, IdFacts DEF Results
  <2>4. ASSUME NEW k \in 1 .. Len(calls)
        PROVE  IF calls[k].id \in Results(status) THEN shown[calls[k].id] = 1
               ELSE ran[calls[k].id] = 0 /\ shown[calls[k].id] = 0
    BY <2>1, <2>3 DEF Told
  <2>5. \E k \in 1 .. Len(calls) : calls[k].id \notin Results(status)
    BY <2>1, <2>3
  <2> QED
    BY <2>1, <2>4, <2>5
<1>3. SavedInv'
  <2> SUFFICES ASSUME NEW cp \in saved'
               PROVE  /\ Numbered(cp.calls, cp.turn)
                      /\ cp.past.ran \in [Ids -> 0 .. 1] /\ cp.past.shown \in [Ids -> 0 .. 1]
                      /\ \A k \in 1 .. Len(cp.calls) :
                           LET id == cp.calls[k].id
                           IN  IF id \in cp.results THEN cp.past.shown[id] = 1
                               ELSE cp.past.ran[id] = 0 /\ cp.past.shown[id] = 0
                      /\ \E k \in 1 .. Len(cp.calls) : cp.calls[k].id \notin cp.results
                      /\ \A id \in Ids :
                           id[1] >= cp.turn + 1 => cp.past.ran[id] = 0 /\ cp.past.shown[id] = 0
                      /\ cp.messages \in Seq(ShownIn(cp.past.shown))
    BY DEF SavedInv
  <2>1. CASE cp \in saved
    BY <2>1 DEF HandledInv, SavedInv
  <2>2. CASE final = "paused" /\ cp = Checkpoint
    <3>1. /\ cp.messages = conv /\ cp.turn = turn /\ cp.calls = calls
          /\ cp.results = Results(status) /\ cp.past.ran = ran /\ cp.past.shown = shown
      BY <2>2, CheckpointFields
    <3>2. ran \in [Ids -> 0 .. 1] /\ shown \in [Ids -> 0 .. 1] /\ conv \in Seq(ShownIn(shown))
      BY <1>1 DEF HandledInv, Shown
    <3> QED
      BY <1>2, <2>2, <3>1, <3>2 DEF Fresh
  <2> QED
    BY <1>1, <2>1, <2>2
<1> QED
  BY <1>1, <1>3 DEF HandledInv, BatchInv

\* A resume takes up what the checkpoint says, whatever was done after it was taken.
LEMMA HandledResume ==
  ASSUME HandledInv, NEW cp \in saved, NEW decide \in Decisions, Resume(cp, decide)
  PROVE  HandledInv'
<1>1. /\ saved' = saved /\ pc' = "resume" /\ turn' = cp.turn
      /\ conv' = cp.messages /\ calls' = cp.calls
      /\ status' = ResumeStatus(cp, decide) /\ DOMAIN decide = DOMAIN cp.calls
      /\ ran' = cp.past.ran /\ shown' = cp.past.shown
  BY Resumed
<1>2. /\ Numbered(cp.calls, cp.turn) /\ cp.calls \in Seq(Calls)
      /\ cp.past.ran \in [Ids -> 0 .. 1] /\ cp.past.shown \in [Ids -> 0 .. 1]
      /\ \A id \in Ids :
           id[1] >= cp.turn + 1 => cp.past.ran[id] = 0 /\ cp.past.shown[id] = 0
      /\ \A k \in 1 .. Len(cp.calls) :
           IF cp.calls[k].id \in cp.results THEN cp.past.shown[cp.calls[k].id] = 1
           ELSE cp.past.ran[cp.calls[k].id] = 0 /\ cp.past.shown[cp.calls[k].id] = 0
      /\ cp.messages \in Seq(ShownIn(cp.past.shown))
  BY DEF HandledInv, SavedInv, Numbered
<1>3. DOMAIN cp.calls = 1 .. Len(cp.calls) /\ Len(cp.calls) \in Nat
  BY <1>2, LenProperties
<1>4. \A k \in 1 .. Len(cp.calls) : decide[k] \in {"allow", "deny", "pending"}
  BY <1>1, <1>3 DEF Decisions
<1>5. /\ status' \in Seq(Statuses) /\ Len(status') = Len(cp.calls)
      /\ \A k \in 1 .. Len(cp.calls) :
           status'[k] = IF cp.calls[k].id \in cp.results THEN "sent" ELSE decide[k]
  BY <1>1, <1>3, <1>4 DEF ResumeStatus, Statuses, Open
<1>6. ASSUME NEW k \in 1 .. Len(cp.calls) PROVE Told(calls[k].id, status[k])'
  BY <1>1, <1>2, <1>4, <1>5 DEF Told, Open
<1>7. BatchInv'
  <2>1. Fresh(turn + 1)'
    BY <1>1, <1>2 DEF Fresh
  <2> QED
    BY <1>1, <1>2, <1>5, <1>6, <2>1 DEF BatchInv, InBatch, Numbered
<1>8. SavedInv'
  BY <1>1 DEF HandledInv, SavedInv
<1>9. (conv \in Seq(Shown))'
  BY <1>1, <1>2 DEF Shown
<1> QED
  BY <1>1, <1>2, <1>7, <1>8, <1>9 DEF HandledInv

LEMMA HandledNext == HandledInv /\ TriesInv /\ [Next]_vars => HandledInv'
<1> SUFFICES ASSUME HandledInv, TriesInv, [Next]_vars PROVE HandledInv'
  OBVIOUS
<1> USE DEF turnVars, callerVars, histVars, batchVars
<1>1. conv \in Seq(Shown)
  BY DEF HandledInv
<1>2. CASE Drop
  BY <1>1, <1>2, HandledFrame DEF Drop, Active, InBatch
<1>3. CASE Expire \/ Cancel \/ CancelReachesRun \/ UNCHANGED vars
  <2>1. UNCHANGED <<pc, turn, conv, calls, status, final, ran, shown, saved>>
    BY <1>3 DEF Expire, Cancel, CancelReachesRun, vars
  <2> QED
    BY <1>1, <2>1, HandledFrame DEF Active, InBatch, HandledInv
<1> QED
  BY <1>2, <1>3, HandledLoopStep, HandledStreamStep, HandledBatchStep, HandledDeliver,
     HandledResume DEF Next, Environment

\* From the run that received it through the resumes that each continue the last
\* checkpoint, a tool call is executed at most once, and its result is streamed at
\* most once and before the model sees it.  (What a resume executed after its
\* checkpoint was taken, a second resume of that checkpoint does not know.)
THEOREM Handled == Spec => []HandledOnce
<1>1. Init => HandledInv /\ TriesInv
  BY HandledInit, TriesInit
<1>2. HandledInv /\ TriesInv /\ [Next]_vars => (HandledInv /\ TriesInv)'
  BY HandledNext, TriesNext
<1>3. HandledInv => HandledOnce
  <2> SUFFICES ASSUME HandledInv PROVE HandledOnce
    OBVIOUS
  <2>1. ASSUME NEW id \in Ids PROVE ran[id] <= 1 /\ shown[id] <= 1
    BY DEF HandledInv
  <2>2. ASSUME NEW k \in DOMAIN conv, conv[k].role = "tool" PROVE shown[conv[k].id] = 1
    <3>1. conv \in Seq(Shown) /\ k \in 1 .. Len(conv)
      BY LenProperties DEF HandledInv
    <3> QED
      BY <2>2, <3>1, ElementOfSeq DEF Shown, ShownIn
  <2> QED
    BY <2>1, <2>2 DEF HandledOnce, ExecutedAtMostOnce, ShownOnceAndFirst
<1> QED
  BY <1>1, <1>2, <1>3, PTL DEF Spec

------------------------------------------------------------------------------

-----------------------------------------------------------------------------
(* Tool uses and their results *)

\* A conversation a provider accepts ...
Closed(msgs) == Len(msgs) >= 1 /\ msgs[1] = User /\ Paired(msgs)

\* ... and one that ends in the tool use whose calls are being dealt with.
OpenEnded(msgs, cs) ==
    /\ Len(msgs) >= 2
    /\ msgs[1] = User
    /\ Paired(SubSeq(msgs, 1, Len(msgs) - 1))
    /\ msgs[Len(msgs)] = Assistant(cs)

PairedInv ==
    /\ pc \in {"turn", "stream", "backoff"} => Closed(conv) /\ final = "none"
    /\ InBatch => final = "none"
    /\ final = "done" => Closed(conv)
    /\ Active => OpenEnded(conv, calls)
    /\ \A cp \in saved : OpenEnded(cp.messages, cp.calls)

\* A reply that joins a conversation leaves it open, or, without calls, closed.
LEMMA ReplyJoins ==
  ASSUME NEW msgs \in Seq(Message), Closed(msgs), NEW cs \in Seq(Calls)
  PROVE  /\ OpenEnded(Append(msgs, Assistant(cs)), cs)
         /\ cs = <<>> => Closed(Append(msgs, Assistant(cs)))
<1> DEFINE n == Len(msgs)  new == Append(msgs, Assistant(cs))
<1>1. Assistant(cs) \in Message /\ Assistant(cs).role = "assistant" /\ Assistant(cs).calls = cs
  BY DEF Assistant, Message
<1>2. /\ new \in Seq(Message) /\ Len(new) = n + 1 /\ n \in Nat /\ n >= 1
      /\ \A k \in 1 .. n : new[k] = msgs[k]
      /\ new[n + 1] = Assistant(cs)
      /\ DOMAIN new = 1 .. n + 1 /\ DOMAIN msgs = 1 .. n
  BY <1>1, AppendProperties, LenProperties DEF Closed
<1>3. SubSeq(new, 1, n) = msgs
  <2>1. \A i \in 1 .. n : new[i] \in Message
    BY <1>2, ElementOfSeq
  <2>2. /\ SubSeq(new, 1, n) \in Seq(Message) /\ Len(SubSeq(new, 1, n)) = n
        /\ \A i \in 1 .. n : SubSeq(new, 1, n)[i] = new[i]
    BY <1>2, <2>1, SubSeqProperties
  <2> QED
    BY <1>2, <2>2, SeqEqual
<1>4. OpenEnded(new, cs)
  <2>1. Len(new) - 1 = n /\ new[1] = msgs[1] /\ Len(new) >= 2 /\ new[Len(new)] = Assistant(cs)
    BY <1>2
  <2>2. Paired(SubSeq(new, 1, Len(new) - 1))
    BY <1>3, <2>1 DEF Closed
  <2> QED
    BY <2>1, <2>2 DEF OpenEnded, Closed
<1>5. ASSUME cs = <<>> PROVE Paired(new)
  <2>1. ASSUME NEW k \in 1 .. n, new[k].role = "assistant", NEW j \in DOMAIN new[k].calls
        PROVE  k + j \in DOMAIN new /\ new[k + j] = ToolResult(new[k].calls[j])
    <3>1. k + j \in DOMAIN msgs /\ msgs[k + j] = ToolResult(msgs[k].calls[j])
      BY <1>2, <2>1 DEF Closed, Paired
    <3> QED
      BY <1>2, <3>1
  <2>2. ASSUME NEW k \in 1 .. n, new[k].role = "tool"
        PROVE  \E i \in 1 .. k - 1 : new[i].role = "assistant" /\ k - i \in DOMAIN new[i].calls
    <3>1. PICK i \in 1 .. k - 1 : msgs[i].role = "assistant" /\ k - i \in DOMAIN msgs[i].calls
      BY <1>2, <2>2 DEF Closed, Paired
    <3>2. i \in 1 .. n
      BY <1>2
    <3> QED
      BY <1>2, <3>1, <3>2
  <2>3. new[n + 1].role = "assistant" /\ DOMAIN new[n + 1].calls = {}
    BY <1>1, <1>2, <1>5
  <2>4. ASSUME NEW k \in DOMAIN new PROVE k \in 1 .. n \/ k = n + 1
    BY <1>2
  <2> QED
    BY <2>1, <2>2, <2>3, <2>4 DEF Paired
<1> QED
  BY <1>2, <1>4, <1>5 DEF Closed

\* The results of all its calls close a conversation.
LEMMA ResultsClose ==
  ASSUME NEW msgs \in Seq(Message), NEW cs \in Seq(Calls), OpenEnded(msgs, cs)
  PROVE  Closed(msgs \o [k \in DOMAIN cs |-> ToolResult(cs[k])])
<1> DEFINE n == Len(msgs)
           front == SubSeq(msgs, 1, n - 1)
           results == [k \in DOMAIN cs |-> ToolResult(cs[k])]
           new == msgs \o results
<1>1. n \in Nat /\ n >= 2 /\ DOMAIN msgs = 1 .. n /\ DOMAIN cs = 1 .. Len(cs) /\ Len(cs) \in Nat
  BY LenProperties DEF OpenEnded
<1>2. /\ results \in Seq(Message) /\ Len(results) = Len(cs)
      /\ \A j \in 1 .. Len(cs) : results[j] = ToolResult(cs[j])
  <2>1. ASSUME NEW k \in 1 .. Len(cs) PROVE ToolResult(cs[k]) \in Message
    <3>1. cs[k] \in Calls
      BY ElementOfSeq
    <3> QED
      BY <3>1 DEF ToolResult, Message, Calls
  <2> QED
    BY <1>1, <2>1
<1>3. /\ new \in Seq(Message) /\ Len(new) = n + Len(cs)
      /\ \A k \in 1 .. n : new[k] = msgs[k]
      /\ \A k \in n + 1 .. n + Len(cs) : new[k] = ToolResult(cs[k - n])
      /\ DOMAIN new = 1 .. n + Len(cs)
  <2>1. new \in Seq(Message) /\ Len(new) = n + Len(cs)
    BY <1>2, ConcatProperties
  <2>2. \A k \in 1 .. Len(new) : new[k] = IF k <= n THEN msgs[k] ELSE results[k - n]
    BY <1>2, ConcatProperties
  <2>3. DOMAIN new = 1 .. Len(new)
    BY <2>1, LenProperties
  <2> HIDE DEF new, results
  <2> QED
    BY <1>1, <1>2, <2>1, <2>2, <2>3
<1>4. /\ DOMAIN front = 1 .. n - 1 /\ Paired(front)
      /\ \A k \in 1 .. n - 1 : front[k] = msgs[k]
  <2>1. \A i \in 1 .. n - 1 : msgs[i] \in Message
    BY <1>1, ElementOfSeq
  <2>2. /\ front \in Seq(Message) /\ Len(front) = n - 1
        /\ \A i \in 1 .. n - 1 : front[i] = msgs[i]
    BY <1>1, <2>1, SubSeqProperties
  <2> QED
    BY <2>2, LenProperties DEF OpenEnded
<1>5. msgs[n].role = "assistant" /\ msgs[n].calls = cs /\ msgs[1] = User
  BY DEF OpenEnded, Assistant
<1> HIDE DEF new, results, front, n
<1>6. ASSUME NEW k \in 1 .. n - 1, new[k].role = "assistant", NEW j \in DOMAIN new[k].calls
      PROVE  k + j \in DOMAIN new /\ new[k + j] = ToolResult(new[k].calls[j])
  <2>1. new[k] = msgs[k] /\ front[k] = msgs[k]
    BY <1>1, <1>3, <1>4
  <2>2. k + j \in 1 .. n - 1 /\ front[k + j] = ToolResult(front[k].calls[j])
    BY <1>4, <1>6, <2>1 DEF Paired
  <2> QED
    BY <1>1, <1>3, <1>4, <2>1, <2>2
<1>7. ASSUME NEW k \in 1 .. n - 1, new[k].role = "tool"
      PROVE  \E i \in 1 .. k - 1 : new[i].role = "assistant" /\ k - i \in DOMAIN new[i].calls
  <2>1. new[k] = msgs[k] /\ front[k] = msgs[k]
    BY <1>1, <1>3, <1>4
  <2>2. PICK i \in 1 .. k - 1 : front[i].role = "assistant" /\ k - i \in DOMAIN front[i].calls
    BY <1>4, <1>7, <2>1 DEF Paired
  <2>3. new[i] = msgs[i] /\ front[i] = msgs[i]
    BY <1>1, <1>3, <1>4
  <2> QED
    BY <2>2, <2>3
<1>8. ASSUME NEW j \in DOMAIN new[n].calls
      PROVE  n + j \in DOMAIN new /\ new[n + j] = ToolResult(new[n].calls[j])
  <2>1. new[n] = msgs[n] /\ j \in 1 .. Len(cs)
    BY <1>1, <1>3, <1>5, <1>8
  <2> QED
    BY <1>1, <1>3, <1>5, <2>1
<1>9. ASSUME NEW k \in n + 1 .. n + Len(cs)
      PROVE  /\ new[k].role = "tool"
             /\ \E i \in 1 .. k - 1 : new[i].role = "assistant" /\ k - i \in DOMAIN new[i].calls
  <2>1. new[k].role = "tool"
    <3>1. new[k] = ToolResult(cs[k - n])
      BY <1>3
    <3> QED
      BY <3>1 DEF ToolResult
  <2>2. n \in 1 .. k - 1 /\ new[n] = msgs[n] /\ k - n \in DOMAIN cs
    BY <1>1, <1>3
  <2> QED
    BY <1>5, <2>1, <2>2
<1>10. ASSUME NEW k \in DOMAIN new PROVE k \in 1 .. n - 1 \/ k = n \/ k \in n + 1 .. n + Len(cs)
  BY <1>1, <1>3
<1>11. new[n].role = "assistant"
  BY <1>1, <1>3, <1>5
<1>12. Paired(new)
  BY <1>6, <1>7, <1>8, <1>9, <1>10, <1>11 DEF Paired
<1>13. Len(new) >= 1 /\ new[1] = User
  BY <1>1, <1>3, <1>5
<1> QED
  BY <1>12, <1>13 DEF Closed, new, results

\* A compaction of a conversation a provider accepts is another one: its tail
\* begins with no tool result, so that no tool use was cut from its results.
LEMMA CompactionsClosed ==
  ASSUME NEW msgs \in Seq(Message), Closed(msgs), NEW c \in Compactions(msgs)
  PROVE  Closed(c)
<1> DEFINE n == Len(msgs)
<1>1. n \in Nat /\ n >= 1 /\ DOMAIN msgs = 1 .. n /\ msgs[1] = User /\ Paired(msgs)
  BY LenProperties DEF Closed
<1>2. ASSUME NEW j \in 3 .. n, msgs[j].role # "tool",
             c = <<msgs[1], User>> \o SubSeq(msgs, j, n)
      PROVE  Closed(c)
  <2>1. /\ Len(c) = n - j + 3 /\ DOMAIN c = 1 .. n - j + 3
        /\ c[1] = User /\ c[2] = User
        /\ \A k \in 3 .. n - j + 3 : c[k] = msgs[j + k - 3]
    <3>1. User \in Message /\ \A i \in j .. n : msgs[i] \in Message
      BY <1>1, ElementOfSeq, UserShown
    <3>2. /\ SubSeq(msgs, j, n) \in Seq(Message) /\ Len(SubSeq(msgs, j, n)) = n - j + 1
          /\ \A i \in 1 .. n - j + 1 : SubSeq(msgs, j, n)[i] = msgs[j + i - 1]
      BY <1>1, <3>1, SubSeqProperties
    <3>3. /\ <<msgs[1], User>> \in Seq(Message) /\ Len(<<msgs[1], User>>) = 2
          /\ <<msgs[1], User>>[1] = User /\ <<msgs[1], User>>[2] = User
      BY <1>1, <3>1
    <3> DEFINE head == <<msgs[1], User>>  tail == SubSeq(msgs, j, n)
    <3> HIDE DEF head, tail
    <3>4. /\ c \in Seq(Message) /\ Len(c) = 2 + Len(tail)
          /\ \A k \in 1 .. Len(c) : c[k] = IF k <= 2 THEN head[k] ELSE tail[k - 2]
      BY <1>2, <3>2, <3>3, ConcatProperties DEF head, tail
    <3>5. DOMAIN c = 1 .. Len(c)
      BY <3>4, LenProperties
    <3>6. Len(c) = n - j + 3
      BY <1>1, <3>2, <3>4 DEF tail
    <3>7. ASSUME NEW k \in 3 .. n - j + 3 PROVE c[k] = msgs[j + k - 3]
      <4>1. k - 2 \in 1 .. n - j + 1 /\ j + (k - 2) - 1 = j + k - 3 /\ k \in 1 .. Len(c) /\ ~(k <= 2)
        BY <1>1, <3>6
      <4> QED
        BY <3>2, <3>4, <4>1 DEF tail
    <3>8. c[1] = User /\ c[2] = User
      BY <1>1, <3>3, <3>4, <3>6 DEF head
    <3> QED
      BY <3>5, <3>6, <3>7, <3>8
  <2> HIDE DEF n
  <2>2. ASSUME NEW k \in 3 .. n - j + 3, c[k].role = "assistant", NEW i \in DOMAIN c[k].calls
        PROVE  k + i \in DOMAIN c /\ c[k + i] = ToolResult(c[k].calls[i])
    <3> DEFINE p == j + k - 3
    <3>1. p \in 1 .. n /\ c[k] = msgs[p]
      BY <1>1, <2>1
    <3>2. p + i \in 1 .. n /\ msgs[p + i] = ToolResult(msgs[p].calls[i])
      BY <1>1, <2>2, <3>1 DEF Paired
    <3>3. i \in Nat \ {0}
      <4>1. msgs[p] \in Message
        BY <3>1, ElementOfSeq DEF n
      <4>2. msgs[p].calls \in Seq(Calls)
        BY <2>2, <3>1, <4>1 DEF Message, User
      <4> QED
        BY <2>2, <3>1, <4>2, LenProperties
    <3>4. k + i \in 3 .. n - j + 3 /\ j + (k + i) - 3 = p + i
      BY <1>1, <3>2, <3>3
    <3> QED
      BY <1>1, <2>1, <3>1, <3>2, <3>4
  <2>3. ASSUME NEW k \in 3 .. n - j + 3, c[k].role = "tool"
        PROVE  \E i \in 1 .. k - 1 : c[i].role = "assistant" /\ k - i \in DOMAIN c[i].calls
    <3> DEFINE p == j + k - 3
    <3>1. p \in 1 .. n /\ c[k] = msgs[p] /\ p >= j
      BY <1>1, <2>1
    <3>2. PICK q \in 1 .. p - 1 : msgs[q].role = "assistant" /\ p - q \in DOMAIN msgs[q].calls
      BY <1>1, <2>3, <3>1 DEF Paired
    <3>3. DOMAIN msgs[q].calls = 1 .. Len(msgs[q].calls) /\ Len(msgs[q].calls) \in Nat /\ q \in 1 .. n
      <4>1. q \in 1 .. n
        BY <1>1, <3>1
      <4>2. msgs[q] \in Message
        BY <4>1, ElementOfSeq DEF n
      <4>3. msgs[q].calls \in Seq(Calls)
        BY <3>2, <4>2 DEF Message, User
      <4> QED
        BY <4>1, <4>3, LenProperties
    <3>4. q >= j
      <4>1. SUFFICES ASSUME q < j PROVE FALSE
        BY <1>1, <3>3
      <4>2. j - q \in DOMAIN msgs[q].calls
        BY <1>1, <3>1, <3>2, <3>3, <4>1
      <4>3. msgs[q + (j - q)] = ToolResult(msgs[q].calls[j - q])
        BY <1>1, <3>2, <3>3, <4>2 DEF Paired
      <4>4. q + (j - q) = j
        BY <1>1, <3>3
      <4> QED
        BY <1>2, <4>3, <4>4 DEF ToolResult
    <3> DEFINE i == q - j + 3
    <3>5. i \in 1 .. k - 1 /\ i \in 3 .. n - j + 3 /\ j + i - 3 = q /\ k - i = p - q
      BY <1>1, <3>1, <3>3, <3>4
    <3>6. c[i] = msgs[q]
      BY <2>1, <3>5
    <3> HIDE DEF i, p
    <3> QED
      BY <3>2, <3>5, <3>6
  <2>4. ASSUME NEW k \in DOMAIN c PROVE k \in {1, 2} \/ k \in 3 .. n - j + 3
    BY <1>1, <2>1
  <2>5. User.role = "user"
    BY DEF User
  <2>6. Paired(c)
    BY <2>1, <2>2, <2>3, <2>4, <2>5 DEF Paired
  <2> QED
    BY <1>1, <2>1, <2>6 DEF Closed
<1> QED
  BY <1>2 DEF Compactions

LEMMA MessagesTyped ==
  ASSUME HandledInv
  PROVE  /\ conv \in Seq(Message)
         /\ \A cp \in saved : cp.messages \in Seq(Message) /\ cp.calls \in Seq(Calls)
         /\ Active => calls \in Seq(Calls)
<1>1. Shown \subseteq Message /\ \A sh : ShownIn(sh) \subseteq Message
  BY DEF Shown, ShownIn
<1>2. ASSUME NEW cp \in saved PROVE cp.messages \in Seq(Message) /\ cp.calls \in Seq(Calls)
  <2>1. cp.messages \in Seq(ShownIn(cp.past.shown)) /\ ShownIn(cp.past.shown) \subseteq Message
    BY <1>1 DEF HandledInv, SavedInv
  <2> QED
    BY <2>1, SeqMonotonic DEF HandledInv, SavedInv, Numbered
<1> QED
  BY <1>1, <1>2, SeqMonotonic DEF HandledInv, BatchInv, Numbered

LEMMA PairedInit == Init => PairedInv
<1> SUFFICES ASSUME Init PROVE PairedInv
  OBVIOUS
<1>1. Len(conv) = 1 /\ DOMAIN conv = {1} /\ conv[1] = User
  BY DEF Init
<1>2. Closed(conv)
  BY <1>1 DEF Closed, Paired, User
<1> QED
  BY <1>2 DEF Init, PairedInv, Active, InBatch

\* A step that ends the run otherwise than with a reply or a pause, or goes on
\* where the loop was.
LEMMA PairedFrame ==
  ASSUME PairedInv, saved' = saved,
         pc' \in {"turn", "stream", "backoff"} => Closed(conv') /\ final' = "none",
         final' = "done" => final = "done" /\ conv' = conv,
         Active' => Active /\ UNCHANGED <<conv, calls>>,
         InBatch' => InBatch /\ final' = final
  PROVE  PairedInv'
<1>1. (pc \in {"turn", "stream", "backoff"} => Closed(conv) /\ final = "none")'
  OBVIOUS
<1>2. (InBatch => final = "none")'
  BY DEF PairedInv
<1>3. (final = "done" => Closed(conv))'
  BY DEF PairedInv
<1>4. (Active => OpenEnded(conv, calls))'
  <2> SUFFICES ASSUME Active' PROVE OpenEnded(conv', calls')
    OBVIOUS
  <2> QED
    BY DEF PairedInv
<1>5. (\A cp \in saved : OpenEnded(cp.messages, cp.calls))'
  BY DEF PairedInv
<1> QED
  BY <1>1, <1>2, <1>3, <1>4, <1>5 DEF PairedInv

LEMMA PairedNext == PairedInv /\ HandledInv /\ TriesInv /\ [Next]_vars => PairedInv'
<1> SUFFICES ASSUME PairedInv, HandledInv, TriesInv, [Next]_vars PROVE PairedInv'
  OBVIOUS
<1> USE DEF turnVars, callerVars, histVars, batchVars, End
<1>1. CASE TurnLimit \/ PrepareFails \/ StreamFails \/ BackoffInterrupted \/ BatchAborts
  <2>1. /\ saved' = saved /\ ~Active' /\ ~InBatch' /\ pc' \in {"ending", "closed"}
        /\ final' = "error" \/ UNCHANGED <<final, conv>>
    BY <1>1 DEF TurnLimit, PrepareFails, StreamFails, BackoffInterrupted, BatchAborts, Active,
       InBatch
  <2> QED
    BY <2>1, PairedFrame
<1>2. CASE CallProvider \/ StreamRetries \/ BackoffElapses
  <2>1. /\ UNCHANGED <<saved, final, conv>> /\ pc \in {"turn", "stream", "backoff"}
        /\ pc' \in {"stream", "backoff"}
    BY <1>2 DEF CallProvider, StreamRetries, BackoffElapses
  <2>2. Closed(conv') /\ final' = "none" /\ ~Active' /\ ~InBatch'
    BY <2>1 DEF PairedInv, Active, InBatch
  <2> QED
    BY <2>1, <2>2, PairedFrame
<1>3. CASE StreamAbandoned \/ Drop
  <2>1. UNCHANGED <<saved, final, conv>> /\ pc' = "closed" /\ ~Active' /\ ~InBatch'
    BY <1>3 DEF StreamAbandoned, Drop, Active, InBatch
  <2> QED
    BY <2>1, PairedFrame
<1>4. ASSUME NEW used \in Costs, NEW msgs \in Compactions(conv), CompactBefore(used, msgs)
      PROVE  PairedInv'
  <2>1. /\ saved' = saved /\ conv' = msgs /\ pc = "turn"
        /\ (pc' = "stream" /\ final' = final) \/ (pc' = "ending" /\ final' = "error")
    BY <1>4 DEF CompactBefore
  <2>2. Closed(conv') /\ final = "none" /\ ~Active' /\ ~InBatch'
    BY <2>1, MessagesTyped, CompactionsClosed DEF PairedInv, Active, InBatch
  <2> QED
    BY <2>1, <2>2, PairedFrame
<1>5. ASSUME BatchComplete
      PROVE  Closed(Answered) /\ Answered \in Seq(Message) /\ final = "none"
  <2>1. Active /\ OpenEnded(conv, calls) /\ final = "none"
    BY <1>5 DEF BatchComplete, Active, PairedInv
  <2>2. conv \in Seq(Message) /\ calls \in Seq(Calls)
    BY <2>1, MessagesTyped
  <2>3. Shown \subseteq Message /\ Answered \in Seq(Shown)
    BY <1>5, AnsweredShown DEF Shown, ShownIn
  <2> QED
    BY <2>1, <2>2, <2>3, ResultsClose, SeqMonotonic DEF Answered
<1>6. CASE BatchCompletes
  <2>1. /\ BatchComplete /\ conv' = Answered /\ pc' = "turn" /\ UNCHANGED <<final, saved>>
    BY <1>6 DEF BatchCompletes, NextTurn
  <2>2. Closed(conv') /\ final' = "none" /\ ~Active' /\ ~InBatch'
    BY <1>5, <2>1 DEF Active, InBatch
  <2> QED
    BY <2>1, <2>2, PairedFrame
<1>7. ASSUME NEW used \in Costs, NEW msgs \in Compactions(Answered), CompactAfter(used, msgs)
      PROVE  PairedInv'
  <2>1. /\ BatchComplete /\ saved' = saved /\ conv' = msgs
        /\ (pc' = "turn" /\ final' = final) \/ (pc' = "ending" /\ final' = "error")
    BY <1>7 DEF CompactAfter, NextTurn
  <2>2. Closed(conv') /\ final = "none" /\ ~Active' /\ ~InBatch'
    BY <1>5, <2>1, CompactionsClosed DEF Active, InBatch
  <2> QED
    BY <2>1, <2>2, PairedFrame
<1>8. CASE CompactFails
  <2>1. saved' = saved /\ pc' = "ending" /\ final' = "error" /\ ~Active' /\ ~InBatch'
    BY <1>8 DEF CompactFails, Active, InBatch
  <2> QED
    BY <2>1, PairedFrame
<1>9. ASSUME NEW r \in Replies, Receive(r)
      PROVE  /\ saved' = saved /\ Closed(conv) /\ conv \in Seq(Message)
             /\ CallsOf(r) \in Seq(Calls) /\ final = "none"
             /\ r.calls = <<>> => CallsOf(r) = <<>> /\ Closed(conv')
             /\ r.calls # <<>> => OpenEnded(conv', CallsOf(r))
  <2>1. /\ Closed(conv) /\ conv \in Seq(Message) /\ saved' = saved
        /\ turn \in 0 .. MaxTurns - 1 /\ final = "none"
    BY <1>9, MessagesTyped, ConfigAssumption DEF Receive, PairedInv, TriesInv
  <2>2. /\ r.calls \in Seq(Sigs) /\ CallsOf(r) \in Seq(Calls) /\ Len(CallsOf(r)) = Len(r.calls)
    BY <2>1, CallsOfReply
  <2>3. r.calls = <<>> => CallsOf(r) = <<>>
    BY <2>2, EmptySeq
  <2>4. /\ OpenEnded(Append(conv, Assistant(CallsOf(r))), CallsOf(r))
        /\ CallsOf(r) = <<>> => Closed(Append(conv, Assistant(CallsOf(r))))
    BY <2>1, <2>2, ReplyJoins
  <2> QED
    BY <1>9, <2>1, <2>2, <2>3, <2>4 DEF Receive
<1>10. ASSUME NEW r \in Replies, FinalReply(r)
       PROVE  PairedInv'
  <2>1. Receive(r) /\ r.calls = <<>> /\ pc' = "ending" /\ final' = "done"
    BY <1>10 DEF FinalReply
  <2> QED
    BY <1>9, <2>1 DEF PairedInv, Active, InBatch
<1>11. ASSUME NEW r \in Replies, RefusedReply(r)
       PROVE  PairedInv'
  <2>1. Receive(r) /\ pc' = "ending" /\ final' = "error"
    BY <1>11 DEF RefusedReply
  <2> QED
    BY <1>9, <2>1 DEF PairedInv, Active, InBatch
<1>12. ASSUME NEW r \in Replies, CallingReply(r)
       PROVE  PairedInv'
  <2>1. /\ Receive(r) /\ r.calls # <<>> /\ pc' = "batch" /\ calls' = CallsOf(r)
        /\ final' = final
    BY <1>12 DEF CallingReply
  <2> QED
    BY <1>9, <2>1 DEF PairedInv, Active, InBatch
<1>13. ASSUME NEW k \in DOMAIN calls,
              Refuse(k) \/ Execute(k) \/ Hold(k) \/ SendResult(k) \/ LoseResult(k)
       PROVE  PairedInv'
  <2>1. UNCHANGED <<pc, conv, calls, final, saved>> /\ InBatch
    BY <1>13 DEF Refuse, Execute, Hold, SendResult, LoseResult, MayStart
  <2> QED
    BY <2>1 DEF PairedInv, Active, InBatch, Closed, OpenEnded, Paired
<1>14. CASE BatchPauses
  <2>1. UNCHANGED <<conv, calls, saved>> /\ InBatch /\ pc' = "ending" /\ final' = "paused"
    BY <1>14 DEF BatchPauses
  <2> QED
    BY <2>1 DEF PairedInv, Active, InBatch, Closed, OpenEnded, Paired
<1>15. CASE Deliver
  <2>1. /\ UNCHANGED <<conv, calls, final>> /\ pc = "ending" /\ ~Active' /\ ~InBatch' /\ pc' = "closed"
        /\ \A cp \in saved' : cp \in saved \/ (final = "paused" /\ cp = Checkpoint)
    BY <1>15, Delivered DEF Active, InBatch
  <2>2. ASSUME NEW cp \in saved' PROVE OpenEnded(cp.messages, cp.calls)
    <3>1. CASE cp \in saved
      BY <3>1 DEF PairedInv
    <3>2. CASE final = "paused" /\ cp = Checkpoint
      <4>1. cp.messages = conv /\ cp.calls = calls
        BY <3>2, CheckpointFields
      <4> QED
        BY <2>1, <3>2, <4>1 DEF PairedInv, Active
    <3> QED
      BY <2>1, <3>1, <3>2
  <2> QED
    BY <2>1, <2>2 DEF PairedInv
<1>16. CASE Expire \/ Cancel \/ CancelReachesRun \/ UNCHANGED vars
  <2>1. UNCHANGED <<pc, conv, calls, final, saved>>
    BY <1>16 DEF Expire, Cancel, CancelReachesRun, vars
  <2> QED
    BY <2>1 DEF PairedInv, Active, InBatch, Closed, OpenEnded, Paired
<1>17. ASSUME NEW cp \in saved, NEW decide, Resume(cp, decide)
       PROVE  PairedInv'
  <2>1. /\ saved' = saved /\ pc' = "resume" /\ final' = "none"
        /\ conv' = cp.messages /\ calls' = cp.calls
    BY <1>17, Resumed
  <2>2. OpenEnded(conv', calls')
    BY <2>1 DEF PairedInv
  <2> QED
    BY <2>1, <2>2 DEF PairedInv
<1> QED
  BY <1>1, <1>2, <1>3, <1>4, <1>6, <1>7, <1>8, <1>10, <1>11, <1>12, <1>13, <1>14, <1>15, <1>16,
     <1>17 DEF Next, LoopStep, StreamStep, BatchStep, Environment

LEMMA ConversationSpec == Spec => [](PairedInv /\ HandledInv /\ TriesInv)
<1>1. Init => PairedInv /\ HandledInv /\ TriesInv
  BY PairedInit, HandledInit, TriesInit
<1>2. PairedInv /\ HandledInv /\ TriesInv /\ [Next]_vars => (PairedInv /\ HandledInv /\ TriesInv)'
  BY PairedNext, HandledNext, TriesNext
<1> QED
  BY <1>1, <1>2, PTL DEF Spec

\* What a provider is sent, and what a finished run reports, opens with a user
\* message and pairs every tool use with its results.
THEOREM Requests == Spec => []RequestsPaired
<1>1. PairedInv => RequestsPaired
  BY DEF PairedInv, RequestsPaired, Closed
<1> QED
  BY <1>1, ConversationSpec, PTL

\* Every checkpoint that was handed out accounts for the paused turn: what had been
\* dealt with, what had been shown, and what was left to decide.
THEOREM Accounts == Spec => []CheckpointAccounts
<1>1. PairedInv /\ HandledInv => CheckpointAccounts
  <2> SUFFICES ASSUME PairedInv, HandledInv, NEW cp \in saved
               PROVE  AccountsFor(cp)
    BY DEF CheckpointAccounts
  <2>1. DOMAIN cp.calls = 1 .. Len(cp.calls) /\ \A k \in 1 .. Len(cp.calls) : cp.calls[k].id \in Ids
    <3>1. cp.calls \in Seq(Calls)
      BY MessagesTyped
    <3>2. ASSUME NEW k \in 1 .. Len(cp.calls) PROVE cp.calls[k].id \in Ids
      <4>1. cp.calls[k] \in Calls
        BY <3>1, ElementOfSeq
      <4> QED
        BY <4>1 DEF Calls
    <3> QED
      BY <3>1, <3>2, LenProperties
  <2>2. OpenEnded(cp.messages, cp.calls)
    BY DEF PairedInv
  <2>3. ASSUME NEW k \in 1 .. Len(cp.calls)
        PROVE  LET id == cp.calls[k].id
               IN  /\ cp.past.ran[id] = 1 => id \in cp.results
                   /\ id \in cp.results <=> cp.past.shown[id] = 1
    BY DEF HandledInv, SavedInv
  <2>4. \E k \in 1 .. Len(cp.calls) : cp.calls[k].id \notin cp.results
    BY DEF HandledInv, SavedInv
  <2>5. /\ Paired(SubSeq(cp.messages, 1, Len(cp.messages) - 1))
        /\ cp.messages[Len(cp.messages)].role = "assistant"
        /\ cp.messages[Len(cp.messages)].calls = cp.calls
    BY <2>2 DEF OpenEnded, Assistant
  <2> QED
    BY <2>1, <2>3, <2>4, <2>5 DEF AccountsFor
<1> QED
  BY <1>1, ConversationSpec, PTL

-----------------------------------------------------------------------------
(* The loop guard, and the types *)

\* Induction on the natural numbers, over a set.
LEMMA Upward ==
  ASSUME NEW T, 0 \in T, \A n \in Nat : n \in T => n + 1 \in T
  PROVE  Nat \subseteq T
<1> DEFINE U == Nat \ T
<1> SUFFICES ASSUME U # {} PROVE FALSE
  OBVIOUS
<1>1. PICK x \in U : \A y \in U : ~ (<<y, x>> \in OpToRel(<, Nat))
  BY NatLessThanWellFounded, WFMin
<1>2. \A y \in U : ~ (y < x)
  BY <1>1 DEF OpToRel
<1>3. x # 0 /\ x \in Nat
  OBVIOUS
<1>4. x - 1 \in Nat /\ x - 1 < x /\ x - 1 + 1 = x
  BY <1>3
<1>5. x - 1 \in T
  BY <1>2, <1>4
<1> QED
  BY <1>4, <1>5

\* repeatSig and repeatCount after some calls of a reply, computed one after another.
LEMMA RepeatSteps ==
  ASSUME NEW cs, Len(cs) \in Nat
  PROVE  /\ DOMAIN RepeatAfter(cs) = 0 .. Len(cs)
         /\ RepeatAfter(cs)[0] = repeat
         /\ \A k \in 1 .. Len(cs) :
              RepeatAfter(cs)[k] =
                IF cs[k].sig = RepeatAfter(cs)[k - 1].sig
                THEN [RepeatAfter(cs)[k - 1] EXCEPT !.count = @ + 1]
                ELSE [sig |-> cs[k].sig, count |-> 1]
<1> DEFINE G(x, k) == IF cs[k].sig = x.sig THEN [x EXCEPT !.count = @ + 1]
                      ELSE [sig |-> cs[k].sig, count |-> 1]
           F(g, k) == IF k = 0 THEN repeat ELSE G(g[k - 1], k)
           T == {n \in Nat : \E g : g = [k \in 0 .. n |-> F(g, k)]}
<1> HIDE DEF G
<1>1. 0 \in T
  <2> DEFINE g == [k \in 0 .. 0 |-> repeat]
  <2>1. g = [k \in 0 .. 0 |-> F(g, k)]
    OBVIOUS
  <2> QED
    BY <2>1
<1>2. ASSUME NEW n \in Nat, n \in T PROVE n + 1 \in T
  <2>1. PICK h : h = [k \in 0 .. n |-> F(h, k)]
    BY <1>2
  <2> DEFINE g == [k \in 0 .. n + 1 |-> IF k = n + 1 THEN G(h[n], n + 1) ELSE h[k]]
  <2>2. ASSUME NEW k \in 0 .. n + 1 PROVE g[k] = F(g, k)
    <3>1. CASE k = n + 1
      BY <3>1
    <3>2. CASE k \in 0 .. n
      <4>1. h[k] = F(h, k)
        BY <2>1, <3>2
      <4>2. g[k] = h[k] /\ (k # 0 => k - 1 \in 0 .. n /\ g[k - 1] = h[k - 1])
        BY <3>2
      <4> QED
        BY <4>1, <4>2
    <3> QED
      BY <3>1, <3>2
  <2>3. g = [k \in 0 .. n + 1 |-> F(g, k)]
    BY <2>2
  <2> HIDE DEF g
  <2>4. \E x : x = [k \in 0 .. n + 1 |-> F(x, k)]
    BY <2>3
  <2> QED
    BY <2>4
<1>3. Len(cs) \in T
  BY <1>1, <1>2, Upward
<1>4. \E g : g = [k \in 0 .. Len(cs) |-> F(g, k)]
  BY <1>3
<1>5. RepeatAfter(cs) = CHOOSE g : g = [k \in 0 .. Len(cs) |-> F(g, k)]
  BY DEF RepeatAfter, G
<1> DEFINE f == RepeatAfter(cs)
<1>6. f = [k \in 0 .. Len(cs) |-> F(f, k)]
  BY <1>4, <1>5
<1> HIDE DEF f
<1>7. /\ DOMAIN f = 0 .. Len(cs) /\ f[0] = repeat
      /\ \A k \in 1 .. Len(cs) : f[k] = G(f[k - 1], k)
  BY <1>6
<1> QED
  BY <1>7 DEF f, G

RepeatType == [sig : Sigs \cup {None}, count : Nat]

\* The counter keeps its type, and each call either adds to it or starts it again.
LEMMA RepeatTyped ==
  ASSUME repeat \in RepeatType, NEW cs \in Seq(Calls)
  PROVE  /\ Len(cs) \in Nat /\ RepeatAfter(cs)[0] = repeat
         /\ \A k \in 0 .. Len(cs) : RepeatAfter(cs)[k] \in RepeatType
         /\ \A k \in 1 .. Len(cs) :
              /\ RepeatAfter(cs)[k].sig = cs[k].sig
              /\ RepeatAfter(cs)[k].count = IF cs[k].sig = RepeatAfter(cs)[k - 1].sig
                                            THEN RepeatAfter(cs)[k - 1].count + 1 ELSE 1
<1> DEFINE f == RepeatAfter(cs)
           T == {n \in Nat : n <= Len(cs) => f[n] \in RepeatType}
<1>1. Len(cs) \in Nat /\ \A k \in 1 .. Len(cs) : cs[k].sig \in Sigs
  <2>1. Len(cs) \in Nat /\ \A k \in 1 .. Len(cs) : cs[k] \in Calls
    BY LenProperties, ElementOfSeq
  <2> QED
    BY <2>1 DEF Calls
<1>2. /\ f[0] = repeat
      /\ \A k \in 1 .. Len(cs) : f[k] = IF cs[k].sig = f[k - 1].sig
                                        THEN [f[k - 1] EXCEPT !.count = @ + 1]
                                        ELSE [sig |-> cs[k].sig, count |-> 1]
  BY <1>1, RepeatSteps
<1> HIDE DEF f
<1>3. ASSUME NEW k \in 1 .. Len(cs), f[k - 1] \in RepeatType
      PROVE  /\ f[k] \in RepeatType
             /\ f[k].sig = cs[k].sig
             /\ f[k].count = IF cs[k].sig = f[k - 1].sig THEN f[k - 1].count + 1 ELSE 1
  <2>1. CASE cs[k].sig = f[k - 1].sig
    <3>1. f[k] = [f[k - 1] EXCEPT !.count = @ + 1]
      BY <1>2, <2>1
    <3> QED
      BY <1>3, <2>1, <3>1 DEF RepeatType
  <2>2. CASE cs[k].sig # f[k - 1].sig
    <3>1. f[k] = [sig |-> cs[k].sig, count |-> 1]
      BY <1>2, <2>2
    <3> QED
      BY <1>1, <2>2, <3>1 DEF RepeatType
  <2> QED
    BY <2>1, <2>2
<1>4. 0 \in T
  BY <1>2
<1>5. ASSUME NEW n \in Nat, n \in T PROVE n + 1 \in T
  <2> SUFFICES ASSUME n + 1 <= Len(cs) PROVE f[n + 1] \in RepeatType
    OBVIOUS
  <2>1. n + 1 \in 1 .. Len(cs) /\ n + 1 - 1 = n /\ f[n] \in RepeatType
    BY <1>1, <1>5
  <2> QED
    BY <1>3, <2>1
<1>6. \A k \in 0 .. Len(cs) : f[k] \in RepeatType
  <2>1. Nat \subseteq T
    BY <1>4, <1>5, Upward
  <2> QED
    BY <1>1, <2>1
<1>7. \A k \in 1 .. Len(cs) : k - 1 \in 0 .. Len(cs)
  BY <1>1
<1> QED
  BY <1>1, <1>2, <1>3, <1>6, <1>7 DEF f

\* Requests i to n of s are of one signature, and all made during run r.
Identical(s, i, n, r) == \A j \in i .. n : s[j].sig = s[i].sig /\ s[j].run = r

\* What the counter says of the requests made in this run: it counts at least as many as
\* the last ones that are identical.
Counts(rep, s, n, r) ==
    \A i \in 1 .. n : Identical(s, i, n, r) => rep.sig = s[i].sig /\ rep.count >= n - i + 1

\* What the counter says stays true as the calls of a reply are counted.
LEMMA StreakCounted ==
  ASSUME repeat \in RepeatType, NEW cs \in Seq(Calls), NEW s, NEW n \in Nat,
         Counts(repeat, s, n, run),
         \A p \in 1 .. Len(cs) : s[n + p].sig = cs[p].sig
  PROVE  \A p \in 0 .. Len(cs) : Counts(RepeatAfter(cs)[p], s, n + p, run)
<1> DEFINE f == RepeatAfter(cs)
           T == {p \in Nat : p <= Len(cs) => Counts(f[p], s, n + p, run)}
<1>1. /\ Len(cs) \in Nat /\ f[0] = repeat
      /\ \A k \in 0 .. Len(cs) : f[k] \in RepeatType
      /\ \A k \in 1 .. Len(cs) :
           /\ f[k].sig = cs[k].sig
           /\ f[k].count = IF cs[k].sig = f[k - 1].sig THEN f[k - 1].count + 1 ELSE 1
  BY RepeatTyped
<1> HIDE DEF f
<1>2. 0 \in T
  BY <1>1
<1>3. ASSUME NEW p \in Nat, p \in T PROVE p + 1 \in T
  <2> SUFFICES ASSUME p + 1 <= Len(cs), NEW i \in 1 .. n + (p + 1), Identical(s, i, n + (p + 1), run)
               PROVE  f[p + 1].sig = s[i].sig /\ f[p + 1].count >= n + (p + 1) - i + 1
    BY DEF Counts
  <2>1. p \in 0 .. Len(cs) /\ p + 1 \in 1 .. Len(cs) /\ p + 1 - 1 = p
    BY <1>1
  <2>2. Counts(f[p], s, n + p, run)
    BY <1>3, <2>1
  <2>3. f[p].count \in Nat
    BY <1>1, <2>1 DEF RepeatType
  <2>4. /\ f[p + 1].sig = cs[p + 1].sig
        /\ f[p + 1].count = IF cs[p + 1].sig = f[p].sig THEN f[p].count + 1 ELSE 1
    BY <1>1, <2>1
  <2>5. s[n + (p + 1)].sig = s[i].sig /\ s[n + (p + 1)].sig = cs[p + 1].sig
    <3>1. n + (p + 1) \in i .. n + (p + 1)
      OBVIOUS
    <3> QED
      BY <2>1, <3>1 DEF Identical
  <2> SUFFICES f[p + 1].count >= n + (p + 1) - i + 1
    BY <2>4, <2>5
  <2>6. CASE i = n + (p + 1)
    <3>1. PICK many \in Nat \ {0} : f[p + 1].count = many
      BY <2>3, <2>4
    <3>2. n + (p + 1) - i + 1 = 1
      BY <2>6
    <3>3. many >= n + (p + 1) - i + 1
      BY <3>2
    <3> QED
      BY <3>1, <3>3
  <2>7. CASE i \in 1 .. n + p
    <3>1. i .. n + p \subseteq i .. n + (p + 1)
      OBVIOUS
    <3>2. Identical(s, i, n + p, run)
      BY <3>1 DEF Identical
    <3>3. f[p].sig = s[i].sig /\ f[p].count >= n + p - i + 1
      BY <2>2, <2>7, <3>2 DEF Counts
    <3>4. f[p + 1].count = f[p].count + 1
      BY <2>4, <2>5, <3>3
    <3> QED
      BY <2>3, <2>4, <2>5, <3>3, <3>4
  <2> QED
    BY <2>6, <2>7
<1>4. Nat \subseteq T
  BY <1>2, <1>3, Upward
<1> QED
  BY <1>1, <1>4 DEF f

\* The variables whose type no other invariant gives.
TypesInv ==
    /\ pc \in {"turn", "stream", "backoff", "batch", "resume", "ending", "closed"}
    /\ final \in {"none", "done", "error", "paused"}
    /\ runDone \in BOOLEAN /\ sendDone \in BOOLEAN
    /\ repeat \in RepeatType
    /\ calls \in Seq(Calls)
    /\ status \in Seq(Statuses)
    /\ Len(status) = Len(calls)
    /\ run \in 1 .. MaxRuns
    /\ reqs \in Seq(Requested)
    /\ saved \subseteq Checkpoints

\* A request is from a turn before the one the model is asked in, and no later
\* than the one being dealt with; its run is not to come.
RequestsPast ==
    \A p \in 1 .. Len(reqs) :
      /\ reqs[p].run <= run
      /\ pc \in {"turn", "stream", "backoff"} => reqs[p].id[1] < turn
      /\ Active => reqs[p].id[1] <= turn

\* What is said of a call that will not be executed any more.
Settlement == {"forced", "ready", "sent", "lost"}

\* A call that was not executed, and will not be.
Spared(id) ==
    /\ ran[id] = 0
    /\ Active =>
         \A k \in 1 .. Len(calls) :
           calls[k].id = id => status[k] \in Settlement

\* Among identical requests that are one too many, there is one.
OneSpared ==
    \A k \in 1 .. Len(reqs) - MaxToolRepeats :
      Identical(reqs, k, k + MaxToolRepeats, reqs[k].run) =>
        \E j \in k .. k + MaxToolRepeats : Spared(reqs[j].id)

\* The same of the requests up to the pause a checkpoint was taken at.
SparedBy(cp, id) ==
    /\ cp.past.ran[id] = 0
    /\ \A k \in 1 .. Len(cp.calls) : cp.calls[k].id = id => id \in cp.results

SavedRequests(cp) ==
    /\ \A p \in 1 .. Len(cp.past.reqs) : cp.past.reqs[p].id[1] <= cp.turn
    /\ MaxToolRepeats > 0 =>
         \A k \in 1 .. Len(cp.past.reqs) - MaxToolRepeats :
           Identical(cp.past.reqs, k, k + MaxToolRepeats, cp.past.reqs[k].run) =>
             \E j \in k .. k + MaxToolRepeats : SparedBy(cp, cp.past.reqs[j].id)

RepeatInv ==
    /\ RequestsPast
    /\ \A cp \in saved : SavedRequests(cp)
    /\ \A cp \in saved : \A p \in 1 .. Len(cp.past.reqs) : cp.past.reqs[p].run <= run
    /\ MaxToolRepeats > 0 =>
         /\ pc \notin {"ending", "closed"} => Counts(repeat, reqs, Len(reqs), run)
         /\ OneSpared

LEMMA RepeatInit == Init => RepeatInv /\ TypesInv
<1> SUFFICES ASSUME Init PROVE RepeatInv /\ TypesInv
  OBVIOUS
<1>1. Len(reqs) = 0 /\ reqs \in Seq(Requested) /\ calls \in Seq(Calls) /\ status \in Seq(Statuses)
      /\ Len(calls) = 0 /\ Len(status) = 0
  BY DEF Init
<1>2. repeat \in RepeatType /\ run \in 1 .. MaxRuns
  BY ConfigAssumption DEF Init, RepeatType
<1>3. TypesInv
  BY <1>1, <1>2 DEF Init, TypesInv
<1>4. RequestsPast
  BY <1>1 DEF RequestsPast
<1>5. OneSpared
  BY <1>1, ConfigAssumption DEF OneSpared
<1>6. Counts(repeat, reqs, Len(reqs), run)
  BY <1>1 DEF Counts
<1>7. saved = {}
  BY DEF Init
<1> QED
  BY <1>3, <1>4, <1>5, <1>6, <1>7 DEF RepeatInv

\* Types of what was requested.
LEMMA RequestTyped ==
  ASSUME TypesInv
  PROVE  /\ Len(reqs) \in Nat /\ run \in Nat
         /\ \A p \in 1 .. Len(reqs) :
              reqs[p] \in Requested /\ reqs[p].id \in Ids /\ reqs[p].id[1] \in Nat /\ reqs[p].run \in Nat
         /\ \A cp \in saved : /\ cp \in Checkpoints /\ cp.turn \in Nat
                              /\ cp.past.reqs \in Seq(Requested) /\ Len(cp.past.reqs) \in Nat
                              /\ \A p \in 1 .. Len(cp.past.reqs) :
                                   /\ cp.past.reqs[p].id \in Ids
                                   /\ cp.past.reqs[p].id[1] \in Nat
                                   /\ cp.past.reqs[p].run \in Nat
<1>1. reqs \in Seq(Requested) /\ run \in 1 .. MaxRuns
  BY DEF TypesInv
<1>2. ASSUME NEW p \in 1 .. Len(reqs)
      PROVE  reqs[p] \in Requested /\ reqs[p].id \in Ids /\ reqs[p].id[1] \in Nat /\ reqs[p].run \in Nat
  <2>1. reqs[p] \in Requested
    BY <1>1, ElementOfSeq
  <2>2. reqs[p].id \in Ids /\ reqs[p].run \in 1 .. MaxRuns
    BY <2>1 DEF Requested
  <2> QED
    BY <2>1, <2>2, ConfigAssumption DEF Ids
<1>3. ASSUME NEW cp \in saved
      PROVE  /\ cp \in Checkpoints /\ cp.turn \in Nat
             /\ cp.past.reqs \in Seq(Requested) /\ Len(cp.past.reqs) \in Nat
             /\ \A p \in 1 .. Len(cp.past.reqs) :
                  /\ cp.past.reqs[p].id \in Ids
                  /\ cp.past.reqs[p].id[1] \in Nat
                  /\ cp.past.reqs[p].run \in Nat
  <2>1. cp \in Checkpoints
    BY DEF TypesInv
  <2>2. cp.turn \in Nat /\ cp.past.reqs \in Seq(Requested)
    BY <2>1, ConfigAssumption DEF Checkpoints, Pasts
  <2>3. ASSUME NEW p \in 1 .. Len(cp.past.reqs)
        PROVE  /\ cp.past.reqs[p].id \in Ids
               /\ cp.past.reqs[p].id[1] \in Nat
               /\ cp.past.reqs[p].run \in Nat
    <3>1. cp.past.reqs[p] \in Requested
      BY <2>2, ElementOfSeq
    <3>2. cp.past.reqs[p].id \in Ids /\ cp.past.reqs[p].run \in 1 .. MaxRuns
      BY <3>1 DEF Requested
    <3> QED
      BY <3>2, ConfigAssumption DEF Ids
  <2> QED
    BY <2>1, <2>2, <2>3, LenProperties
<1> QED
  BY <1>1, <1>2, <1>3, LenProperties, ConfigAssumption

\* Steps that request nothing, and execute nothing that is spared.
LEMMA RepeatFrame ==
  ASSUME RepeatInv, TypesInv, TriesInv, UNCHANGED <<reqs, run, repeat, saved>>,
         \A id \in Ids : Spared(id) => ran'[id] = ran[id],
         pc' \notin {"ending", "closed"} => pc \notin {"ending", "closed"},
         pc' \in {"turn", "stream", "backoff"} =>
           \/ pc \in {"turn", "stream", "backoff"} /\ turn' = turn
           \/ Active /\ turn' = turn + 1,
         Active' => /\ Active /\ UNCHANGED <<calls, turn>>
                    /\ \A k \in 1 .. Len(calls) : status[k] \in Settlement => status'[k] \in Settlement
  PROVE  RepeatInv'
<1>1. /\ Len(reqs) \in Nat /\ turn \in Nat
      /\ \A p \in 1 .. Len(reqs) : reqs[p].id \in Ids /\ reqs[p].id[1] \in Nat
  BY RequestTyped, ConfigAssumption DEF TriesInv
<1>2. ASSUME NEW id \in Ids, Spared(id) PROVE Spared(id)'
  BY <1>2 DEF Spared
<1>3. RequestsPast'
  <2> SUFFICES ASSUME NEW p \in 1 .. Len(reqs)
               PROVE  /\ reqs[p].run <= run
                      /\ pc' \in {"turn", "stream", "backoff"} => reqs[p].id[1] < turn'
                      /\ Active' => reqs[p].id[1] <= turn'
    BY DEF RequestsPast
  <2>1. /\ reqs[p].run <= run /\ reqs[p].id[1] \in Nat
        /\ pc \in {"turn", "stream", "backoff"} => reqs[p].id[1] < turn
        /\ Active => reqs[p].id[1] <= turn
    BY <1>1 DEF RepeatInv, RequestsPast
  <2> QED
    BY <1>1, <2>1
<1>4. ASSUME MaxToolRepeats > 0 PROVE OneSpared'
  <2> SUFFICES ASSUME NEW k \in 1 .. Len(reqs) - MaxToolRepeats,
                      Identical(reqs, k, k + MaxToolRepeats, reqs[k].run)
               PROVE  \E j \in k .. k + MaxToolRepeats : Spared(reqs[j].id)'
    BY DEF OneSpared, Identical
  <2>1. PICK j \in k .. k + MaxToolRepeats : Spared(reqs[j].id)
    BY <1>4 DEF RepeatInv, OneSpared
  <2>2. j \in 1 .. Len(reqs)
    BY <1>1, ConfigAssumption
  <2> QED
    BY <1>1, <1>2, <2>1, <2>2
<1>5. (MaxToolRepeats > 0 /\ pc \notin {"ending", "closed"} => Counts(repeat, reqs, Len(reqs), run))'
  BY DEF RepeatInv, Counts, Identical
<1>6. \A cp \in saved' : SavedRequests(cp) /\ \A p \in 1 .. Len(cp.past.reqs) : cp.past.reqs[p].run <= run'
  BY DEF RepeatInv
<1> QED
  BY <1>3, <1>4, <1>5, <1>6 DEF RepeatInv

\* A reply's calls join the requests, numbered by their turn.
LEMMA RequestsJoin ==
  ASSUME TypesInv, TriesInv, NEW r \in Replies, Receive(r)
  PROVE  /\ reqs' \in Seq(Requested) /\ Len(reqs') = Len(reqs) + Len(r.calls)
         /\ Len(reqs) \in Nat /\ Len(r.calls) \in Nat
         /\ turn \in 0 .. MaxTurns - 1
         /\ \A p \in 1 .. Len(reqs) : reqs'[p] = reqs[p]
         /\ \A p \in 1 .. Len(r.calls) :
              /\ p \in 1 .. MaxCalls
              /\ reqs'[Len(reqs) + p].id = <<turn, p>>
              /\ reqs'[Len(reqs) + p].sig = r.calls[p]
              /\ reqs'[Len(reqs) + p].run = run
<1>1. pc = "stream" /\ turn \in 0 .. MaxTurns - 1
  BY ConfigAssumption DEF Receive, TriesInv
<1>2. PICK m \in 0 .. MaxCalls : r.calls \in [1 .. m -> Sigs]
  BY DEF Replies
<1>3. r.calls \in Seq(Sigs) /\ Len(r.calls) = m /\ DOMAIN r.calls = 1 .. m /\ m \in Nat
  BY <1>2, ConfigAssumption
<1> DEFINE new == [k \in 1 .. m |-> [id |-> <<turn, k>>, sig |-> r.calls[k], run |-> run]]
<1>4. ASSUME NEW k \in 1 .. m PROVE [id |-> <<turn, k>>, sig |-> r.calls[k], run |-> run] \in Requested
  <2>1. r.calls[k] \in Sigs /\ run \in 1 .. MaxRuns
    BY <1>2 DEF TypesInv
  <2>2. <<turn, k>> \in Ids
    BY <1>1, ConfigAssumption DEF Ids
  <2> QED
    BY <2>1, <2>2 DEF Requested
<1>5. new \in Seq(Requested) /\ Len(new) = m
  BY <1>3, <1>4
<1>6. reqs' = reqs \o new
  BY <1>3 DEF Receive
<1>7. reqs \in Seq(Requested) /\ Len(reqs) \in Nat
  BY RequestTyped DEF TypesInv
<1>8. \A k \in 1 .. m : new[k].id = <<turn, k>> /\ new[k].sig = r.calls[k] /\ new[k].run = run
  OBVIOUS
<1> HIDE DEF new
<1>9. /\ reqs' \in Seq(Requested) /\ Len(reqs') = Len(reqs) + m
      /\ \A p \in 1 .. Len(reqs) + m :
           reqs'[p] = IF p <= Len(reqs) THEN reqs[p] ELSE new[p - Len(reqs)]
  BY <1>5, <1>6, <1>7, ConcatProperties
<1>10. ASSUME NEW p \in 1 .. m PROVE reqs'[Len(reqs) + p] = new[p]
  <2>1. Len(reqs) + p \in 1 .. Len(reqs) + m /\ ~(Len(reqs) + p <= Len(reqs)) /\ Len(reqs) + p - Len(reqs) = p
    BY <1>3, <1>7
  <2> QED
    BY <1>9, <2>1
<1>11. \A p \in 1 .. m : p \in 1 .. MaxCalls
  BY <1>2, ConfigAssumption
<1>12. \A p \in 1 .. m : /\ reqs'[Len(reqs) + p].id = <<turn, p>>
                         /\ reqs'[Len(reqs) + p].sig = r.calls[p]
                         /\ reqs'[Len(reqs) + p].run = run
  BY <1>8, <1>10
<1>13. \A p \in 1 .. Len(reqs) : reqs'[p] = reqs[p]
  BY <1>3, <1>7, <1>9
<1> QED
  BY <1>1, <1>3, <1>7, <1>9, <1>11, <1>12, <1>13

\* Counting looks at the requests up to the n-th only.
LEMMA CountsAlike ==
  ASSUME NEW rep, NEW s, NEW t, NEW n \in Nat, NEW r, \A i \in 1 .. n : s[i] = t[i],
         Counts(rep, t, n, r)
  PROVE  Counts(rep, s, n, r)
<1> SUFFICES ASSUME NEW i \in 1 .. n, Identical(s, i, n, r)
             PROVE  rep.sig = s[i].sig /\ rep.count >= n - i + 1
  BY DEF Counts
<1>1. \A j \in i .. n : j \in 1 .. n
  OBVIOUS
<1>2. Identical(t, i, n, r)
  BY <1>1 DEF Identical
<1> QED
  BY <1>2 DEF Counts

\* The calls of a reply have its signatures.
LEMMA ReplySigs ==
  ASSUME NEW r, DOMAIN r.calls = 1 .. Len(r.calls)
  PROVE  \A p \in 1 .. Len(r.calls) : CallsOf(r)[p].sig = r.calls[p] /\ CallsOf(r)[p].id = <<turn, p>>
BY DEF CallsOf

\* The last of too many identical calls in a reply that is not refused is forced.
LEMMA LastIsForced ==
  ASSUME TypesInv, TriesInv, NEW r \in Replies, Receive(r), MaxToolRepeats > 0,
         Counts(repeat, reqs, Len(reqs), run), ~Looping(CallsOf(r)),
         NEW p \in 1 .. Len(r.calls), NEW k \in 1 .. Len(reqs) + p, k + MaxToolRepeats = Len(reqs) + p,
         Identical(reqs', k, Len(reqs) + p, run)
  PROVE  ForcedCall(CallsOf(r), p)
<1> DEFINE cs == CallsOf(r)
<1>1. PICK s, n : s = reqs' /\ n = Len(reqs)
  OBVIOUS
<1>2. /\ n \in Nat /\ Len(r.calls) \in Nat /\ turn \in 0 .. MaxTurns - 1
      /\ \A i \in 1 .. n : s[i] = reqs[i]
      /\ \A i \in 1 .. Len(r.calls) : s[n + i].sig = r.calls[i]
  BY <1>1, RequestsJoin
<1>3. /\ cs \in Seq(Calls) /\ Len(cs) = Len(r.calls) /\ DOMAIN cs = 1 .. Len(r.calls)
      /\ DOMAIN r.calls = 1 .. Len(r.calls)
  BY <1>2, CallsOfReply, LenProperties
<1>4. \A i \in 1 .. Len(cs) : cs[i].sig = r.calls[i]
  <2>1. Len(cs) = Len(r.calls) /\ DOMAIN r.calls = 1 .. Len(r.calls)
    BY <1>3
  <2> QED
    BY <2>1, ReplySigs
<1>5. Counts(repeat, s, n, run)
  BY <1>1, <1>2, CountsAlike
<1>6. repeat \in RepeatType
  BY DEF TypesInv
<1> HIDE DEF cs
<1>7. \A i \in 0 .. Len(cs) : Counts(RepeatAfter(cs)[i], s, n + i, run)
  BY <1>2, <1>3, <1>4, <1>5, <1>6, StreakCounted
<1>8. RepeatAfter(cs)[p] \in RepeatType
  BY <1>2, <1>3, <1>6, RepeatTyped
<1>9. RepeatAfter(cs)[p].count \in Nat
  BY <1>8 DEF RepeatType
<1>10. RepeatAfter(cs)[p].count >= n + p - k + 1
  <2>1. Counts(RepeatAfter(cs)[p], s, n + p, run)
    BY <1>2, <1>3, <1>7
  <2>2. Identical(s, k, n + p, run) /\ k \in 1 .. n + p
    BY <1>1, <1>2 DEF Identical
  <2>3. n \in Nat /\ p \in Nat /\ k \in Nat
    BY <1>1, <1>2
  <2> QED
    BY <2>1, <2>2, <2>3 DEF Counts
<1>11. n + p - k + 1 = MaxToolRepeats + 1
  BY <1>1, <1>2, ConfigAssumption
<1>12. ~(RepeatAfter(cs)[p].count > MaxToolRepeats + 1)
  BY <1>3 DEF Looping, cs
<1>13. RepeatAfter(cs)[p].count = MaxToolRepeats + 1
  BY <1>9, <1>10, <1>11, <1>12, ConfigAssumption
<1> QED
  BY <1>13 DEF ForcedCall, cs

\* A reply: what it requests that is too much is forced, or refused as a whole.
LEMMA RepeatReply ==
  ASSUME RepeatInv, TypesInv, TriesInv, HandledInv, NEW r \in Replies,
         FinalReply(r) \/ RefusedReply(r) \/ CallingReply(r)
  PROVE  RepeatInv'
<1> USE DEF turnVars, callerVars, histVars, batchVars, End
<1>0. PICK n, m : n = Len(reqs) /\ m = Len(r.calls)
  OBVIOUS
<1>1. /\ Receive(r) /\ pc = "stream" /\ run' = run /\ turn' = turn /\ saved' = saved
      /\ ran' = ran /\ Fresh(turn)
  BY DEF FinalReply, RefusedReply, CallingReply, Receive, TriesInv, HandledInv
<1>2. /\ reqs' \in Seq(Requested) /\ Len(reqs') = n + m /\ n \in Nat /\ m \in Nat
      /\ turn \in 0 .. MaxTurns - 1
      /\ \A p \in 1 .. n : reqs'[p] = reqs[p]
      /\ \A p \in 1 .. m : /\ p \in 1 .. MaxCalls /\ reqs'[n + p].id = <<turn, p>>
                           /\ reqs'[n + p].sig = r.calls[p] /\ reqs'[n + p].run = run
  BY <1>0, <1>1, RequestsJoin
<1>3. /\ \A p \in 1 .. n : /\ reqs[p].id \in Ids /\ reqs[p].id[1] \in Nat /\ reqs[p].id[1] < turn
                           /\ reqs[p].run <= run
      /\ run \in Nat
  BY <1>0, <1>1, RequestTyped DEF RepeatInv, RequestsPast
<1>4. \A p \in 1 .. m : <<turn, p>> \in Ids /\ <<turn, p>>[1] = turn
  BY <1>2, ConfigAssumption DEF Ids
<1>5. \/ pc' = "ending" /\ final' # "paused"
      \/ CallingReply(r) /\ pc' = "batch"
  BY DEF FinalReply, RefusedReply, CallingReply
<1>6. m > 0 => RefusedReply(r) \/ CallingReply(r)
  <2>1. FinalReply(r) => m = 0
    BY <1>0 DEF FinalReply
  <2> QED
    BY <2>1
<1>7. CallingReply(r) =>
        /\ ~Looping(CallsOf(r)) /\ calls' = CallsOf(r) /\ Len(CallsOf(r)) = m
        /\ Numbered(CallsOf(r), turn) /\ DOMAIN r.calls = 1 .. m
        /\ \A k \in 1 .. m : status'[k] = IF ForcedCall(CallsOf(r), k) THEN "forced" ELSE "ask"
        /\ MaxToolRepeats > 0 => repeat' = RepeatAfter(CallsOf(r))[m]
  <2>1. /\ Numbered(CallsOf(r), turn) /\ DOMAIN r.calls = 1 .. m /\ Len(CallsOf(r)) = m
    BY <1>0, <1>2, CallsOfReply
  <2> QED
    BY <1>0, <2>1 DEF CallingReply
<1>8. \A q \in 1 .. n + m : q \in 1 .. n \/ \E p \in 1 .. m : q = n + p
  <2> SUFFICES ASSUME NEW q \in 1 .. n + m, q \notin 1 .. n PROVE \E p \in 1 .. m : q = n + p
    OBVIOUS
  <2>1. q - n \in 1 .. m /\ q = n + (q - n)
    BY <1>2
  <2> QED
    BY <2>1
<1>9. RequestsPast'
  <2> SUFFICES ASSUME NEW q \in 1 .. n + m
               PROVE  reqs'[q].run <= run /\ reqs'[q].id[1] <= turn
    BY <1>1, <1>2, <1>5 DEF RequestsPast
  <2>1. CASE q \in 1 .. n
    BY <1>2, <1>3, <2>1, ConfigAssumption
  <2>2. ASSUME NEW p \in 1 .. m, q = n + p
        PROVE  reqs'[q].run <= run /\ reqs'[q].id[1] <= turn
    <3>1. reqs'[q].id = <<turn, p>> /\ reqs'[q].run = run
      BY <1>2, <2>2
    <3>2. reqs'[q].id[1] = turn
      BY <1>4, <3>1
    <3> QED
      BY <1>2, <1>3, <3>1, <3>2, ConfigAssumption
  <2> QED
    BY <1>8, <2>1, <2>2
<1>10. ASSUME MaxToolRepeats > 0 PROVE OneSpared'
  <2> SUFFICES ASSUME NEW k \in 1 .. n + m - MaxToolRepeats,
                      Identical(reqs', k, k + MaxToolRepeats, reqs'[k].run)
               PROVE  \E j \in k .. k + MaxToolRepeats : Spared(reqs[j].id)'
    <3>1. Len(reqs') = n + m /\ n \in Nat /\ m \in Nat /\ MaxToolRepeats \in Nat
      BY <1>2, ConfigAssumption
    <3> QED
      BY <3>1 DEF OneSpared, Identical
  <2>1. MaxToolRepeats \in Nat /\ k \in Nat /\ k + MaxToolRepeats \in 1 .. n + m
    BY <1>2, ConfigAssumption
  <2>2. CASE k + MaxToolRepeats \in 1 .. n
    <3>1. k .. k + MaxToolRepeats \subseteq 1 .. n /\ k \in 1 .. n - MaxToolRepeats
          /\ k \in k .. k + MaxToolRepeats
      BY <1>2, <2>1, <2>2
    <3>2. \A j \in k .. k + MaxToolRepeats : reqs'[j] = reqs[j]
      BY <1>2, <3>1
    <3>3. Identical(reqs, k, k + MaxToolRepeats, reqs[k].run)
      BY <3>1, <3>2 DEF Identical
    <3>4. PICK j \in k .. k + MaxToolRepeats : Spared(reqs[j].id)
      BY <1>0, <1>10, <3>1, <3>3 DEF RepeatInv, OneSpared
    <3>5. Spared(reqs[j].id)'
      <4>1. reqs'[j].id = reqs[j].id /\ reqs[j].id[1] < turn /\ reqs[j].id[1] \in Nat
        BY <1>3, <3>1, <3>2
      <4>2. ASSUME CallingReply(r), NEW i \in 1 .. m PROVE calls'[i].id # reqs[j].id
        <5>1. calls'[i].id[1] = turn
          BY <1>7, <4>2, IdFacts
        <5> QED
          BY <4>1, <5>1, <1>2
      <4>3. Active' => \A i \in 1 .. Len(calls') : calls'[i].id # reqs[j].id
        BY <1>5, <1>7, <4>2 DEF Active, InBatch
      <4>4. ran'[reqs'[j].id] = 0
        BY <1>1, <3>4, <4>1 DEF Spared
      <4> QED
        BY <1>1, <4>1, <4>3, <4>4 DEF Spared
    <3> QED
      BY <3>5
  <2>3. ASSUME NEW p \in 1 .. m, k + MaxToolRepeats = n + p
        PROVE  Spared(reqs[n + p].id)'
    <3>1. /\ reqs'[n + p].id = <<turn, p>> /\ reqs'[n + p].run = run
          /\ <<turn, p>> \in Ids /\ <<turn, p>>[1] = turn
      BY <1>2, <1>4
    <3>2. ran'[reqs'[n + p].id] = 0
      BY <1>1, <1>2, <3>1 DEF Fresh
    <3>3. ASSUME CallingReply(r), NEW i \in 1 .. m, calls'[i].id = <<turn, p>>
          PROVE  status'[i] \in Settlement
      <4>1. i = p
        BY <1>7, <3>3 DEF Numbered
      <4>2. k \in 1 .. n + p /\ k \in k .. n + p /\ n + p \in k .. n + p
        BY <1>2, <2>1, <2>3
      <4>3. reqs'[k].run = run
        BY <2>3, <3>1, <4>2 DEF Identical
      <4>4. Identical(reqs', k, n + p, run)
        BY <2>3, <4>3
      <4>5. Counts(repeat, reqs, n, run)
        BY <1>0, <1>1, <1>10 DEF RepeatInv
      <4>6. ForcedCall(CallsOf(r), p)
        BY <1>0, <1>1, <1>7, <1>10, <2>3, <3>3, <4>2, <4>4, <4>5, LastIsForced
      <4> QED
        BY <1>7, <3>3, <4>1, <4>6 DEF Settlement
    <3>4. Active' => \A i \in 1 .. Len(calls') : calls'[i].id = <<turn, p>> => status'[i] \in Settlement
      BY <1>5, <1>7, <3>3 DEF Active, InBatch
    <3> QED
      BY <1>1, <3>1, <3>2, <3>4 DEF Spared
  <2>4. k + MaxToolRepeats \in k .. k + MaxToolRepeats
    BY <2>1
  <2> QED
    BY <1>8, <2>1, <2>2, <2>3, <2>4
<1>11. ASSUME MaxToolRepeats > 0, pc' \notin {"ending", "closed"}
       PROVE  Counts(repeat, reqs, Len(reqs), run)'
  <2>1. CallingReply(r)
    BY <1>5, <1>11
  <2>2. PICK s : s = reqs'
    OBVIOUS
  <2>3. Counts(repeat, s, n, run)
    <3>1. Counts(repeat, reqs, n, run)
      BY <1>0, <1>1, <1>11 DEF RepeatInv
    <3>2. \A i \in 1 .. n : s[i] = reqs[i]
      BY <1>2, <2>2
    <3> QED
      BY <1>2, <3>1, <3>2, CountsAlike
  <2>4. CallsOf(r) \in Seq(Calls) /\ \A p \in 1 .. m : s[n + p].sig = CallsOf(r)[p].sig
    <3>1. CallsOf(r) \in Seq(Calls) /\ DOMAIN r.calls = 1 .. m
      BY <1>7, <2>1 DEF Numbered
    <3> QED
      BY <1>0, <1>2, <2>2, <3>1, ReplySigs
  <2>5. repeat \in RepeatType
    BY DEF TypesInv
  <2>6. Counts(RepeatAfter(CallsOf(r))[m], s, n + m, run)
    <3>1. \A p \in 0 .. m : Counts(RepeatAfter(CallsOf(r))[p], s, n + p, run)
      BY <1>2, <1>7, <2>1, <2>3, <2>4, <2>5, StreakCounted
    <3> QED
      BY <1>2, <3>1
  <2>7. repeat' = RepeatAfter(CallsOf(r))[m] /\ Len(reqs') = n + m /\ run' = run
    BY <1>1, <1>2, <1>7, <1>11, <2>1
  <2> QED
    BY <2>2, <2>6, <2>7
<1>12. \A cp \in saved' : SavedRequests(cp) /\ \A p \in 1 .. Len(cp.past.reqs) : cp.past.reqs[p].run <= run'
  BY <1>1 DEF RepeatInv
<1> QED
  BY <1>9, <1>10, <1>11, <1>12 DEF RepeatInv

\* A step in the handling of call k.
LEMMA RepeatCallStep ==
  ASSUME RepeatInv, TypesInv, TriesInv, HandledInv, NEW k \in DOMAIN calls,
         Refuse(k) \/ Execute(k) \/ Hold(k) \/ SendResult(k) \/ LoseResult(k)
  PROVE  RepeatInv'
<1> USE DEF turnVars, callerVars, histVars, batchVars
<1>1. InBatch /\ Active /\ UNCHANGED <<reqs, run, repeat, saved, pc, calls, turn>>
  BY DEF Refuse, Execute, Hold, SendResult, LoseResult, MayStart, Active
<1>2. PICK s \in {"ready", "pending", "sent", "lost"} :
        /\ status' = [status EXCEPT ![k] = s]
        /\ s = "pending" => status[k] = "ask"
  BY DEF Refuse, Execute, Hold, SendResult, LoseResult
<1>3. status \in Seq(Statuses) /\ Len(status) = Len(calls) /\ calls \in Seq(Calls)
  BY DEF TypesInv
<1>4. k \in 1 .. Len(calls)
  BY <1>3, LenProperties
<1>5. \A j \in 1 .. Len(calls) : status'[j] = IF j = k THEN s ELSE status[j]
  BY <1>2, <1>3, <1>4, LenProperties
<1>6. \A j \in 1 .. Len(calls) : status[j] \in Settlement => status'[j] \in Settlement
  BY <1>2, <1>5 DEF Settlement
<1>7. ASSUME NEW id \in Ids, Spared(id) PROVE ran'[id] = ran[id]
  <2>1. CASE Execute(k)
    <3>1. status[k] \notin Settlement /\ ran' = [ran EXCEPT ![calls[k].id] = @ + 1]
      BY <2>1 DEF Execute, Settlement
    <3>2. id # calls[k].id
      BY <1>1, <1>4, <1>7, <3>1 DEF Spared
    <3> QED
      BY <3>1, <3>2 DEF HandledInv
  <2>2. CASE ran' = ran
    BY <2>2
  <2> QED
    BY <2>1, <2>2 DEF Refuse, Hold, SendResult, LoseResult
<1> QED
  BY <1>1, <1>6, <1>7, RepeatFrame DEF InBatch

\* The checkpoint has a result for each call that will not be executed any more.
LEMMA RepeatCheckpoint ==
  ASSUME RepeatInv, TypesInv, TriesInv, HandledInv, pc = "ending", final = "paused"
  PROVE  SavedRequests(Checkpoint)
<1>1. Active /\ ~InBatch
  BY DEF Active, InBatch
<1>2. /\ Numbered(calls, turn) /\ calls \in Seq(Calls)
      /\ \A k \in 1 .. Len(calls) : status[k] \in {"sent", "pending"}
  BY <1>1 DEF HandledInv, BatchInv, Numbered
<1>3. DOMAIN calls = 1 .. Len(calls)
  BY <1>2, LenProperties
<1>4. ASSUME NEW id, Spared(id)
      PROVE  ran[id] = 0 /\ \A k \in 1 .. Len(calls) : calls[k].id = id => id \in Results(status)
  <2>1. ASSUME NEW k \in 1 .. Len(calls), calls[k].id = id PROVE id \in Results(status)
    <3>1. status[k] = "sent"
      BY <1>1, <1>2, <1>4, <2>1 DEF Spared, Settlement
    <3> QED
      BY <1>3, <2>1, <3>1 DEF Results
  <2> QED
    BY <1>4, <2>1 DEF Spared
<1>5. PICK cp : cp = Checkpoint
  OBVIOUS
<1>6. /\ cp.past.reqs = reqs /\ cp.past.ran = ran /\ cp.turn = turn /\ cp.calls = calls
      /\ cp.results = Results(status)
  BY <1>5, CheckpointFields
<1>7. ASSUME NEW id, Spared(id) PROVE SparedBy(cp, id)
  BY <1>4, <1>6, <1>7 DEF SparedBy
<1>8. \A p \in 1 .. Len(cp.past.reqs) : cp.past.reqs[p].id[1] <= cp.turn
  BY <1>1, <1>6 DEF RepeatInv, RequestsPast
<1>9. MaxToolRepeats > 0 =>
        \A k \in 1 .. Len(reqs) - MaxToolRepeats :
          Identical(reqs, k, k + MaxToolRepeats, reqs[k].run) =>
            \E j \in k .. k + MaxToolRepeats : Spared(reqs[j].id)
  BY DEF RepeatInv, OneSpared
<1>10. MaxToolRepeats > 0 =>
         \A k \in 1 .. Len(reqs) - MaxToolRepeats :
           Identical(reqs, k, k + MaxToolRepeats, reqs[k].run) =>
             \E j \in k .. k + MaxToolRepeats : SparedBy(cp, reqs[j].id)
  BY <1>7, <1>9
<1>11. SavedRequests(cp)
  BY <1>6, <1>8, <1>10 DEF SavedRequests
<1> QED
  BY <1>5, <1>11

LEMMA RepeatDeliver ==
  ASSUME RepeatInv, TypesInv, TriesInv, HandledInv, Deliver
  PROVE  RepeatInv'
<1>1. /\ UNCHANGED <<ran, reqs, run, turn, calls, status, final, repeat>>
      /\ pc = "ending" /\ pc' = "closed" /\ ~Active'
      /\ \A cp \in saved' : cp \in saved \/ (final = "paused" /\ cp = Checkpoint)
  BY Delivered DEF Active, InBatch
<1>2. ASSUME NEW cp \in saved'
      PROVE  SavedRequests(cp) /\ \A p \in 1 .. Len(cp.past.reqs) : cp.past.reqs[p].run <= run
  <2>1. CASE cp \in saved
    BY <2>1 DEF RepeatInv
  <2>2. CASE final = "paused" /\ cp = Checkpoint
    <3>1. SavedRequests(cp)
      BY <1>1, <2>2, RepeatCheckpoint
    <3>2. cp.past.reqs = reqs
      BY <2>2, CheckpointFields
    <3> QED
      BY <3>1, <3>2 DEF RepeatInv, RequestsPast
  <2> QED
    BY <1>1, <2>1, <2>2
<1>3. RequestsPast'
  BY <1>1 DEF RepeatInv, RequestsPast
<1>4. ASSUME MaxToolRepeats > 0 PROVE OneSpared'
  <2>1. ASSUME NEW id, Spared(id) PROVE Spared(id)'
    BY <1>1, <2>1 DEF Spared
  <2> SUFFICES ASSUME NEW k \in 1 .. Len(reqs) - MaxToolRepeats,
                      Identical(reqs, k, k + MaxToolRepeats, reqs[k].run)
               PROVE  \E j \in k .. k + MaxToolRepeats : Spared(reqs[j].id)'
    BY <1>1 DEF OneSpared, Identical
  <2>2. PICK j \in k .. k + MaxToolRepeats : Spared(reqs[j].id)
    BY <1>4 DEF RepeatInv, OneSpared
  <2>3. Spared(reqs[j].id)'
    BY <1>1, <2>2 DEF Spared
  <2> QED
    BY <2>3
<1> QED
  BY <1>1, <1>2, <1>3, <1>4 DEF RepeatInv

\* A resume leaves alone what its checkpoint has a result for, and counts anew.
LEMMA RepeatResume ==
  ASSUME RepeatInv, TypesInv, TriesInv, HandledInv, NEW cp \in saved,
         NEW decide \in Decisions, Resume(cp, decide)
  PROVE  RepeatInv'
<1>1. /\ saved' = saved /\ pc' = "resume" /\ turn' = cp.turn
      /\ calls' = cp.calls /\ status' = ResumeStatus(cp, decide)
      /\ run' = run + 1 /\ ran' = cp.past.ran /\ reqs' = cp.past.reqs
  BY Resumed
<1>2. cp.calls \in Seq(Calls)
  BY DEF HandledInv, SavedInv, Numbered
<1>3. DOMAIN cp.calls = 1 .. Len(cp.calls)
  BY <1>2, LenProperties
<1>4. PICK s : s = cp.past.reqs
  OBVIOUS
<1>5. /\ Len(s) \in Nat /\ run \in Nat /\ cp.turn \in Nat
      /\ \A p \in 1 .. Len(s) : s[p].id \in Ids /\ s[p].id[1] \in Nat /\ s[p].run \in Nat
  BY <1>4, RequestTyped
<1>6. /\ \A p \in 1 .. Len(s) : s[p].run <= run /\ s[p].id[1] <= cp.turn
      /\ MaxToolRepeats > 0 =>
           \A k \in 1 .. Len(s) - MaxToolRepeats :
             Identical(s, k, k + MaxToolRepeats, s[k].run) =>
               \E j \in k .. k + MaxToolRepeats : SparedBy(cp, s[j].id)
  BY <1>4 DEF RepeatInv, SavedRequests
<1>7. RequestsPast'
  BY <1>1, <1>4, <1>5, <1>6 DEF RequestsPast
<1>8. ASSUME NEW id, SparedBy(cp, id)
      PROVE  /\ ran'[id] = 0
             /\ \A k \in 1 .. Len(calls') : calls'[k].id = id => status'[k] \in Settlement
  BY <1>1, <1>3, <1>8 DEF SparedBy, ResumeStatus, Settlement
<1>9. ASSUME MaxToolRepeats > 0 PROVE OneSpared'
  <2> SUFFICES ASSUME NEW k \in 1 .. Len(s) - MaxToolRepeats,
                      Identical(s, k, k + MaxToolRepeats, s[k].run)
               PROVE  \E j \in k .. k + MaxToolRepeats : Spared(reqs[j].id)'
    BY <1>1, <1>4 DEF OneSpared, Identical
  <2>1. PICK j \in k .. k + MaxToolRepeats : SparedBy(cp, s[j].id)
    BY <1>6, <1>9
  <2>2. Spared(reqs[j].id)'
    BY <1>1, <1>4, <1>8, <2>1 DEF Spared
  <2> QED
    BY <2>2
<1>10. Counts(repeat, reqs, Len(reqs), run)'
  <2> SUFFICES ASSUME NEW i \in 1 .. Len(s), Identical(s, i, Len(s), run + 1)
               PROVE  FALSE
    BY <1>1, <1>4 DEF Counts, Identical
  <2>1. Len(s) \in i .. Len(s) /\ Len(s) \in 1 .. Len(s)
    BY <1>5
  <2>2. s[Len(s)].run = run + 1
    BY <2>1 DEF Identical
  <2> QED
    BY <1>5, <1>6, <2>1, <2>2
<1>11. \A c \in saved' :
         SavedRequests(c) /\ \A p \in 1 .. Len(c.past.reqs) : c.past.reqs[p].run <= run'
  <2>1. ASSUME NEW c \in saved, NEW p \in 1 .. Len(c.past.reqs) PROVE c.past.reqs[p].run <= run + 1
    <3>1. c.past.reqs[p].run \in Nat /\ run \in Nat
      BY RequestTyped
    <3>2. c.past.reqs[p].run <= run
      BY DEF RepeatInv
    <3> QED
      BY <3>1, <3>2
  <2> QED
    BY <1>1, <2>1 DEF RepeatInv
<1> QED
  BY <1>7, <1>9, <1>10, <1>11 DEF RepeatInv

LEMMA RepeatNext ==
  RepeatInv /\ TypesInv /\ TriesInv /\ HandledInv /\ [Next]_vars => RepeatInv'
<1> SUFFICES ASSUME RepeatInv, TypesInv, TriesInv, HandledInv, [Next]_vars PROVE RepeatInv'
  OBVIOUS
<1> USE DEF turnVars, callerVars, histVars, batchVars, End
<1>1. ASSUME UNCHANGED <<reqs, run, repeat, saved, ran>>, ~Active',
             \/ pc' \in {"ending", "closed"}
             \/ /\ pc \in {"turn", "stream", "backoff"} /\ turn' = turn
             \/ Active /\ InBatch /\ turn' = turn + 1
      PROVE  RepeatInv'
  BY <1>1, RepeatFrame DEF InBatch
<1>2. CASE LoopStep
  <2>1. /\ UNCHANGED <<reqs, run, repeat, saved, ran>>
        /\ \/ pc' = "ending" /\ final' = "error"
           \/ pc' = "stream" /\ pc = "turn" /\ turn' = turn
           \/ pc' = "turn" /\ InBatch /\ turn' = turn + 1
    BY <1>2 DEF LoopStep, TurnLimit, PrepareFails, CompactFails, CallProvider,
       CompactBefore, CompactAfter, BatchComplete, NextTurn
  <2> QED
    BY <1>1, <2>1 DEF Active, InBatch
<1>3. CASE StreamRetries \/ BackoffElapses \/ StreamFails \/ StreamAbandoned \/ BackoffInterrupted
  <2>1. /\ UNCHANGED <<reqs, run, repeat, saved, ran>>
        /\ \/ pc' = "ending" /\ final' = "error"
           \/ pc' = "closed"
           \/ pc' \in {"stream", "backoff"} /\ pc \in {"stream", "backoff"} /\ turn' = turn
    BY <1>3 DEF StreamRetries, BackoffElapses, StreamFails, StreamAbandoned, BackoffInterrupted
  <2> QED
    BY <1>1, <2>1 DEF Active, InBatch
<1>4. CASE BatchAborts \/ BatchCompletes \/ Drop
  <2>1. /\ UNCHANGED <<reqs, run, repeat, saved, ran>>
        /\ \/ pc' = "ending" /\ final' = "error"
           \/ pc' = "closed"
           \/ pc' = "turn" /\ InBatch /\ turn' = turn + 1
    BY <1>4 DEF BatchAborts, BatchCompletes, BatchComplete, NextTurn, Drop
  <2> QED
    BY <1>1, <2>1 DEF Active, InBatch
<1>5. CASE BatchPauses
  <2>1. /\ UNCHANGED <<reqs, run, repeat, saved, ran, turn, calls, status>> /\ InBatch
        /\ pc' = "ending"
    BY <1>5 DEF BatchPauses
  <2> QED
    BY <2>1, RepeatFrame DEF Active
<1>6. CASE Expire \/ Cancel \/ CancelReachesRun \/ UNCHANGED vars
  <2>1. UNCHANGED <<reqs, run, repeat, saved, ran, turn, calls, status, pc, final>>
    BY <1>6 DEF Expire, Cancel, CancelReachesRun, vars
  <2> QED
    BY <2>1, RepeatFrame DEF Active, InBatch
<1> QED
  BY <1>2, <1>3, <1>4, <1>5, <1>6, RepeatReply, RepeatCallStep, RepeatDeliver, RepeatResume
     DEF Next, StreamStep, BatchStep, Environment

\* A step that leaves the batch, the history, the checkpoint and the counter alone.
LEMMA TypesFrame ==
  ASSUME TypesInv, UNCHANGED <<repeat, calls, status, run, reqs, saved>>,
         pc' \in {"turn", "stream", "backoff", "batch", "resume", "ending", "closed"},
         final' \in {"none", "done", "error", "paused"},
         runDone' \in BOOLEAN, sendDone' \in BOOLEAN
  PROVE  TypesInv'
BY DEF TypesInv

LEMMA TypesReply ==
  ASSUME TypesInv, TriesInv, NEW r \in Replies, FinalReply(r) \/ RefusedReply(r) \/ CallingReply(r)
  PROVE  TypesInv'
<1> USE DEF turnVars, callerVars, histVars, batchVars, ctxVars, End
<1>1. Receive(r)
  BY DEF FinalReply, RefusedReply, CallingReply
<1>2. reqs' \in Seq(Requested) /\ turn \in 0 .. MaxTurns - 1 /\ Len(r.calls) \in Nat
  BY <1>1, RequestsJoin
<1>3. /\ UNCHANGED <<run, saved, runDone, sendDone>>
      /\ pc' \in {"ending", "batch"} /\ final' \in {"done", "error", final}
  BY <1>1 DEF FinalReply, RefusedReply, CallingReply, Receive
<1>4. CASE FinalReply(r) \/ RefusedReply(r)
  <2>1. UNCHANGED <<repeat, calls, status>>
    BY <1>4 DEF FinalReply, RefusedReply
  <2> QED
    BY <1>2, <1>3, <2>1 DEF TypesInv
<1>5. CASE CallingReply(r)
  <2>1. /\ CallsOf(r) \in Seq(Calls) /\ Len(CallsOf(r)) = Len(r.calls)
        /\ DOMAIN r.calls = 1 .. Len(r.calls)
    BY <1>2, CallsOfReply
  <2>2. /\ calls' = CallsOf(r)
        /\ status' = [k \in DOMAIN r.calls |-> IF ForcedCall(CallsOf(r), k) THEN "forced" ELSE "ask"]
        /\ repeat' = IF MaxToolRepeats > 0 THEN RepeatAfter(CallsOf(r))[Len(r.calls)] ELSE repeat
    BY <1>5 DEF CallingReply
  <2>3. status' \in Seq(Statuses) /\ Len(status') = Len(r.calls)
    BY <1>2, <2>1, <2>2 DEF Statuses, Open
  <2>4. repeat \in RepeatType
    BY DEF TypesInv
  <2>5. repeat' \in RepeatType
    <3>1. RepeatAfter(CallsOf(r))[Len(r.calls)] \in RepeatType
      BY <1>2, <2>1, <2>4, RepeatTyped
    <3> QED
      BY <2>2, <2>4, <3>1
  <2>6. calls' \in Seq(Calls) /\ Len(status') = Len(calls')
    BY <2>1, <2>2, <2>3
  <2> QED
    BY <1>2, <1>3, <2>3, <2>5, <2>6 DEF TypesInv
<1> QED
  BY <1>4, <1>5

LEMMA TypesCallStep ==
  ASSUME TypesInv, NEW k \in DOMAIN calls,
         Refuse(k) \/ Execute(k) \/ Hold(k) \/ SendResult(k) \/ LoseResult(k)
  PROVE  TypesInv'
<1> USE DEF turnVars, callerVars, histVars, batchVars, ctxVars
<1>1. UNCHANGED <<repeat, calls, run, reqs, saved, pc, final, runDone, sendDone>>
  BY DEF Refuse, Execute, Hold, SendResult, LoseResult
<1>2. PICK s \in {"ready", "pending", "sent", "lost"} : status' = [status EXCEPT ![k] = s]
  BY DEF Refuse, Execute, Hold, SendResult, LoseResult
<1>3. status \in Seq(Statuses) /\ Len(status) = Len(calls) /\ calls \in Seq(Calls)
  BY DEF TypesInv
<1>4. k \in 1 .. Len(status) /\ s \in Statuses
  BY <1>3, LenProperties DEF Statuses
<1>5. status' \in Seq(Statuses) /\ Len(status') = Len(status)
  BY <1>2, <1>3, <1>4, ExceptSeq
<1> QED
  BY <1>1, <1>5 DEF TypesInv

LEMMA TypesDeliver ==
  ASSUME TypesInv, BudgetInv, TriesInv, HandledInv, Deliver
  PROVE  TypesInv'
<1>1. /\ UNCHANGED <<repeat, calls, status, run, reqs, final, runDone, sendDone>>
      /\ pc = "ending" /\ pc' = "closed"
      /\ \A cp \in saved' : cp \in saved \/ (final = "paused" /\ cp = Checkpoint)
  BY Delivered
<1>2. ASSUME final = "paused" PROVE Checkpoint \in Checkpoints
  <2>1. turn \in 0 .. MaxTurns - 1 /\ usage \in Nat /\ conv \in Seq(Message) /\ calls \in Seq(Calls)
    <3>1. conv \in Seq(Message)
      BY MessagesTyped
    <3> QED
      BY <1>1, <1>2, <3>1, ConfigAssumption DEF TriesInv, BudgetInv, TypesInv
  <2>2. \A k \in DOMAIN calls : calls[k].id \in Ids
    <3> SUFFICES ASSUME NEW k \in DOMAIN calls PROVE calls[k].id \in Ids
      OBVIOUS
    <3>1. calls[k] \in Calls
      BY <2>1, ElementOfSeq, LenProperties
    <3> QED
      BY <3>1 DEF Calls
  <2>3. Results(status) \in SUBSET Ids
    BY <2>2 DEF Results
  <2>4. Past \in Pasts
    <3>1. ran \in [Ids -> Nat] /\ shown \in [Ids -> Nat]
      BY DEF HandledInv
    <3> QED
      BY <3>1 DEF TypesInv, TriesInv, Past, Pasts
  <2> QED
    BY <2>1, <2>3, <2>4 DEF Checkpoint, Checkpoints
<1>3. saved' \subseteq Checkpoints
  BY <1>1, <1>2 DEF TypesInv
<1> QED
  BY <1>1, <1>3 DEF TypesInv

LEMMA TypesResume ==
  ASSUME TypesInv, HandledInv, NEW cp \in saved, NEW decide \in Decisions, Resume(cp, decide)
  PROVE  TypesInv'
<1>1. /\ saved' = saved /\ calls' = cp.calls /\ run < MaxRuns /\ run' = run + 1
      /\ reqs' = cp.past.reqs /\ pc' = "resume" /\ final' = "none"
      /\ runDone' = FALSE /\ sendDone' = FALSE /\ repeat' = [sig |-> None, count |-> 0]
  BY Resumed
<1>2. HandledInv'
  BY HandledResume
<1>3. calls' \in Seq(Calls) /\ status' \in Seq(Statuses) /\ Len(status') = Len(calls')
  BY <1>1, <1>2 DEF HandledInv, BatchInv, Active, InBatch, Numbered
<1>4. repeat' \in RepeatType
  BY <1>1 DEF RepeatType
<1>5. run' \in 1 .. MaxRuns
  BY <1>1, ConfigAssumption DEF TypesInv
<1>6. reqs' \in Seq(Requested)
  BY <1>1, RequestTyped
<1> QED
  BY <1>1, <1>3, <1>4, <1>5, <1>6 DEF TypesInv

LEMMA TypesNext ==
  TypesInv /\ BudgetInv /\ TriesInv /\ HandledInv /\ [Next]_vars => TypesInv'
<1> SUFFICES ASSUME TypesInv, BudgetInv, TriesInv, HandledInv, [Next]_vars PROVE TypesInv'
  OBVIOUS
<1> USE DEF turnVars, callerVars, histVars, batchVars, ctxVars, End
<1>1. /\ pc \in {"turn", "stream", "backoff", "batch", "resume", "ending", "closed"}
      /\ final \in {"none", "done", "error", "paused"}
      /\ runDone \in BOOLEAN /\ sendDone \in BOOLEAN
  BY DEF TypesInv
<1>2. CASE LoopStep
  <2>1. /\ UNCHANGED <<repeat, calls, status, run, reqs, saved, runDone, sendDone>>
        /\ pc' \in {"ending", "stream", "turn"} /\ final' \in {"error", final}
    BY <1>2 DEF LoopStep, TurnLimit, PrepareFails, CompactFails, CallProvider,
       CompactBefore, CompactAfter, NextTurn
  <2> QED
    BY <1>1, <2>1, TypesFrame
<1>3. CASE StreamRetries \/ BackoffElapses \/ StreamFails \/ StreamAbandoned \/ BackoffInterrupted
  <2>1. /\ UNCHANGED <<repeat, calls, status, run, reqs, saved, runDone, sendDone>>
        /\ pc' \in {"ending", "stream", "backoff", "closed"} /\ final' \in {"error", final}
    BY <1>3 DEF StreamRetries, BackoffElapses, StreamFails, StreamAbandoned, BackoffInterrupted
  <2> QED
    BY <1>1, <2>1, TypesFrame
<1>4. CASE BatchAborts \/ BatchPauses \/ BatchCompletes \/ Drop
  <2>1. /\ UNCHANGED <<repeat, calls, status, run, reqs, saved, runDone, sendDone>>
        /\ pc' \in {"ending", "turn", "closed"} /\ final' \in {"error", "paused", final}
    BY <1>4 DEF BatchAborts, BatchPauses, BatchCompletes, NextTurn, Drop
  <2> QED
    BY <1>1, <2>1, TypesFrame
<1>5. CASE Expire \/ Cancel \/ CancelReachesRun \/ UNCHANGED vars
  <2>1. /\ UNCHANGED <<repeat, calls, status, run, reqs, saved, pc, final>>
        /\ runDone' \in {TRUE, runDone, runDone \/ ~HasTimeout} /\ sendDone' \in {TRUE, sendDone}
    BY <1>5 DEF Expire, Cancel, CancelReachesRun, vars
  <2>2. runDone' \in BOOLEAN /\ sendDone' \in BOOLEAN
    BY <1>1, <2>1
  <2> QED
    BY <1>1, <2>1, <2>2, TypesFrame
<1> QED
  BY <1>2, <1>3, <1>4, <1>5, TypesReply, TypesCallStep, TypesDeliver, TypesResume
     DEF Next, StreamStep, BatchStep, Environment

LEMMA RepeatSpec == Spec => [](RepeatInv /\ TypesInv)
<1> DEFINE Others == BudgetInv /\ TerminalInv /\ TriesInv /\ HandledInv
<1>1. Init => RepeatInv /\ TypesInv /\ Others
  BY RepeatInit, BudgetInit, TriesInit, HandledInit, TerminalInit
<1>2. RepeatInv /\ TypesInv /\ Others /\ [Next]_vars => (RepeatInv /\ TypesInv /\ Others)'
  BY RepeatNext, TypesNext, BudgetNext, TerminalNext, TriesNext, HandledNext
<1> QED
  BY <1>1, <1>2, PTL DEF Spec

\* Of more than MaxToolRepeats identical calls requested in a row during one
\* run, not all are executed, wherever turns and batches divide them, and not in
\* a resume either (loop.go:241-266).
THEOREM Repeats == Spec => []RepeatsBounded
<1>1. RepeatInv /\ TypesInv => RepeatsBounded
  <2> SUFFICES ASSUME RepeatInv, TypesInv, MaxToolRepeats > 0,
                      NEW k \in 1 .. Len(reqs) - MaxToolRepeats,
                      \A j \in k .. k + MaxToolRepeats :
                        reqs[j].sig = reqs[k].sig /\ reqs[j].run = reqs[k].run
               PROVE  \E j \in k .. k + MaxToolRepeats : ran[reqs[j].id] = 0
    BY DEF RepeatsBounded
  <2>1. Identical(reqs, k, k + MaxToolRepeats, reqs[k].run)
    BY DEF Identical
  <2>2. PICK j \in k .. k + MaxToolRepeats : Spared(reqs[j].id)
    BY <2>1 DEF RepeatInv, OneSpared
  <2> QED
    BY <2>2 DEF Spared
<1> QED
  BY <1>1, RepeatSpec, PTL

\* Every variable of the loop, of its caller and of the history keeps its type.
THEOREM Typing == Spec => []TypeOK
<1>1. BudgetInv /\ TerminalInv /\ TriesInv /\ HandledInv /\ TypesInv => TypeOK
  <2> SUFFICES ASSUME BudgetInv, TerminalInv, TriesInv, HandledInv, TypesInv PROVE TypeOK
    OBVIOUS
  <2>1. usage \in Nat /\ conv \in Seq(Message) /\ tries \in Nat
    BY MessagesTyped DEF BudgetInv, TriesInv
  <2>2. ran \in [Ids -> Nat] /\ shown \in [Ids -> Nat]
    BY DEF HandledInv
  <2>3. turn \in Turns /\ attempt \in 0 .. MaxStreamRetries
    BY DEF TriesInv, Turns
  <2>4. out \in Seq({"result", "done", "error", "paused"})
    BY DEF TerminalInv, Events
  <2>5. repeat \in [sig : Sigs \cup {None}, count : Nat]
    BY DEF TypesInv, RepeatType
  <2>6. reqs \in Seq(Requested) /\ saved \subseteq Checkpoints
    BY DEF TypesInv
  <2>7. status \in Seq(Open \cup {"ready", "sent", "lost", "pending"})
    BY DEF TypesInv, Statuses
  <2> QED
    BY <2>1, <2>2, <2>3, <2>4, <2>5, <2>6, <2>7 DEF TypesInv, TypeOK
<1> DEFINE Types == BudgetInv /\ TerminalInv /\ TriesInv /\ HandledInv /\ TypesInv
<1>2. Init => Types
  BY RepeatInit, BudgetInit, TriesInit, HandledInit, TerminalInit
<1>3. Types /\ [Next]_vars => Types'
  BY TypesNext, BudgetNext, TerminalNext, TriesNext, HandledNext
<1> QED
  BY <1>1, <1>2, <1>3, PTL DEF Spec

=============================================================================
