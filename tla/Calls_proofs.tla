---------------------------- MODULE Calls_proofs ----------------------------
(***************************************************************************)
(* Proofs about Calls, for any number of parallel calls, requests,         *)
(* policies, modes, places and runs.                                       *)
(***************************************************************************)
EXTENDS Calls, FiniteSetTheorems, TLAPS

-----------------------------------------------------------------------------
(* Types of what a question goes through *)

PromptTypes ==
    /\ run \in 0 .. MaxRuns
    /\ call \in [CallIds -> Call]
    /\ listeners \in Nat
    /\ carried \in Seq(Envelope)
    /\ prompt \in Envelope \cup {None}

\* Before the first run there are no calls.
FirstRun == run = 0 => phase = "idle" /\ \A c \in CallIds : call[c].at = "none"

PromptInv == PromptTypes /\ FirstRun /\ PromptsReachable

LEMMA NoCallTyped == NoCall \in Call /\ NoCall.at = "none" /\ NoCall.resp = None /\ NoCall.said = None
BY DEF NoCall, Call, Key

LEMMA InitPrompts == Init => PromptInv
<1> SUFFICES ASSUME Init PROVE PromptInv
  OBVIOUS
<1>1. call \in [CallIds -> Call] /\ \A c \in CallIds : call[c].at = "none"
  BY NoCallTyped DEF Init
<1>2. carried = <<>> /\ listeners = 1 /\ prompt = None /\ run = 0 /\ phase = "idle"
  BY DEF Init
<1>3. 0 \in 0 .. MaxRuns
  BY CallsAssumption
<1> QED
  BY <1>1, <1>2, <1>3 DEF PromptInv, PromptTypes, FirstRun, PromptsReachable

\* A step that leaves the way of the questions alone, and brings no call to it,
\* keeps the invariant.
LEMMA AsideStep ==
  ASSUME PromptInv, UNCHANGED <<run, listeners, carried, prompt>>,
         call' \in [CallIds -> Call],
         \A c \in CallIds : call'[c] = call[c] \/ call'[c].at # "wait",
         run = 0 => phase' = "idle" /\ \A c \in CallIds : call'[c].at = "none"
  PROVE  PromptInv'
BY DEF PromptInv, PromptTypes, FirstRun, PromptsReachable

\* The same for a step of one call alone.
LEMMA CallAside ==
  ASSUME PromptInv, UNCHANGED <<run, phase, listeners, carried, prompt>>,
         NEW c \in CallIds, NEW at, NEW next \in Call,
         CallStep(c, at, next), at # "none", next.at # "wait"
  PROVE  PromptInv'
<1>1. call[c].at = at /\ call' = [call EXCEPT ![c] = next]
  BY DEF CallStep
<1>2. run # 0
  BY <1>1 DEF PromptInv, FirstRun
<1>3. call' \in [CallIds -> Call] /\ \A d \in CallIds : call'[d] = call[d] \/ call'[d].at # "wait"
  BY <1>1 DEF PromptInv, PromptTypes
<1> QED
  BY <1>2, <1>3, AsideStep

LEMMA GoesAside ==
  ASSUME PromptInv, UNCHANGED <<run, phase, listeners, carried, prompt>>,
         NEW c \in CallIds, NEW at, NEW to \in {"lookInput", "lookTool", "offer", "storeTool", "storeInput",
               "asked", "allow", "deny", "pend", "exec", "result", "done", "paused"},
         Goes(c, at, to), at # "none"
  PROVE  PromptInv'
<1> DEFINE next == [call[c] EXCEPT !.at = to]
<1>1. next \in Call /\ next.at = to
  BY DEF PromptInv, PromptTypes, Call
<1>2. CallStep(c, at, next)
  BY DEF Goes
<1> HIDE DEF next
<1> QED
  BY <1>1, <1>2, CallAside

\* What Approve decides.
LEMMA DecidedAside ==
  ASSUME PromptInv, UNCHANGED <<run, phase, listeners, carried, prompt>>,
         NEW c \in CallIds, NEW at, NEW d \in {"allow", "deny", "pend"},
         CallStep(c, at, Decided(c, d)), at # "none"
  PROVE  PromptInv'
<1>1. call[c] \in Call
  BY DEF PromptInv, PromptTypes
<1>2. Decided(c, d) \in Call /\ Decided(c, d).at # "wait"
  BY <1>1 DEF Decided, Call, Key
<1> QED
  BY <1>2, CallAside

-----------------------------------------------------------------------------
(* The run *)

LEMMA RunSteps ==
  ASSUME PromptInv, Submit \/ SubmitResume \/ Reload \/ TurnRetries \/ Cancel \/ RunNext
  PROVE  PromptInv'
<1> USE NoCallTyped
<1>0. /\ call \in [CallIds -> Call] /\ run \in 0 .. MaxRuns /\ MaxRuns \in Nat
      /\ carried \in Seq(Envelope) /\ listeners \in Nat /\ prompt \in Envelope \cup {None}
  BY CallsAssumption DEF PromptInv, PromptTypes
<1>1. ASSUME UNCHANGED <<listeners, carried, prompt>>, run' = run + 1, run < MaxRuns,
             call' \in [CallIds -> Call], \A c \in CallIds : call'[c].at # "wait"
      PROVE  PromptInv'
  BY <1>0, <1>1 DEF PromptInv, PromptTypes, FirstRun, PromptsReachable
<1>2. CASE Submit
  BY <1>1, <1>2 DEF Submit, CanSubmit, NewAgent
<1>3. CASE SubmitResume
  <2>1. call' = [c \in CallIds |-> IF c \in checkpoint
                                   THEN [NoCall EXCEPT !.at = "todo", !.req = call[c].req] ELSE NoCall]
    BY <1>3 DEF SubmitResume
  <2>2. \A c \in CallIds : call[c].req \in Requests \cup {None}
    BY <1>0 DEF Call
  <2>3. call' \in [CallIds -> Call] /\ \A c \in CallIds : call'[c].at # "wait"
    BY <2>1, <2>2 DEF NoCall, Call, Key
  <2> QED
    BY <1>1, <1>3, <2>3 DEF SubmitResume, CanSubmit, NewAgent
<1>4. CASE Reload
  BY <1>4, <1>0, AsideStep DEF Reload, PromptInv, FirstRun
<1>5. ASSUME UNCHANGED <<run, listeners, carried, prompt, call>>, phase # "idle"
      PROVE  PromptInv'
  BY <1>5, <1>0, AsideStep DEF PromptInv, FirstRun
<1>6. phase \in Turns => phase # "idle"
  BY CallsAssumption
<1>7. CASE TurnRetries
  BY <1>5, <1>6, <1>7 DEF TurnRetries, AgentUnchanged, Outside
<1>8. CASE Cancel
  BY <1>5, <1>8 DEF Cancel, Outside
<1>9. CASE TurnStarts \/ TurnFails \/ RunEnds
  <2>1. phase # "idle" /\ UNCHANGED <<run, listeners, carried, prompt, call>>
    BY <1>6, <1>9 DEF TurnStarts, TurnFails, RunEnds, AgentUnchanged, Outside
  <2> QED
    BY <1>5, <2>1
<1>10. CASE ToolsDone \/ AskingFails \/ RunDone
  <2>1. phase # "idle" /\ UNCHANGED <<run, listeners, carried, prompt, call>>
    BY <1>10 DEF ToolsDone, AskingFails, RunDone, Outside
  <2> QED
    BY <1>5, <2>1
<1>11. ASSUME UNCHANGED <<run, listeners, carried, prompt>>, phase # "idle",
              call' \in [CallIds -> Call],
              \A c \in CallIds : call'[c] = call[c] \/ call'[c].at # "wait"
       PROVE  PromptInv'
  BY <1>11, AsideStep DEF PromptInv, FirstRun
<1>12. CASE TurnEnds
  <2>1. phase # "idle" /\ UNCHANGED <<run, listeners, carried, prompt>>
    BY <1>6, <1>12 DEF TurnEnds, Outside
  <2>2. CASE UNCHANGED call
    BY <1>5, <2>1, <2>2
  <2>3. ASSUME NEW C \in SUBSET CallIds, NEW req \in [C -> Requests],
               call' = [c \in CallIds |-> IF c \in C
                                          THEN [NoCall EXCEPT !.at = "todo", !.req = req[c]] ELSE NoCall]
        PROVE  PromptInv'
    <3>1. call' \in [CallIds -> Call] /\ \A c \in CallIds : call'[c].at # "wait"
      BY <2>3 DEF NoCall, Call, Key
    <3> QED
      BY <1>11, <2>1, <3>1
  <2> QED
    BY <1>12, <2>2, <2>3 DEF TurnEnds
<1>13. CASE AskingDone
  <2>1. call' = [c \in CallIds |->
                  IF call[c].at = "none" THEN call[c]
                  ELSE [call[c] EXCEPT !.at = IF call[c].said = None THEN "paused" ELSE "todo"]]
    BY <1>13 DEF AskingDone
  <2>2. call' \in [CallIds -> Call] /\ \A c \in CallIds : call'[c].at # "wait"
    BY <1>0, <2>1 DEF Call
  <2>3. phase # "idle" /\ UNCHANGED <<run, listeners, carried, prompt>>
    BY <1>13 DEF AskingDone, Outside
  <2> QED
    BY <1>11, <2>2, <2>3
<1> QED
  BY <1>2, <1>3, <1>4, <1>7, <1>8, <1>9, <1>10, <1>12, <1>13 DEF RunNext

-----------------------------------------------------------------------------
(* One call *)

\* The question is handed to the one listener there is.
LEMMA OfferStep ==
  ASSUME PromptInv, NEW c \in CallIds, Offer(c)
  PROVE  PromptInv'
<1>1. /\ call \in [CallIds -> Call] /\ carried \in Seq(Envelope) /\ listeners \in Nat /\ run \in 0 .. MaxRuns
      /\ prompt \in Envelope \cup {None}
  BY DEF PromptInv, PromptTypes
<1>2. /\ listeners > 0 /\ call[c].at = "offer"
      /\ call' = [call EXCEPT ![c] = [call[c] EXCEPT !.at = "wait"]]
      /\ listeners' = listeners - 1
      /\ carried' = Append(carried, [run |-> run, call |-> c])
      /\ UNCHANGED <<prompt, run, phase>>
  BY DEF Offer, Goes, CallStep, RunUnchanged
<1>3. run # 0 /\ [run |-> run, call |-> c] \in Envelope
  BY <1>1, <1>2, CallsAssumption DEF PromptInv, FirstRun, Envelope
<1>4. listeners = 1 /\ Len(carried) = 0 /\ prompt = None
  BY <1>1, <1>2 DEF PromptInv, PromptsReachable
<1>5. carried = <<>>
  BY <1>1, <1>4
<1>6. carried' = <<[run |-> run, call |-> c]>>
  BY <1>2, <1>5
<1>7. PromptTypes' /\ FirstRun'
  <2>1. call' \in [CallIds -> Call]
    BY <1>1, <1>2 DEF Call
  <2>2. listeners' \in Nat /\ carried' \in Seq(Envelope)
    BY <1>1, <1>2, <1>3, <1>4
  <2> QED
    BY <1>1, <1>2, <1>3, <2>1, <2>2 DEF PromptTypes, FirstRun
<1>8. \A d \in CallIds \ {c} : ~(call[d].at = "wait" /\ call[d].resp = None)
  <2>1. carried = <<>> => ToSet(carried) = {}
    BY DEF ToSet
  <2>2. None \notin Envelope
    BY CallsAssumption
  <2>3. \A d \in CallIds : [run |-> run, call |-> d] \in Envelope
    BY <1>1, <1>3, CallsAssumption DEF Envelope
  <2> QED
    BY <1>4, <1>5, <2>1, <2>2, <2>3 DEF PromptInv, PromptsReachable
<1>9. PromptsReachable'
  <2>1. listeners' + Len(carried') + (IF prompt' = None THEN 0 ELSE 1) = 1
    BY <1>2, <1>4, <1>6
  <2>2. [run |-> run, call |-> c] \in ToSet(carried')
    BY <1>6 DEF ToSet
  <2>3. \A d \in CallIds \ {c} : call'[d] = call[d]
    BY <1>1, <1>2
  <2> QED
    BY <1>2, <1>8, <2>1, <2>2, <2>3 DEF PromptsReachable
<1> QED
  BY <1>7, <1>9 DEF PromptInv

LEMMA CallSteps ==
  ASSUME PromptInv, NEW c \in CallIds, CallNext(c)
  PROVE  PromptInv'
<1>0. call[c] \in Call
  BY DEF PromptInv, PromptTypes
<1> USE DEF RunUnchanged, uiVars
<1>1. CASE CallBegins(c)
  <2>1. PICK to \in {"result", "allow", "deny", "lookInput"} : Goes(c, "todo", to)
    BY <1>0, <1>1 DEF CallBegins, Call
  <2>2. UNCHANGED <<run, phase, listeners, carried, prompt>>
    BY <1>1 DEF CallBegins, Goes, CallStep
  <2> QED
    BY <2>1, <2>2, GoesAside
<1>2. CASE AskBegins(c)
  <2>1. UNCHANGED <<run, phase, listeners, carried, prompt>>
    BY <1>2 DEF AskBegins, Goes, CallStep
  <2>2. CASE Goes(c, "todo", "lookInput")
    BY <2>1, <2>2, GoesAside
  <2>3. ASSUME NEW d \in {"allow", "deny", "pend"}, CallStep(c, "todo", Decided(c, d)) PROVE PromptInv'
    BY <2>1, <2>3, DecidedAside
  <2> QED
    BY <1>2, <2>2, <2>3 DEF AskBegins
<1>3. CASE LookInput(c)
  <2>1. UNCHANGED <<run, phase, listeners, carried, prompt>>
    BY <1>3 DEF LookInput, Goes, CallStep
  <2>2. CASE Goes(c, "lookInput", "lookTool")
    BY <2>1, <2>2, GoesAside
  <2>3. CASE CallStep(c, "lookInput", Decided(c, "allow"))
    BY <2>1, <2>3, DecidedAside
  <2> QED
    BY <1>3, <2>2, <2>3 DEF LookInput
<1>4. CASE LookTool(c)
  <2>1. UNCHANGED <<run, phase, listeners, carried, prompt>>
    BY <1>4 DEF LookTool, Goes, CallStep
  <2>2. CASE Goes(c, "lookTool", "offer")
    BY <2>1, <2>2, GoesAside
  <2>3. ASSUME NEW d \in {"allow", "deny", "pend"}, CallStep(c, "lookTool", Decided(c, d)) PROVE PromptInv'
    BY <2>1, <2>3, DecidedAside
  <2> QED
    BY <1>4, <2>2, <2>3 DEF LookTool
<1>5. CASE Offer(c)
  BY <1>5, OfferStep
<1>6. CASE Receive(c)
  <2>1. call[c].resp \in Keys
    BY <1>0, <1>6 DEF Receive, Call, Key
  <2>2. \/ \E d \in {"allow", "deny", "pend"} : CallStep(c, "wait", Decided(c, d))
        \/ \E to \in {"storeInput", "storeTool"} : Goes(c, "wait", to)
    BY <1>6, <2>1 DEF Receive, Keys
  <2>3. UNCHANGED <<run, phase, listeners, carried, prompt>>
    BY <1>6, <2>2 DEF Receive, Goes, CallStep
  <2>4. ASSUME NEW d \in {"allow", "deny", "pend"}, CallStep(c, "wait", Decided(c, d)) PROVE PromptInv'
    BY <2>3, <2>4, DecidedAside
  <2>5. ASSUME NEW to \in {"storeInput", "storeTool"}, Goes(c, "wait", to) PROVE PromptInv'
    BY <2>3, <2>5, GoesAside
  <2> QED
    BY <2>2, <2>4, <2>5
<1>7. CASE AskCancelled(c)
  <2>1. PICK at \in {"offer", "wait"} : CallStep(c, at, [call[c] EXCEPT !.at = "result", !.resp = None])
    BY <1>7 DEF AskCancelled
  <2>2. UNCHANGED <<run, phase, listeners, carried, prompt>>
    BY <1>7, <2>1 DEF AskCancelled, CallStep
  <2> DEFINE next == [call[c] EXCEPT !.at = "result", !.resp = None]
  <2>3. next \in Call /\ next.at # "wait"
    BY <1>0 DEF Call, Key
  <2>4. CallStep(c, at, next)
    BY <2>1
  <2> HIDE DEF next
  <2> QED
    BY <2>2, <2>3, <2>4, CallAside
<1>8. CASE StoreInput(c) \/ StoreTool(c)
  <2>1. PICK at \in {"storeInput", "storeTool"} : CallStep(c, at, Decided(c, "allow"))
    BY <1>8 DEF StoreInput, StoreTool
  <2>2. UNCHANGED <<run, phase, listeners, carried, prompt>>
    BY <1>8 DEF StoreInput, StoreTool, CallStep
  <2> QED
    BY <2>1, <2>2, DecidedAside
<1>9. CASE CallStops(c)
  <2>1. PICK at \in {"deny", "result", "pend"}, to \in {"done", "paused"} : Goes(c, at, to)
    BY <1>9 DEF CallStops
  <2>2. UNCHANGED <<run, phase, listeners, carried, prompt>>
    BY <1>9 DEF CallStops, Goes, CallStep
  <2> QED
    BY <2>1, <2>2, GoesAside
<1>10. CASE CallTool(c)
  <2>1. Goes(c, "allow", "exec") /\ UNCHANGED <<run, phase, listeners, carried, prompt>>
    BY <1>10 DEF CallTool, Goes, CallStep
  <2> QED
    BY <2>1, GoesAside
<1>11. CASE CallTimesOut(c)
  <2>1. Goes(c, "exec", "result") /\ UNCHANGED <<run, phase, listeners, carried, prompt>>
    BY <1>11 DEF CallTimesOut, Goes, CallStep
  <2> QED
    BY <2>1, GoesAside
<1> QED
  BY <1>1, <1>2, <1>3, <1>4, <1>5, <1>6, <1>7, <1>8, <1>9, <1>10, <1>11 DEF CallNext

LEMMA JobSteps ==
  ASSUME PromptInv, NEW j \in jobs, JobNext(j)
  PROVE  PromptInv'
<1> USE DEF JobUnchanged, RunUnchanged, uiVars
<1>1. UNCHANGED <<run, phase, listeners, carried, prompt>>
  BY DEF JobNext, TakePlace, JobEnds, QueueCancelled
<1>2. call' = call \/ (Waited(j) /\ call' = [call EXCEPT ![j.call].at = "result"])
  BY DEF JobNext, TakePlace, JobEnds, QueueCancelled
<1>3. call \in [CallIds -> Call]
  BY DEF PromptInv, PromptTypes
<1>4. CASE call' = call
  BY <1>1, <1>3, <1>4, AsideStep DEF PromptInv, FirstRun
<1>5. CASE Waited(j) /\ call' = [call EXCEPT ![j.call].at = "result"]
  <2>1. CASE j.call \in CallIds
    <3>1. call' \in [CallIds -> Call]
      BY <1>3, <1>5, <2>1 DEF Call
    <3>2. run # 0
      BY <1>5, <2>1 DEF Waited, PromptInv, FirstRun
    <3> QED
      BY <1>1, <1>3, <1>5, <2>1, <3>1, <3>2, AsideStep
  <2>2. CASE j.call \notin CallIds
    BY <1>1, <1>3, <1>4, <1>5, <2>2
  <2> QED
    BY <2>1, <2>2
<1> QED
  BY <1>2, <1>4, <1>5

-----------------------------------------------------------------------------
(* The terminal interface *)

LEMMA ShowStep ==
  ASSUME PromptInv, ShowPrompt
  PROVE  PromptInv'
<1>1. /\ carried # <<>> /\ prompt' = Head(carried) /\ carried' = Tail(carried)
      /\ UNCHANGED <<run, phase, call, listeners>>
  BY DEF ShowPrompt, UIUnchanged, RunUnchanged
<1>2. carried \in Seq(Envelope) /\ listeners \in Nat /\ prompt \in Envelope \cup {None}
  BY DEF PromptInv, PromptTypes
<1>3. Len(carried) = 1 /\ listeners = 0 /\ prompt = None
  <2>1. Len(carried) \in Nat /\ Len(carried) # 0
    BY <1>1, <1>2
  <2>2. listeners + Len(carried) + (IF prompt = None THEN 0 ELSE 1) = 1
    BY DEF PromptInv, PromptsReachable
  <2> QED
    BY <1>2, <2>1, <2>2
<1>4. carried' = <<>> /\ Head(carried) \in Envelope /\ ToSet(carried) = {Head(carried)}
  BY <1>1, <1>2, <1>3 DEF ToSet
<1>5. prompt' # None /\ ToSet(carried') = {}
  BY <1>1, <1>4, CallsAssumption DEF ToSet
<1>6. PromptTypes' /\ FirstRun'
  BY <1>1, <1>4 DEF PromptInv, PromptTypes, FirstRun
<1>7. \A c \in CallIds : call[c].at = "wait" /\ call[c].resp = None =>
        [run |-> run, call |-> c] \in {Head(carried), None}
  BY <1>3, <1>4 DEF PromptInv, PromptsReachable
<1>8. \A c \in CallIds : call[c].at = "wait" => [run |-> run, call |-> c] # None
  <2>1. \A c \in CallIds : call[c].at = "wait" => run # 0
    BY DEF PromptInv, FirstRun
  <2>2. run \in 0 .. MaxRuns
    BY DEF PromptInv, PromptTypes
  <2>3. \A c \in CallIds : run # 0 => [run |-> run, call |-> c] \in Envelope
    BY <2>2, CallsAssumption DEF Envelope
  <2> QED
    BY <2>1, <2>3, CallsAssumption
<1>9. PromptsReachable'
  <2>1. listeners' + Len(carried') + (IF prompt' = None THEN 0 ELSE 1) = 1
    <3>1. Len(carried') = 0 /\ listeners' = 0
      BY <1>1, <1>3, <1>4
    <3> QED
      BY <1>5, <3>1
  <2> QED
    BY <1>1, <1>7, <1>8, <2>1 DEF PromptsReachable
<1> QED
  BY <1>6, <1>9 DEF PromptInv

\* The key answers the call on the screen, which was the only one that could
\* wait, and somebody listens again.
LEMMA AnswerStep ==
  ASSUME PromptInv, NEW k \in Keys, Answer(k)
  PROVE  PromptInv'
<1>1. /\ prompt # None /\ prompt' = None /\ UNCHANGED <<run, phase, carried>>
      /\ call' = IF Waiting(prompt) THEN [call EXCEPT ![prompt.call].resp = k] ELSE call
      /\ listeners' = listeners + 1
  BY DEF Answer, Answered, UIUnchanged, RunUnchanged
<1>2. /\ carried \in Seq(Envelope) /\ listeners \in Nat /\ prompt \in Envelope
      /\ call \in [CallIds -> Call] /\ prompt.call \in CallIds
  BY <1>1 DEF PromptInv, PromptTypes, Envelope
<1>3. Len(carried) = 0 /\ listeners = 0
  BY <1>1, <1>2 DEF PromptInv, PromptsReachable
<1>4. ToSet(carried) = {} /\ Len(carried') = 0
  BY <1>1, <1>2, <1>3 DEF ToSet
<1>5. k # None
  BY CallsAssumption
<1>6. PromptTypes' /\ FirstRun'
  <2>1. call' \in [CallIds -> Call] /\ \A c \in CallIds : call'[c].at = call[c].at
    BY <1>1, <1>2 DEF Call, Key
  <2> QED
    BY <1>1, <1>2, <2>1 DEF PromptInv, PromptTypes, FirstRun
<1>7. \A c \in CallIds : ~(call'[c].at = "wait" /\ call'[c].resp = None)
  <2> SUFFICES ASSUME NEW c \in CallIds, call'[c].at = "wait", call'[c].resp = None PROVE FALSE
    OBVIOUS
  <2>1. call[c].at = "wait" /\ (call[c].resp = None \/ (Waiting(prompt) /\ c = prompt.call))
    <3>1. CASE Waiting(prompt) /\ c = prompt.call
      BY <1>1, <1>2, <3>1 DEF Waiting
    <3>2. CASE ~(Waiting(prompt) /\ c = prompt.call)
      <4>1. call'[c] = call[c]
        BY <1>1, <1>2, <3>2
      <4> QED
        BY <4>1
    <3> QED
      BY <3>1, <3>2
  <2>2. call[c].resp # None => Waiting(prompt) /\ c = prompt.call
    BY <2>1
  <2>3. call[c].resp = None => [run |-> run, call |-> c] = prompt
    BY <1>4, <2>1 DEF PromptInv, PromptsReachable
  <2>4. Waiting(prompt) /\ c = prompt.call
    BY <1>1, <2>1, <2>2, <2>3 DEF Waiting
  <2>5. call'[c].resp = k
    BY <1>1, <1>2, <2>4 DEF Call
  <2> QED
    BY <1>5, <2>5
<1>8. PromptsReachable'
  BY <1>1, <1>3, <1>4, <1>7 DEF PromptsReachable
<1> QED
  BY <1>6, <1>8 DEF PromptInv

LEMMA PromptNext == PromptInv /\ [Next]_vars => PromptInv'
<1> SUFFICES ASSUME PromptInv, [Next]_vars PROVE PromptInv'
  OBVIOUS
<1>1. CASE UNCHANGED vars
  BY <1>1 DEF vars, uiVars, PromptInv, PromptTypes, FirstRun, PromptsReachable
<1>2. CASE Next
  BY <1>2, RunSteps, CallSteps, JobSteps, ShowStep, AnswerStep DEF Next
<1> QED
  BY <1>1, <1>2

-----------------------------------------------------------------------------
(* The observer *)

Unborn(r, k) == started[<<r, k>>] = 0 /\ ended[<<r, k>>] = 0
Open(r, k)   == started[<<r, k>>] = 1 /\ ended[<<r, k>>] = 0
Shut(r, k)   == started[<<r, k>>] = ended[<<r, k>>] /\ ended[<<r, k>>] <= 1

NotYet(r) == states[r] = None /\ \A k \in SpanKeys : Unborn(r, k)
Closed(r) == states[r] = None /\ \A k \in SpanKeys : Shut(r, k)

\* A run under observation: what is open is what its state lists.
Live(r) ==
    /\ states[r] # None
    /\ states[r].root
    /\ Open(r, "root")
    /\ \A k \in Turns \cup CallIds :
         IF k \in states[r].turns \cup states[r].tools THEN Open(r, k) ELSE Shut(r, k)

\* What has not begun yet, by where the run is, and what is under way.
Ahead(r) ==
    /\ phase \in Turns /\ phase \notin states[r].turns => Unborn(r, phase)
    /\ phase \in {"turn1", "tools"} => Unborn(r, "turn2")
    /\ phase = "turn1" => \A c \in CallIds : Unborn(r, c)
    /\ phase = "tools" =>
         \A c \in CallIds :
           /\ call[c].at = "todo" => Unborn(r, c)
           /\ call[c].at \notin {"none", "todo", "done", "paused"} => c \in states[r].tools

Observed ==
    \A r \in RunIds :
      /\ r < run => Closed(r)
      /\ r > run => NotYet(r)
      /\ r = run => CASE phase \in {"idle", "over"} -> Closed(r)
                      [] phase = "asking" -> NotYet(r)
                      [] OTHER -> Live(r) /\ Ahead(r)

SpansInv == SpansTypeOK /\ Observed

\* Another run's spans are left alone.
Elsewhere(r) ==
    \A q \in RunIds \ {r} :
      /\ states'[q] = states[q]
      /\ \A k \in SpanKeys : started'[<<q, k>>] = started[<<q, k>>] /\ ended'[<<q, k>>] = ended[<<q, k>>]

\* Of this run, only one span is concerned.
OnlyAt(r, s) ==
    \A k \in SpanKeys \ {s} :
      started'[<<r, k>>] = started[<<r, k>>] /\ ended'[<<r, k>>] = ended[<<r, k>>]

LEMMA KeysDiffer ==
  /\ "root" \in SpanKeys /\ Turns \subseteq SpanKeys /\ CallIds \subseteq SpanKeys
  /\ SpanKeys = {"root"} \cup Turns \cup CallIds
  /\ Turns \cap CallIds = {} /\ "root" \notin Turns \cup CallIds
BY SpansAssumption DEF SpanKeys

LEMMA CountAt ==
  ASSUME NEW f \in [SpanNames -> Nat], NEW S
  PROVE  /\ Count(f, S) \in [SpanNames -> Nat]
         /\ \A r \in RunIds, k \in SpanKeys :
              /\ f[<<r, k>>] \in Nat
              /\ Count(f, S)[<<r, k>>] = IF <<r, k>> \in S THEN f[<<r, k>>] + 1 ELSE f[<<r, k>>]
BY DEF Count, SpanNames

LEMMA StateTyped ==
  ASSUME SpansTypeOK, NEW r \in RunIds
  PROVE  State(r) \in RunState /\ (states[r] # None => State(r) = states[r])
BY DEF SpansTypeOK, State, NewRunState, RunState

LEMMA RunStartObserved ==
  ASSUME SpansTypeOK, NEW r \in RunIds, NotYet(r), ObserveRunStart(r)
  PROVE  /\ SpansTypeOK' /\ Elsewhere(r) /\ Live(r)'
         /\ \A k \in Turns \cup CallIds : Unborn(r, k)'
<1>1. State(r) = NewRunState
  BY DEF NotYet, State
<1>2. /\ started' = Count(started, {<<r, "root">>}) /\ ended' = ended
      /\ states' = [states EXCEPT ![r] = [NewRunState EXCEPT !.root = TRUE]]
  BY <1>1 DEF ObserveRunStart, NewRunState
<1> DEFINE opened == [NewRunState EXCEPT !.root = TRUE]
<1>3. NewRunState \in RunState /\ NewRunState.turns = {} /\ NewRunState.tools = {}
  BY DEF NewRunState, RunState
<1>4. /\ opened \in RunState /\ None \notin RunState
      /\ opened.root /\ opened.turns = {} /\ opened.tools = {}
  BY <1>3, SpansAssumption DEF RunState
<1>5. SpansTypeOK'
  BY <1>2, <1>4, CountAt DEF SpansTypeOK
<1>6. states'[r] = opened
  BY <1>2 DEF SpansTypeOK
<1>7. Elsewhere(r)
  BY <1>2, CountAt DEF SpansTypeOK, Elsewhere
<1>8. \A k \in Turns \cup CallIds : Unborn(r, k)'
  BY <1>2, CountAt, KeysDiffer DEF SpansTypeOK, NotYet, Unborn
<1>9. Open(r, "root")'
  BY <1>2, CountAt, KeysDiffer DEF SpansTypeOK, NotYet, Unborn, Open
<1> HIDE DEF opened
<1>10. Live(r)'
  BY <1>4, <1>6, <1>8, <1>9 DEF Live, Unborn, Shut
<1> QED
  BY <1>5, <1>7, <1>8, <1>10

LEMMA TurnStartObserved ==
  ASSUME SpansTypeOK, NEW r \in RunIds, Live(r), NEW t \in Turns, Unborn(r, t),
         ObserveTurnStart(r, t)
  PROVE  /\ SpansTypeOK' /\ Elsewhere(r) /\ OnlyAt(r, t) /\ Live(r)'
         /\ states'[r] = [states[r] EXCEPT !.turns = @ \cup {t}]
<1>1. State(r) = states[r] /\ states[r] \in RunState /\ None \notin RunState
  BY StateTyped, SpansAssumption DEF Live, RunState
<1>2. /\ started' = Count(started, {<<r, t>>}) /\ ended' = ended
      /\ states' = [states EXCEPT ![r] = [states[r] EXCEPT !.turns = @ \cup {t}]]
  BY <1>1 DEF ObserveTurnStart
<1>3. [states[r] EXCEPT !.turns = @ \cup {t}] \in RunState
  BY <1>1 DEF RunState
<1>4. SpansTypeOK'
  BY <1>2, <1>3, CountAt DEF SpansTypeOK
<1>5. states'[r] = [states[r] EXCEPT !.turns = @ \cup {t}]
  BY <1>2 DEF SpansTypeOK
<1>6. Elsewhere(r) /\ OnlyAt(r, t)
  BY <1>2, CountAt DEF SpansTypeOK, Elsewhere, OnlyAt
<1>7. Open(r, t)'
  BY <1>2, CountAt, KeysDiffer DEF SpansTypeOK, Unborn, Open
<1>8. /\ states'[r].root = states[r].root /\ states'[r].tools = states[r].tools
      /\ states'[r].turns = states[r].turns \cup {t}
  BY <1>1, <1>5 DEF RunState
<1>9. Live(r)'
  BY <1>1, <1>3, <1>5, <1>6, <1>7, <1>8, KeysDiffer DEF Live, OnlyAt, Open, Shut
<1> QED
  BY <1>4, <1>5, <1>6, <1>9

LEMMA TurnEndObserved ==
  ASSUME SpansTypeOK, NEW r \in RunIds, Live(r), NEW t \in Turns, t \in states[r].turns,
         ObserveTurnEnd(r, t)
  PROVE  /\ SpansTypeOK' /\ Elsewhere(r) /\ OnlyAt(r, t) /\ Live(r)'
         /\ states'[r] = [states[r] EXCEPT !.turns = @ \ {t}]
<1>1. State(r) = states[r] /\ states[r] \in RunState /\ None \notin RunState
  BY StateTyped, SpansAssumption DEF Live, RunState
<1>2. /\ ended' = Count(ended, {<<r, t>>}) /\ started' = started
      /\ states' = [states EXCEPT ![r] = [states[r] EXCEPT !.turns = @ \ {t}]]
  BY <1>1 DEF ObserveTurnEnd
<1>3. [states[r] EXCEPT !.turns = @ \ {t}] \in RunState
  BY <1>1 DEF RunState
<1>4. SpansTypeOK'
  BY <1>2, <1>3, CountAt DEF SpansTypeOK
<1>5. states'[r] = [states[r] EXCEPT !.turns = @ \ {t}]
  BY <1>2 DEF SpansTypeOK
<1>6. Elsewhere(r) /\ OnlyAt(r, t)
  BY <1>2, CountAt DEF SpansTypeOK, Elsewhere, OnlyAt
<1>7. Shut(r, t)'
  BY <1>2, CountAt, KeysDiffer DEF SpansTypeOK, Live, Shut, Open
<1>8. /\ states'[r].root = states[r].root /\ states'[r].tools = states[r].tools
      /\ states'[r].turns = states[r].turns \ {t}
  BY <1>1, <1>5 DEF RunState
<1>9. t \notin states[r].tools
  BY <1>1, KeysDiffer DEF RunState
<1>10. Live(r)'
  BY <1>1, <1>3, <1>5, <1>6, <1>7, <1>8, <1>9, KeysDiffer DEF Live, OnlyAt, Open, Shut
<1> QED
  BY <1>4, <1>5, <1>6, <1>10

LEMMA ToolStartObserved ==
  ASSUME SpansTypeOK, NEW r \in RunIds, Live(r), NEW c \in CallIds, Unborn(r, c),
         ObserveToolStart(r, c)
  PROVE  /\ SpansTypeOK' /\ Elsewhere(r) /\ OnlyAt(r, c) /\ Live(r)'
         /\ states'[r] = [states[r] EXCEPT !.tools = @ \cup {c}]
<1>1. State(r) = states[r] /\ states[r] \in RunState /\ None \notin RunState
  BY StateTyped, SpansAssumption DEF Live, RunState
<1>2. /\ started' = Count(started, {<<r, c>>}) /\ ended' = ended
      /\ states' = [states EXCEPT ![r] = [states[r] EXCEPT !.tools = @ \cup {c}]]
  BY <1>1 DEF ObserveToolStart
<1>3. [states[r] EXCEPT !.tools = @ \cup {c}] \in RunState
  BY <1>1 DEF RunState
<1>4. SpansTypeOK'
  BY <1>2, <1>3, CountAt DEF SpansTypeOK
<1>5. states'[r] = [states[r] EXCEPT !.tools = @ \cup {c}]
  BY <1>2 DEF SpansTypeOK
<1>6. Elsewhere(r) /\ OnlyAt(r, c)
  BY <1>2, CountAt DEF SpansTypeOK, Elsewhere, OnlyAt
<1>7. Open(r, c)'
  BY <1>2, CountAt, KeysDiffer DEF SpansTypeOK, Unborn, Open
<1>8. /\ states'[r].root = states[r].root /\ states'[r].turns = states[r].turns
      /\ states'[r].tools = states[r].tools \cup {c}
  BY <1>1, <1>5 DEF RunState
<1>9. Live(r)'
  BY <1>1, <1>3, <1>5, <1>6, <1>7, <1>8, KeysDiffer DEF Live, OnlyAt, Open, Shut
<1> QED
  BY <1>4, <1>5, <1>6, <1>9

LEMMA ToolEndObserved ==
  ASSUME SpansTypeOK, NEW r \in RunIds, Live(r), NEW c \in CallIds, c \in states[r].tools,
         ObserveToolEnd(r, c)
  PROVE  /\ SpansTypeOK' /\ Elsewhere(r) /\ OnlyAt(r, c) /\ Live(r)'
         /\ states'[r] = [states[r] EXCEPT !.tools = @ \ {c}]
<1>1. State(r) = states[r] /\ states[r] \in RunState /\ None \notin RunState
  BY StateTyped, SpansAssumption DEF Live, RunState
<1>2. /\ ended' = Count(ended, {<<r, c>>}) /\ started' = started
      /\ states' = [states EXCEPT ![r] = [states[r] EXCEPT !.tools = @ \ {c}]]
  BY <1>1 DEF ObserveToolEnd
<1>3. [states[r] EXCEPT !.tools = @ \ {c}] \in RunState
  BY <1>1 DEF RunState
<1>4. SpansTypeOK'
  BY <1>2, <1>3, CountAt DEF SpansTypeOK
<1>5. states'[r] = [states[r] EXCEPT !.tools = @ \ {c}]
  BY <1>2 DEF SpansTypeOK
<1>6. Elsewhere(r) /\ OnlyAt(r, c)
  BY <1>2, CountAt DEF SpansTypeOK, Elsewhere, OnlyAt
<1>7. Shut(r, c)'
  BY <1>2, CountAt, KeysDiffer DEF SpansTypeOK, Live, Shut, Open
<1>8. /\ states'[r].root = states[r].root /\ states'[r].turns = states[r].turns
      /\ states'[r].tools = states[r].tools \ {c}
  BY <1>1, <1>5 DEF RunState
<1>9. c \notin states[r].turns
  BY <1>1, KeysDiffer DEF RunState
<1>10. Live(r)'
  BY <1>1, <1>3, <1>5, <1>6, <1>7, <1>8, <1>9, KeysDiffer DEF Live, OnlyAt, Open, Shut
<1> QED
  BY <1>4, <1>5, <1>6, <1>10

LEMMA RunEndObserved ==
  ASSUME SpansTypeOK, NEW r \in RunIds, Live(r), ObserveRunEnd(r)
  PROVE  SpansTypeOK' /\ Elsewhere(r) /\ Closed(r)'
<1> DEFINE S == {r} \X ({"root"} \cup states[r].turns \cup states[r].tools)
<1>1. State(r) = states[r] /\ states[r] \in RunState /\ states[r].root
  BY StateTyped DEF Live
<1>2. started' = started /\ ended' = Count(ended, S) /\ states' = [states EXCEPT ![r] = None]
  BY <1>1 DEF ObserveRunEnd
<1>3. SpansTypeOK'
  BY <1>2, CountAt DEF SpansTypeOK
<1>4. \A q, k : <<q, k>> \in S <=> q = r /\ k \in {"root"} \cup states[r].turns \cup states[r].tools
  OBVIOUS
<1> HIDE DEF S
<1>5. Elsewhere(r)
  BY <1>2, <1>4, CountAt DEF SpansTypeOK, Elsewhere
<1>6. \A k \in SpanKeys :
        ended'[<<r, k>>] = IF k \in {"root"} \cup states[r].turns \cup states[r].tools
                           THEN ended[<<r, k>>] + 1 ELSE ended[<<r, k>>]
  BY <1>2, <1>4, CountAt DEF SpansTypeOK
<1>7. Closed(r)'
  BY <1>2, <1>6, KeysDiffer DEF SpansTypeOK, Closed, Live, Open, Shut
<1> QED
  BY <1>3, <1>5, <1>7

LEMMA EventObserved ==
  ASSUME SpansTypeOK, NEW r \in RunIds, Live(r), ObserveEvent(r)
  PROVE  UNCHANGED spanVars
BY StateTyped DEF SpansTypeOK, Live, ObserveEvent, spanVars

\* A call between its begin and its end observation.
UnderWay(at) == at \notin {"none", "todo", "done", "paused"}

LEMMA CurrentRun ==
  ASSUME PromptInv, phase # "idle" \/ \E c \in CallIds : call[c].at # "none"
  PROVE  run \in RunIds
BY CallsAssumption DEF PromptInv, PromptTypes, FirstRun

\* A step that neither changes what is observed nor brings a call to a place
\* where it has to be observed first.
LEMMA UnobservedStep ==
  ASSUME Observed, UNCHANGED <<spanVars, run, phase>>,
         \A c \in CallIds :
            \/ call'[c].at = call[c].at
            \/ call'[c].at # "todo" /\ (phase = "tools" => UnderWay(call[c].at))
  PROVE  Observed'
<1> SUFFICES ASSUME NEW r \in RunIds
             PROVE  /\ r < run => Closed(r)'
                    /\ r > run => NotYet(r)'
                    /\ r = run => CASE phase \in {"idle", "over"} -> Closed(r)'
                                    [] phase = "asking" -> NotYet(r)'
                                    [] OTHER -> Live(r)' /\ Ahead(r)'
  BY DEF Observed
<1>1. (Closed(r) => Closed(r)') /\ (NotYet(r) => NotYet(r)')
  BY DEF Closed, NotYet, Shut, Unborn, spanVars
<1>2. Live(r) => Live(r)'
  BY DEF Live, Open, Shut, spanVars
<1>3. Ahead(r) => Ahead(r)'
  <2> SUFFICES ASSUME Ahead(r) PROVE Ahead(r)'
    OBVIOUS
  <2>1. \A k : Unborn(r, k) => Unborn(r, k)'
    BY DEF Unborn, spanVars
  <2>2. states' = states /\ phase' = phase
    BY DEF spanVars
  <2>3. ASSUME NEW c \in CallIds, phase = "tools"
        PROVE  /\ call'[c].at = "todo" => Unborn(r, c)'
               /\ call'[c].at \notin {"none", "todo", "done", "paused"} => c \in states[r].tools
    BY <2>1, <2>3 DEF Ahead, UnderWay
  <2> QED
    BY <2>1, <2>2, <2>3 DEF Ahead
<1> QED
  BY <1>1, <1>2, <1>3 DEF Observed

\* A step that changes only what is observed of the run that is current after it.
LEMMA LaterObservation ==
  ASSUME Observed, run \in Nat, run' \in RunIds, Elsewhere(run'),
         \A r \in RunIds : (r < run' => Closed(r)) /\ (r > run' => NotYet(r)),
         phase' \in {"idle", "over"} => Closed(run)',
         phase' = "asking" => NotYet(run)',
         phase' \notin {"idle", "over", "asking"} => Live(run)' /\ Ahead(run)'
  PROVE  Observed'
<1>1. \A r \in RunIds \ {run'} : (Closed(r) => Closed(r)') /\ (NotYet(r) => NotYet(r)')
  BY DEF Elsewhere, Closed, NotYet, Shut, Unborn
<1>2. \A r \in RunIds : r \in Nat
  BY CallsAssumption
<1>3. ASSUME NEW r \in RunIds, r # run'
      PROVE  (r < run' => Closed(r)') /\ (r > run' => NotYet(r)')
  BY <1>1, <1>3
<1>4. (CASE phase \in {"idle", "over"} -> Closed(run)
         [] phase = "asking" -> NotYet(run)
         [] OTHER -> Live(run) /\ Ahead(run))'
  <2>1. CASE phase' \in {"idle", "over"}
    BY <2>1
  <2>2. CASE phase' = "asking"
    BY <2>2
  <2>3. CASE phase' \notin {"idle", "over", "asking"}
    BY <2>3
  <2> QED
    BY <2>1, <2>2, <2>3
<1>5. ASSUME NEW r \in RunIds
      PROVE  (/\ r < run => Closed(r)
              /\ r > run => NotYet(r)
              /\ r = run => CASE phase \in {"idle", "over"} -> Closed(r)
                              [] phase = "asking" -> NotYet(r)
                              [] OTHER -> Live(r) /\ Ahead(r))'
  <2>1. CASE r = run'
    BY <1>2, <1>4, <2>1
  <2>2. CASE r # run'
    BY <1>3, <2>2
  <2> QED
    BY <2>1, <2>2
<1> QED
  BY <1>5 DEF Observed

\* A step that changes the observation of the current run alone.
LEMMA OwnObservation ==
  ASSUME PromptInv, Observed, run' = run, run \in RunIds, Elsewhere(run),
         phase' \in {"idle", "over"} => Closed(run)',
         phase' = "asking" => NotYet(run)',
         phase' \notin {"idle", "over", "asking"} => Live(run)' /\ Ahead(run)'
  PROVE  Observed'
<1>1. \A r \in RunIds : (r < run' => Closed(r)) /\ (r > run' => NotYet(r))
  BY DEF Observed
<1>2. run \in Nat /\ run' \in RunIds /\ Elsewhere(run')
  BY CallsAssumption
<1> QED
  BY <1>1, <1>2, LaterObservation

\* What the invariant says of the current run in each phase.
LEMMA CurrentObserved ==
  ASSUME Observed, run \in RunIds
  PROVE  /\ phase \in {"idle", "over"} => Closed(run)
         /\ phase = "asking" => NotYet(run)
         /\ phase \notin {"idle", "over", "asking"} => Live(run) /\ Ahead(run)
BY DEF Observed

LEMMA UnchangedElsewhere == UNCHANGED spanVars => Elsewhere(run)
BY DEF spanVars, Elsewhere

LEMMA SubmitObserved ==
  ASSUME PromptInv, SpansInv, Submit \/ SubmitResume
  PROVE  SpansInv'
<1>1. run \in 0 .. MaxRuns /\ run < MaxRuns /\ run' = run + 1 /\ phase = "idle"
  BY DEF PromptInv, PromptTypes, Submit, SubmitResume, CanSubmit
<1>2. run + 1 \in RunIds /\ RunIds \subseteq Nat
  BY <1>1, CallsAssumption
<1>3. NotYet(run + 1) /\ SpansTypeOK
  BY <1>1, <1>2, CallsAssumption DEF SpansInv, Observed
<1>4. \A r \in RunIds : (r < run + 1 => Closed(r)) /\ (r > run + 1 => NotYet(r))
  BY <1>1, <1>2, CallsAssumption DEF SpansInv, Observed
<1>5. CASE Submit
  <2>0. PICK r \in RunIds : r = run + 1
    BY <1>2
  <2>1. ObserveRunStart(r) /\ run' = r /\ phase' = "turn1"
    BY <1>1, <1>5, <2>0 DEF Submit
  <2>2. /\ SpansTypeOK' /\ Elsewhere(r) /\ Live(r)'
        /\ \A k \in Turns \cup CallIds : Unborn(r, k)'
    BY <1>3, <2>0, <2>1, RunStartObserved
  <2>3. Ahead(r)'
    BY <2>1, <2>2, CallsAssumption DEF Ahead
  <2>4. Live(run)' /\ Ahead(run)' /\ Elsewhere(run')
    BY <2>1, <2>2, <2>3
  <2>5. Observed'
    BY <1>1, <1>2, <1>4, <2>1, <2>2, <2>4, LaterObservation DEF SpansInv
  <2> QED
    BY <2>2, <2>5 DEF SpansInv
<1>6. CASE SubmitResume
  <2>1. UNCHANGED spanVars /\ phase' = "asking"
    BY <1>6 DEF SubmitResume
  <2>2. NotYet(run)' /\ Elsewhere(run')
    BY <1>1, <1>3, <2>1 DEF spanVars, NotYet, Unborn, Elsewhere
  <2>3. Observed'
    BY <1>1, <1>2, <1>4, <2>1, <2>2, LaterObservation DEF SpansInv
  <2> QED
    BY <1>3, <2>1, <2>3 DEF SpansInv, SpansTypeOK, spanVars
<1> QED
  BY <1>5, <1>6

LEMMA TurnObserved ==
  ASSUME PromptInv, SpansInv, TurnStarts \/ TurnRetries \/ TurnEnds \/ TurnFails
  PROVE  SpansInv'
<1>1. run \in RunIds /\ phase \in Turns /\ run' = run
  BY CurrentRun, CallsAssumption
     DEF TurnStarts, TurnRetries, TurnEnds, TurnFails, AgentUnchanged
<1>2. /\ SpansTypeOK /\ Live(run) /\ Ahead(run) /\ State(run) = states[run]
      /\ states[run] \in RunState
  BY <1>1, CurrentObserved, StateTyped, CallsAssumption DEF SpansInv, Live
<1>3. "turn1" \in Turns /\ "turn2" \in Turns /\ Turns = {"turn1", "turn2"}
  BY CallsAssumption
<1>4. CASE TurnStarts
  <2>1. /\ phase \notin states[run].turns /\ Unborn(run, phase)
        /\ ObserveTurnStart(run, phase) /\ UNCHANGED <<phase, call>>
    BY <1>2, <1>4 DEF TurnStarts, Ahead
  <2>2. /\ SpansTypeOK' /\ Elsewhere(run) /\ OnlyAt(run, phase) /\ Live(run)'
        /\ states'[run] = [states[run] EXCEPT !.turns = @ \cup {phase}]
    BY <1>1, <1>2, <2>1, TurnStartObserved
  <2>3. phase \in states'[run].turns
    BY <1>2, <2>2 DEF RunState
  <2>4. \A k \in (Turns \cup CallIds) \ {phase} : Unborn(run, k) => Unborn(run, k)'
    BY <1>1, <2>2, KeysDiffer DEF OnlyAt, Unborn
  <2>5. Ahead(run)'
    BY <1>1, <1>2, <1>3, <2>1, <2>3, <2>4, KeysDiffer DEF Ahead
  <2> QED
    BY <1>1, <1>3, <2>1, <2>2, <2>5, OwnObservation DEF SpansInv
<1>5. CASE TurnRetries
  <2>1. UNCHANGED <<spanVars, run, phase, call>>
    BY <1>1, <1>2, <1>5, EventObserved DEF TurnRetries, AgentUnchanged
  <2>2. Observed'
    BY <2>1, UnobservedStep DEF SpansInv
  <2> QED
    BY <1>2, <2>1, <2>2 DEF SpansInv, SpansTypeOK, spanVars
<1>6. CASE TurnEnds
  <2>1. /\ phase \in states[run].turns /\ ObserveTurnEnd(run, phase)
        /\ \/ phase' = "ending"
           \/ /\ phase = "turn1" /\ phase' = "tools"
              /\ \A c \in CallIds : call'[c].at \in {"none", "todo"}
    BY <1>2, <1>6, NoCallTyped DEF TurnEnds, NoCall
  <2>2. /\ SpansTypeOK' /\ Elsewhere(run) /\ OnlyAt(run, phase) /\ Live(run)'
    BY <1>1, <1>2, <2>1, TurnEndObserved
  <2>3. \A k \in (Turns \cup CallIds) \ {phase} : Unborn(run, k) => Unborn(run, k)'
    BY <1>1, <2>2, KeysDiffer DEF OnlyAt, Unborn
  <2>4. Ahead(run)'
    <3>1. CASE phase' = "ending"
      BY <1>3, <3>1 DEF Ahead
    <3>2. CASE phase = "turn1" /\ phase' = "tools"
      <4>1. Unborn(run, "turn2")' /\ \A c \in CallIds : Unborn(run, c)'
        BY <1>2, <1>3, <2>3, <3>2, KeysDiffer DEF Ahead
      <4>2. \A c \in CallIds : call'[c].at \in {"none", "todo"}
        BY <2>1, <3>2
      <4> QED
        BY <1>1, <1>3, <3>2, <4>1, <4>2 DEF Ahead
    <3> QED
      BY <2>1, <3>1, <3>2
  <2> QED
    BY <1>1, <1>3, <2>1, <2>2, <2>4, OwnObservation DEF SpansInv
<1>7. CASE TurnFails
  <2>1. UNCHANGED <<spanVars, run>> /\ phase' = "ending"
    BY <1>7 DEF TurnFails, AgentUnchanged
  <2>2. SpansTypeOK' /\ Live(run)' /\ Ahead(run)' /\ Elsewhere(run)
    BY <1>2, <1>3, <2>1 DEF SpansTypeOK, spanVars, Live, Open, Shut, Ahead, Elsewhere
  <2> QED
    BY <1>1, <2>1, <2>2, OwnObservation DEF SpansInv
<1> QED
  BY <1>4, <1>5, <1>6, <1>7

LEMMA PhaseObserved ==
  ASSUME PromptInv, SpansInv,
         ToolsDone \/ AskingFails \/ AskingDone \/ RunEnds \/ RunDone
  PROVE  SpansInv'
<1>1. run \in RunIds /\ run' = run
  <2>1. phase \in {"tools", "asking", "ending", "over"}
    BY DEF ToolsDone, AskingFails, AskingDone, RunEnds, RunDone
  <2>2. run' = run
    BY DEF ToolsDone, AskingFails, AskingDone, RunEnds, RunDone, AgentUnchanged
  <2> QED
    BY <2>1, <2>2, CurrentRun
<1>2. Turns = {"turn1", "turn2"}
  BY CallsAssumption
<1>3. CASE ToolsDone
  <2>1. Live(run) /\ Ahead(run) /\ SpansTypeOK /\ phase = "tools"
    BY <1>1, <1>3, CurrentObserved DEF SpansInv, ToolsDone
  <2>2. UNCHANGED spanVars /\ phase' \in {"ending", "turn2"}
    BY <1>1, <1>3, <2>1, EventObserved DEF ToolsDone
  <2>3. SpansTypeOK' /\ Live(run)' /\ Elsewhere(run)
    BY <1>1, <2>1, <2>2 DEF SpansTypeOK, spanVars, Live, Open, Shut, Elsewhere
  <2>4. Unborn(run, "turn2")'
    BY <2>1, <2>2, <1>1 DEF Ahead, Unborn, spanVars
  <2>5. Ahead(run)'
    BY <1>1, <1>2, <2>2, <2>4 DEF Ahead
  <2> QED
    BY <1>1, <2>2, <2>3, <2>5, OwnObservation DEF SpansInv
<1>4. CASE AskingFails
  <2>1. NotYet(run) /\ SpansTypeOK /\ UNCHANGED spanVars /\ phase' = "over"
    BY <1>1, <1>4, CurrentObserved DEF SpansInv, AskingFails
  <2>2. SpansTypeOK' /\ Closed(run)' /\ Elsewhere(run)
    BY <1>1, <2>1 DEF SpansTypeOK, spanVars, NotYet, Closed, Unborn, Shut, Elsewhere
  <2> QED
    BY <1>1, <2>1, <2>2, OwnObservation DEF SpansInv
<1>5. CASE AskingDone
  <2>1. /\ NotYet(run) /\ SpansTypeOK /\ ObserveRunStart(run) /\ phase' = "tools"
        /\ call' = [c \in CallIds |->
                     IF call[c].at = "none" THEN call[c]
                     ELSE [call[c] EXCEPT !.at = IF call[c].said = None THEN "paused" ELSE "todo"]]
    BY <1>1, <1>5, CurrentObserved DEF SpansInv, AskingDone
  <2>2. /\ SpansTypeOK' /\ Elsewhere(run) /\ Live(run)'
        /\ \A k \in Turns \cup CallIds : Unborn(run, k)'
    BY <1>1, <2>1, RunStartObserved
  <2>3. \A c \in CallIds : call'[c].at \in {"none", "paused", "todo"}
    BY <2>1 DEF PromptInv, PromptTypes, Call
  <2>4. Ahead(run)'
    BY <1>1, <1>2, <2>1, <2>2, <2>3 DEF Ahead
  <2> QED
    BY <1>1, <2>1, <2>2, <2>4, OwnObservation DEF SpansInv
<1>6. CASE RunEnds
  <2>1. Live(run) /\ SpansTypeOK /\ ObserveRunEnd(run) /\ phase' = "over"
    BY <1>1, <1>6, CurrentObserved DEF SpansInv, RunEnds
  <2>2. SpansTypeOK' /\ Elsewhere(run) /\ Closed(run)'
    BY <1>1, <2>1, RunEndObserved
  <2> QED
    BY <1>1, <2>1, <2>2, OwnObservation DEF SpansInv
<1>7. CASE RunDone
  <2>1. Closed(run) /\ SpansTypeOK /\ UNCHANGED spanVars /\ phase' = "idle"
    BY <1>1, <1>7, CurrentObserved DEF SpansInv, RunDone
  <2>2. SpansTypeOK' /\ Closed(run)' /\ Elsewhere(run)
    BY <1>1, <2>1 DEF SpansTypeOK, spanVars, Closed, Shut, Elsewhere
  <2> QED
    BY <1>1, <2>1, <2>2, OwnObservation DEF SpansInv
<1> QED
  BY <1>3, <1>4, <1>5, <1>6, <1>7

LEMMA UnobservedSpans ==
  ASSUME SpansInv, UNCHANGED <<spanVars, run, phase>>,
         \A c \in CallIds :
            \/ call'[c].at = call[c].at
            \/ call'[c].at # "todo" /\ (phase = "tools" => UnderWay(call[c].at))
  PROVE  SpansInv'
<1>1. Observed'
  BY UnobservedStep DEF SpansInv
<1> QED
  BY <1>1 DEF SpansInv, SpansTypeOK, spanVars

\* A step of one call that nobody observes.
LEMMA UnobservedCall ==
  ASSUME PromptInv, SpansInv, UNCHANGED spanVars, NEW c \in CallIds, NEW at, NEW next,
         CallStep(c, at, next), next.at # "todo", phase = "asking" \/ UnderWay(at)
  PROVE  SpansInv'
<1>1. /\ call[c].at = at /\ call' = [call EXCEPT ![c] = next] /\ UNCHANGED <<run, phase>>
  BY DEF CallStep, RunUnchanged
<1>2. \A d \in CallIds : call'[d] = IF d = c THEN next ELSE call[d]
  BY <1>1 DEF PromptInv, PromptTypes
<1> QED
  BY <1>1, <1>2, UnobservedSpans

LEMMA CallObserved ==
  ASSUME PromptInv, SpansInv, NEW c \in CallIds, CallNext(c)
  PROVE  SpansInv'
<1>0. call[c] \in Call
  BY DEF PromptInv, PromptTypes
<1>1. \A to : [call[c] EXCEPT !.at = to].at = to
  BY <1>0 DEF Call
<1>2. \A d \in {"allow", "deny", "pend"} : Decided(c, d).at # "todo"
  BY <1>0 DEF Decided, Call
<1>3. CASE CallBegins(c)
  <2>1. /\ phase = "tools" /\ call[c].at = "todo" /\ ObserveToolStart(run, c)
        /\ UNCHANGED <<run, phase>>
        /\ \E to \in {"result", "allow", "deny", "lookInput"} :
              call' = [call EXCEPT ![c] = [call[c] EXCEPT !.at = to]]
    BY <1>0, <1>3 DEF CallBegins, Goes, CallStep, RunUnchanged, Call
  <2>2. run \in RunIds
    BY <2>1, CurrentRun
  <2>3. Live(run) /\ Ahead(run) /\ SpansTypeOK /\ Unborn(run, c) /\ states[run] \in RunState
    BY <2>1, <2>2, CurrentObserved, StateTyped DEF SpansInv, Ahead, Live
  <2>4. /\ SpansTypeOK' /\ Elsewhere(run) /\ OnlyAt(run, c) /\ Live(run)'
        /\ states'[run] = [states[run] EXCEPT !.tools = @ \cup {c}]
    BY <2>1, <2>2, <2>3, ToolStartObserved
  <2>5. states'[run].tools = states[run].tools \cup {c}
    BY <2>3, <2>4 DEF RunState
  <2>6. \A k \in (Turns \cup CallIds) \ {c} : Unborn(run, k) => Unborn(run, k)'
    BY <2>1, <2>4, KeysDiffer DEF OnlyAt, Unborn
  <2>7. call'[c].at # "todo" /\ \A d \in CallIds \ {c} : call'[d] = call[d]
    BY <1>1, <2>1 DEF PromptInv, PromptTypes
  <2>8. "turn2" \in Turns /\ Turns = {"turn1", "turn2"}
    BY CallsAssumption
  <2>9. Ahead(run)'
    BY <2>1, <2>3, <2>5, <2>6, <2>7, <2>8, KeysDiffer DEF Ahead
  <2> QED
    BY <2>1, <2>2, <2>4, <2>9, OwnObservation DEF SpansInv
<1>4. CASE CallStops(c)
  <2>0. PICK at \in {"deny", "result", "pend"}, to \in {"done", "paused"} : Goes(c, at, to)
    BY <1>4 DEF CallStops
  <2>1. /\ phase = "tools" /\ call[c].at \in {"deny", "result", "pend"} /\ ObserveToolEnd(run, c)
        /\ UNCHANGED <<run, phase>>
        /\ \E end \in {"done", "paused"} : call' = [call EXCEPT ![c] = [call[c] EXCEPT !.at = end]]
    BY <1>4, <2>0 DEF CallStops, Goes, CallStep, RunUnchanged
  <2>2. run \in RunIds
    BY <2>1, CurrentRun
  <2>3. Live(run) /\ Ahead(run) /\ SpansTypeOK /\ c \in states[run].tools /\ states[run] \in RunState
    BY <2>1, <2>2, CurrentObserved, StateTyped DEF SpansInv, Ahead, Live
  <2>4. /\ SpansTypeOK' /\ Elsewhere(run) /\ OnlyAt(run, c) /\ Live(run)'
        /\ states'[run] = [states[run] EXCEPT !.tools = @ \ {c}]
    BY <2>1, <2>2, <2>3, ToolEndObserved
  <2>5. states'[run].tools = states[run].tools \ {c}
    BY <2>3, <2>4 DEF RunState
  <2>6. \A k \in (Turns \cup CallIds) \ {c} : Unborn(run, k) => Unborn(run, k)'
    BY <2>1, <2>4, KeysDiffer DEF OnlyAt, Unborn
  <2>7. call'[c].at \in {"done", "paused"} /\ \A d \in CallIds \ {c} : call'[d] = call[d]
    BY <1>1, <2>1 DEF PromptInv, PromptTypes
  <2>8. "turn2" \in Turns /\ Turns = {"turn1", "turn2"}
    BY CallsAssumption
  <2>9. Ahead(run)'
    BY <2>1, <2>3, <2>5, <2>6, <2>7, <2>8, KeysDiffer DEF Ahead
  <2> QED
    BY <2>1, <2>2, <2>4, <2>9, OwnObservation DEF SpansInv
<1>5. ASSUME UNCHANGED spanVars, NEW at, NEW to, Goes(c, at, to), to # "todo",
             phase = "asking" \/ UnderWay(at)
      PROVE  SpansInv'
  BY <1>1, <1>5, UnobservedCall DEF Goes
<1>6. ASSUME UNCHANGED spanVars, NEW at, NEW d \in {"allow", "deny", "pend"},
             CallStep(c, at, Decided(c, d)), phase = "asking" \/ UnderWay(at)
      PROVE  SpansInv'
  BY <1>2, <1>6, UnobservedCall
<1> USE DEF CallUnchanged
<1>7. CASE AskBegins(c)
  <2>1. UNCHANGED spanVars /\ phase = "asking"
    BY <1>7 DEF AskBegins
  <2>2. \/ Goes(c, "todo", "lookInput")
        \/ \E d \in {"allow", "deny", "pend"} : CallStep(c, "todo", Decided(c, d))
    BY <1>7 DEF AskBegins
  <2> QED
    BY <1>5, <1>6, <2>1, <2>2
<1>8. CASE LookInput(c) \/ LookTool(c)
  <2>1. UNCHANGED spanVars
    BY <1>8 DEF LookInput, LookTool
  <2>2. \E at \in {"lookInput", "lookTool"} :
          \/ \E d \in {"allow", "deny", "pend"} : CallStep(c, at, Decided(c, d))
          \/ \E to \in {"lookTool", "offer"} : Goes(c, at, to)
    BY <1>8 DEF LookInput, LookTool
  <2> QED
    BY <1>5, <1>6, <2>1, <2>2 DEF UnderWay
<1>9. CASE Offer(c) \/ CallTimesOut(c) \/ CallTool(c)
  <2>1. UNCHANGED spanVars
    BY <1>9 DEF Offer, CallTimesOut, CallTool
  <2>2. \E at \in {"offer", "exec", "allow"}, to \in {"wait", "result", "exec"} : Goes(c, at, to)
    BY <1>9 DEF Offer, CallTimesOut, CallTool
  <2> QED
    BY <1>5, <2>1, <2>2 DEF UnderWay
<1>10. CASE Receive(c)
  <2>1. UNCHANGED spanVars
    BY <1>10 DEF Receive
  <2>2. call[c].resp \in Keys
    BY <1>0, <1>10 DEF Receive, Call, Key
  <2>3. \/ \E d \in {"allow", "deny", "pend"} : CallStep(c, "wait", Decided(c, d))
        \/ \E to \in {"storeInput", "storeTool"} : Goes(c, "wait", to)
    BY <1>10, <2>2 DEF Receive, Keys
  <2> QED
    BY <1>5, <1>6, <2>1, <2>3 DEF UnderWay
<1>11. CASE AskCancelled(c)
  <2>1. UNCHANGED spanVars
    BY <1>11 DEF AskCancelled
  <2> DEFINE next == [call[c] EXCEPT !.at = "result", !.resp = None]
  <2>2. \E at \in {"offer", "wait"} : CallStep(c, at, next)
    BY <1>11 DEF AskCancelled
  <2>3. next.at = "result"
    BY <1>0 DEF Call
  <2> HIDE DEF next
  <2> QED
    BY <2>1, <2>2, <2>3, UnobservedCall DEF UnderWay
<1>12. CASE StoreInput(c) \/ StoreTool(c)
  <2>1. UNCHANGED spanVars /\ \E at \in {"storeInput", "storeTool"} : CallStep(c, at, Decided(c, "allow"))
    BY <1>12 DEF StoreInput, StoreTool
  <2> QED
    BY <1>6, <2>1 DEF UnderWay
<1> QED
  BY <1>3, <1>4, <1>7, <1>8, <1>9, <1>10, <1>11, <1>12 DEF CallNext

LEMMA OtherObserved ==
  ASSUME PromptInv, SpansInv,
         \/ Reload \/ Cancel \/ ShowPrompt
         \/ \E j \in jobs : JobNext(j)
         \/ \E k \in Keys : Answer(k)
  PROVE  SpansInv'
<1>1. UNCHANGED <<spanVars, run, phase>>
  BY DEF Reload, Cancel, ShowPrompt, JobNext, TakePlace, JobEnds, QueueCancelled, JobUnchanged,
         Answer, Answered, UIUnchanged, RunUnchanged, CallUnchanged, Outside
<1>2. call \in [CallIds -> Call]
  BY DEF PromptInv, PromptTypes
<1>3. ASSUME NEW j \in jobs, JobNext(j), NEW c \in CallIds
      PROVE  call'[c].at = call[c].at \/ (call'[c].at = "result" /\ call[c].at = "exec")
  BY <1>2, <1>3 DEF JobNext, TakePlace, JobEnds, QueueCancelled, Waited, Call
<1>4. ASSUME NEW k \in Keys, Answer(k), NEW c \in CallIds
      PROVE  call'[c].at = call[c].at
  BY <1>2, <1>4 DEF Answer, Answered, Call
<1>5. Reload \/ Cancel \/ ShowPrompt => call' = call
  BY DEF Reload, Cancel, ShowPrompt
<1> QED
  BY <1>1, <1>3, <1>4, <1>5, UnobservedSpans DEF UnderWay

LEMMA InitObserved == Init => SpansInv
<1> SUFFICES ASSUME Init PROVE SpansInv
  OBVIOUS
<1>1. SpansTypeOK
  BY DEF Init, SpansInit, SpansTypeOK
<1>2. \A r \in RunIds : r > run /\ NotYet(r) /\ ~(r < run) /\ r # run
  BY CallsAssumption DEF Init, SpansInit, NotYet, Unborn, SpanNames
<1> QED
  BY <1>1, <1>2 DEF SpansInv, Observed

LEMMA SpansNext == PromptInv /\ SpansInv /\ [Next]_vars => SpansInv'
<1> SUFFICES ASSUME PromptInv, SpansInv, [Next]_vars PROVE SpansInv'
  OBVIOUS
<1>1. CASE UNCHANGED vars
  BY <1>1, UnobservedSpans DEF vars
<1>2. CASE Next
  BY <1>2, SubmitObserved, TurnObserved, PhaseObserved, CallObserved, OtherObserved DEF Next, RunNext
<1> QED
  BY <1>1, <1>2


-----------------------------------------------------------------------------
(* Types of everything else *)

RunTypes ==
    /\ \E p, q \in Policies : policy = [p EXCEPT !.disabled = q.disabled]
    /\ auto \in Autos
    /\ offered \subseteq {r.tool : r \in Requests}
    /\ asks \in 0 .. MaxCalls
    /\ phase \in {"idle", "asking", "ending", "over", "tools"} \cup Turns
    /\ cancelled \in BOOLEAN
    /\ checkpoint \subseteq CallIds

AnswerTypes ==
    /\ jobs \subseteq Job
    /\ byInput \subseteq {[tool |-> r.tool, input |-> r.input] : r \in Requests}
    /\ byTool \subseteq {r.tool : r \in Requests}
    /\ own \in [CallIds -> Key]

\* A call in sight is about one of the requests, and so are those of a
\* checkpoint, which a run that starts from a prompt cannot have.
RequestsKnown ==
    /\ \A c \in CallIds : call[c].at # "none" => call[c].req \in Requests
    /\ \A c \in checkpoint : call[c].at # "none"
    /\ phase = "turn1" => checkpoint = {}

LEMMA TypeParts ==
  TypeOK <=> SpansTypeOK /\ PromptTypes /\ RunTypes /\ AnswerTypes
BY Zenon DEF TypeOK, PromptTypes, RunTypes, AnswerTypes

TypeInv == PromptInv /\ SpansInv /\ RunTypes /\ AnswerTypes /\ RequestsKnown

LEMMA InitTypes == Init => TypeInv
<1> SUFFICES ASSUME Init PROVE TypeInv
  OBVIOUS
<1>0. \E p, q \in Policies : policy = [p EXCEPT !.disabled = q.disabled]
  <2>1. policy \in Policies
    BY DEF Init
  <2>2. ASSUME NEW p \in Policies PROVE p = [p EXCEPT !.disabled = p.disabled]
    <3>1. p = [k \in DOMAIN p |-> p[k]] /\ "disabled" \in DOMAIN p
      BY CallsAssumption
    <3> QED
      BY <3>1
  <2> QED
    BY Zenon, <2>1, <2>2
<1>1. /\ auto \in Autos /\ offered = {} /\ asks = 0 /\ phase = "idle" /\ cancelled = FALSE
      /\ checkpoint = {} /\ MaxCalls \in Nat
  BY CallsAssumption DEF Init
<1>2. /\ offered \subseteq {r.tool : r \in Requests} /\ checkpoint \subseteq CallIds
      /\ asks \in 0 .. MaxCalls /\ cancelled \in BOOLEAN
      /\ phase \in {"idle", "asking", "ending", "over", "tools"} \cup Turns
  <2>1. asks \in 0 .. MaxCalls
    BY <1>1
  <2>2. offered \subseteq {r.tool : r \in Requests} /\ checkpoint \subseteq CallIds /\ cancelled \in BOOLEAN
    BY Zenon, <1>1
  <2> QED
    BY Zenon, <1>1, <2>1, <2>2
<1>3. RunTypes
  BY Zenon, <1>0, <1>1, <1>2 DEF RunTypes
<1>4. AnswerTypes /\ RequestsKnown
  BY NoCallTyped DEF Init, NoAnswers, AnswerTypes, RequestsKnown, Key
<1> QED
  BY <1>3, <1>4, InitPrompts, InitObserved DEF TypeInv

LEMMA RunTypesHave ==
  ASSUME RunTypes
  PROVE  asks \in 0 .. MaxCalls /\ checkpoint \subseteq CallIds
BY DEF RunTypes

LEMMA ToolsOffered ==
  ASSUME NEW mode
  PROVE  ToolsForMode(mode, ReadOnly, policy, Requests) \subseteq {r.tool : r \in Requests}
BY DEF ToolsForMode

LEMMA RunTyped ==
  ASSUME TypeInv, Submit \/ SubmitResume \/ Reload \/ TurnRetries \/ Cancel \/ RunNext
  PROVE  RunTypes' /\ AnswerTypes' /\ RequestsKnown'
<1> USE NoCallTyped DEF TypeInv
<1>0. /\ call \in [CallIds -> Call] /\ Turns = {"turn1", "turn2"} /\ MaxCalls \in Nat
      /\ IsFiniteSet(CallIds) /\ asks \in 0 .. MaxCalls /\ checkpoint \subseteq CallIds
  BY CallsAssumption, RunTypesHave DEF PromptInv, PromptTypes
<1>1. \A c \in CallIds : None \in Key
  BY DEF Key
<1>2. CASE Submit
  <2>1. RunTypes'
    BY <1>0, <1>2, ToolsOffered DEF Submit, NewAgent, RunTypes
  <2>2. AnswerTypes'
    BY <1>1, <1>2 DEF Submit, NewAgent, AnswerTypes, memory
  <2>3. RequestsKnown'
    BY <1>2 DEF Submit, RequestsKnown
  <2> QED
    BY <2>1, <2>2, <2>3
<1>3. CASE SubmitResume
  <2>1. RunTypes'
    BY <1>3, ToolsOffered DEF SubmitResume, NewAgent, RunTypes
  <2>2. AnswerTypes'
    BY <1>1, <1>3 DEF SubmitResume, NewAgent, AnswerTypes, memory
  <2>3. \A c \in CallIds :
          call'[c] = IF c \in checkpoint
                     THEN [NoCall EXCEPT !.at = "todo", !.req = call[c].req] ELSE NoCall
    BY <1>3 DEF SubmitResume
  <2>4. \A c \in CallIds : c \in checkpoint => call'[c].at = "todo" /\ call'[c].req = call[c].req
    BY <2>3 DEF NoCall
  <2>5. \A c \in CallIds : c \notin checkpoint => call'[c].at = "none"
    BY <2>3
  <2>6. checkpoint \subseteq CallIds /\ checkpoint' = checkpoint /\ phase' = "asking"
    BY <1>3 DEF SubmitResume, RunTypes
  <2>7. RequestsKnown'
    BY <2>4, <2>5, <2>6 DEF RequestsKnown
  <2> QED
    BY <2>1, <2>2, <2>7
<1>4. CASE Reload
  <2>1. PICK p \in Policies :
          \/ policy' = p /\ NewApprover
          \/ policy' = [policy EXCEPT !.disabled = p.disabled] /\ UNCHANGED <<memory, granted>>
    BY <1>4 DEF Reload
  <2>2. UNCHANGED <<auto, offered, asks, phase, cancelled, checkpoint, call, jobs, own>>
    BY <1>4 DEF Reload
  <2>3. \E a, b \in Policies : policy' = [a EXCEPT !.disabled = b.disabled]
    <3>1. CASE policy' = p
      BY <3>1, CallsAssumption
    <3>2. CASE policy' = [policy EXCEPT !.disabled = p.disabled]
      <4>1. PICK a, b \in Policies : policy = [a EXCEPT !.disabled = b.disabled]
        BY DEF RunTypes
      <4>2. policy' = [a EXCEPT !.disabled = p.disabled]
        BY <3>2, <4>1
      <4> QED
        BY <4>2
    <3> QED
      BY <2>1, <3>1, <3>2
  <2>4. AnswerTypes'
    BY <2>1, <2>2 DEF AnswerTypes, NewApprover, memory
  <2> QED
    BY <2>2, <2>3, <2>4 DEF RunTypes, RequestsKnown
<1>5. CASE TurnStarts \/ TurnRetries \/ TurnFails \/ RunEnds
  <2>1. UNCHANGED <<policy, auto, offered, asks, cancelled, checkpoint, call, jobs, memory, own>>
    BY <1>5 DEF TurnStarts, TurnRetries, TurnFails, RunEnds, AgentUnchanged, Outside
  <2>2. phase' \in {phase, "ending", "over"}
    BY <1>5 DEF TurnStarts, TurnRetries, TurnFails, RunEnds
  <2> QED
    BY <1>0, <2>1, <2>2 DEF RunTypes, AnswerTypes, RequestsKnown, memory
<1>6. CASE Cancel \/ AskingFails \/ RunDone
  <2>1. UNCHANGED <<policy, auto, offered, asks, checkpoint, call, jobs, memory, own>>
    BY <1>6 DEF Cancel, AskingFails, RunDone, Outside
  <2>2. phase' \in {phase, "over", "idle"} /\ cancelled' \in {cancelled, TRUE}
    BY <1>6 DEF Cancel, AskingFails, RunDone
  <2> QED
    BY <1>0, <2>1, <2>2 DEF RunTypes, AnswerTypes, RequestsKnown, memory
<1>7. CASE TurnEnds
  <2>1. UNCHANGED <<policy, auto, offered, cancelled, jobs, memory, own>>
    BY <1>7 DEF TurnEnds, Outside
  <2>2. AnswerTypes'
    BY <2>1 DEF AnswerTypes, memory
  <2>3. CASE phase' = "ending" /\ checkpoint' = {} /\ UNCHANGED <<asks, call>>
    BY <2>1, <2>2, <2>3, <1>0 DEF RunTypes, RequestsKnown
  <2>4. ASSUME NEW C \in SUBSET CallIds, NEW req \in [C -> Requests], phase = "turn1", phase' = "tools",
               asks + Cardinality(C) <= MaxCalls, asks' = asks + Cardinality(C), checkpoint' = checkpoint,
               call' = [c \in CallIds |-> IF c \in C
                                          THEN [NoCall EXCEPT !.at = "todo", !.req = req[c]] ELSE NoCall]
        PROVE  RunTypes' /\ RequestsKnown'
    <3>1. Cardinality(C) \in Nat
      BY <1>0, FS_Subset, FS_CardinalityType
    <3>2. asks' \in 0 .. MaxCalls
      <4>1. ASSUME NEW n \in Nat, asks + n <= MaxCalls PROVE asks + n \in 0 .. MaxCalls
        BY <1>0, <4>1
      <4> QED
        BY <2>4, <3>1, <4>1
    <3>3. RunTypes'
      BY <2>1, <2>4, <3>2 DEF RunTypes
    <3>4. \A c \in CallIds : call'[c].at # "none" => call'[c].req \in Requests
      BY <2>4 DEF NoCall
    <3>5. checkpoint' = {}
      BY <2>4 DEF RequestsKnown
    <3> QED
      BY <3>3, <3>4, <3>5 DEF RequestsKnown
  <2> QED
    BY <1>7, <2>2, <2>3, <2>4 DEF TurnEnds
<1>8. CASE ToolsDone
  <2>1. UNCHANGED <<policy, auto, offered, asks, cancelled, jobs, memory, own, call>>
    BY <1>8 DEF ToolsDone, Outside
  <2>2. phase' \in {"ending", "turn2"} /\ (checkpoint' = checkpoint \/ checkpoint' = Paused)
    BY <1>8 DEF ToolsDone
  <2>3. Paused \subseteq CallIds /\ \A c \in Paused : call[c].at # "none"
    BY DEF Paused
  <2> QED
    BY <1>0, <2>1, <2>2, <2>3 DEF RunTypes, AnswerTypes, RequestsKnown, memory
<1>9. CASE AskingDone
  <2>1. /\ UNCHANGED <<policy, auto, offered, asks, cancelled, checkpoint, jobs, memory, own>>
        /\ phase' = "tools"
    BY <1>9 DEF AskingDone, Outside
  <2>2. call' = [c \in CallIds |->
                  IF call[c].at = "none" THEN call[c]
                  ELSE [call[c] EXCEPT !.at = IF call[c].said = None THEN "paused" ELSE "todo"]]
    BY <1>9 DEF AskingDone
  <2>3. \A c \in CallIds : /\ call'[c].at = "none" => call[c].at = "none"
                           /\ call'[c].req = call[c].req
    BY <1>0, <2>2 DEF Call
  <2>a. /\ \A c \in CallIds : call[c].at # "none" => call[c].req \in Requests
        /\ \A c \in checkpoint : c \in CallIds /\ call[c].at # "none"
    BY <1>0 DEF RequestsKnown
  <2>4. (\A c \in CallIds : call[c].at # "none" => call[c].req \in Requests)'
    <3>1. ASSUME NEW c \in CallIds, call'[c].at # "none" PROVE call'[c].req \in Requests
      <4>1. call[c].at # "none"
        BY Zenon, <2>2, <3>1
      <4> QED
        BY <2>3, <2>a, <4>1
    <3> QED
      BY <3>1
  <2>5. (\A c \in checkpoint : call[c].at # "none")'
    BY <2>1, <2>3, <2>a
  <2>6. (phase = "turn1" => checkpoint = {})'
    BY <2>1
  <2>7. RequestsKnown'
    BY <2>4, <2>5, <2>6 DEF RequestsKnown
  <2> QED
    BY <2>1, <2>7 DEF RunTypes, AnswerTypes, memory
<1> QED
  BY <1>2, <1>3, <1>4, <1>5, <1>6, <1>7, <1>8, <1>9 DEF RunNext

\* A call keeps its request to the end.
LEMMA OwnRequest ==
  ASSUME TypeInv, NEW c \in CallIds, NEW at, NEW next, CallStep(c, at, next),
         next.req = call[c].req, next.at # "none", call[c].at # "none"
  PROVE  RequestsKnown' /\ RunTypes'
<1>1. \A d \in CallIds : call'[d] = IF d = c THEN next ELSE call[d]
  BY DEF TypeInv, PromptInv, PromptTypes, CallStep
<1> QED
  <2>0. /\ \A d \in CallIds : call[d].at # "none" => call[d].req \in Requests
        /\ \A d \in checkpoint : call[d].at # "none"
        /\ phase = "turn1" => checkpoint = {}
        /\ phase' = phase /\ checkpoint' = checkpoint /\ checkpoint \subseteq CallIds
    BY RunTypesHave DEF TypeInv, RequestsKnown, CallStep, RunUnchanged
  <2>a. (\A d \in CallIds : call[d].at # "none" => call[d].req \in Requests)'
    BY <1>1, <2>0
  <2>b. (\A d \in checkpoint : call[d].at # "none")'
    BY <1>1, <2>0
  <2>1. RequestsKnown'
    BY <2>0, <2>a, <2>b DEF RequestsKnown
  <2>2. RunTypes'
    BY DEF TypeInv, RunTypes, CallStep, RunUnchanged
  <2> QED
    BY <2>1, <2>2

LEMMA CallTyped ==
  ASSUME TypeInv, NEW c \in CallIds, CallNext(c)
  PROVE  RunTypes' /\ AnswerTypes' /\ RequestsKnown'
<1>0. call[c] \in Call /\ own \in [CallIds -> Key] /\ run \in 0 .. MaxRuns
  BY DEF TypeInv, PromptInv, PromptTypes, AnswerTypes
<1>1. /\ \A to : [call[c] EXCEPT !.at = to].req = call[c].req /\ [call[c] EXCEPT !.at = to].at = to
      /\ \A d : Decided(c, d).req = call[c].req /\ Decided(c, d).at \in {d, "asked"}
      /\ [call[c] EXCEPT !.at = "result", !.resp = None].req = call[c].req
      /\ [call[c] EXCEPT !.at = "result", !.resp = None].at = "result"
  BY <1>0 DEF Call, Decided
<1>2. ASSUME NEW at, at # "none",
             \/ \E to : to # "none" /\ Goes(c, at, to)
             \/ \E d : d # "none" /\ CallStep(c, at, Decided(c, d))
             \/ CallStep(c, at, [call[c] EXCEPT !.at = "result", !.resp = None])
      PROVE  RequestsKnown' /\ RunTypes'
  <2>1. call[c].at # "none"
    BY <1>2 DEF Goes, CallStep
  <2> QED
    BY <1>1, <1>2, <2>1, OwnRequest DEF Goes
<1>3. \E at \in {"todo", "lookInput", "lookTool", "offer", "wait", "storeInput", "storeTool", "deny",
                 "result", "pend", "allow", "exec"} :
        \/ \E to : to # "none" /\ Goes(c, at, to)
        \/ \E d : d # "none" /\ CallStep(c, at, Decided(c, d))
        \/ CallStep(c, at, [call[c] EXCEPT !.at = "result", !.resp = None])
  <2>a. CASE CallBegins(c)
    <3>1. call[c].said # None => call[c].said \in {"allow", "deny"}
      BY <1>0 DEF Call
    <3>2. \E to : to # "none" /\ Goes(c, "todo", to)
      BY <2>a, <3>1 DEF CallBegins
    <3> QED
      BY <3>2
  <2>1. CASE AskBegins(c)
    BY <2>1 DEF AskBegins
  <2>2. CASE LookInput(c) \/ LookTool(c)
    BY <2>2 DEF LookInput, LookTool
  <2>3. CASE Offer(c) \/ AskCancelled(c) \/ CallTool(c) \/ CallTimesOut(c)
    BY <2>3 DEF Offer, AskCancelled, CallTool, CallTimesOut
  <2>4. CASE Receive(c)
    <3>1. call[c].resp \in Keys
      BY <1>0, <2>4 DEF Receive, Call, Key
    <3> QED
      BY <2>4, <3>1 DEF Receive, Keys
  <2>5. CASE StoreInput(c) \/ StoreTool(c)
    BY <2>5 DEF StoreInput, StoreTool
  <2>6. CASE CallStops(c)
    BY <2>6 DEF CallStops
  <2> QED
    BY <2>a, <2>1, <2>2, <2>3, <2>4, <2>5, <2>6 DEF CallNext
<1>4. RequestsKnown' /\ RunTypes'
  BY <1>2, <1>3
<1>5. call[c].req \in Requests
  BY <1>3 DEF TypeInv, RequestsKnown, Goes, CallStep
<1>6. AnswerTypes'
  <2> USE DEF TypeInv, AnswerTypes, memory
  <2>1. CASE CallBegins(c) \/ LookInput(c) \/ LookTool(c) \/ Offer(c) \/ Receive(c) \/ AskCancelled(c)
             \/ CallStops(c) \/ CallTimesOut(c)
    <3>1. UNCHANGED <<jobs, byInput, byTool, own>>
      BY <2>1 DEF CallBegins, LookInput, LookTool, Offer, Receive, AskCancelled, CallStops, CallTimesOut,
                  CallUnchanged, uiVars
    <3> QED
      BY <3>1
  <2>2. CASE AskBegins(c)
    <3>1. UNCHANGED <<jobs, byInput, byTool>> /\ (own' = own \/ \E k \in {"y", "n", "p"} : own' = [own EXCEPT ![c] = k])
      BY <2>2 DEF AskBegins
    <3>2. own' \in [CallIds -> Key]
      BY <1>0, <3>1 DEF Key, Keys
    <3> QED
      BY <3>1, <3>2
  <2>3. CASE StoreInput(c)
    BY <1>5, <2>3 DEF StoreInput, InputKey, CallUnchanged, uiVars
  <2>4. CASE StoreTool(c)
    BY <1>5, <2>4 DEF StoreTool, CallUnchanged, uiVars
  <2>5. CASE CallTool(c)
    <3>1. run \in RunIds
      BY <2>5, CurrentRun DEF CallTool
    <3>2. [run |-> run, call |-> c, req |-> call[c].req, at |-> "queue",
           own |-> own[c], resumed |-> call[c].said # None] \in Job
      BY <1>0, <1>5, <3>1 DEF Job
    <3> QED
      BY <2>5, <3>2 DEF CallTool, uiVars
  <2> QED
    BY <2>1, <2>2, <2>3, <2>4, <2>5 DEF CallNext
<1> QED
  BY <1>4, <1>6

LEMMA OtherTyped ==
  ASSUME TypeInv,
         \/ \E j \in jobs : JobNext(j)
         \/ ShowPrompt
         \/ \E k \in Keys : Answer(k)
  PROVE  RunTypes' /\ AnswerTypes' /\ RequestsKnown'
<1>0. call \in [CallIds -> Call] /\ jobs \subseteq Job /\ own \in [CallIds -> Key]
  BY DEF TypeInv, PromptInv, PromptTypes, AnswerTypes
<1>1. RunUnchanged
  BY DEF JobNext, TakePlace, JobEnds, QueueCancelled, JobUnchanged, ShowPrompt, Answer, Answered, UIUnchanged
<1>2. UNCHANGED memory
  BY DEF JobNext, TakePlace, JobEnds, QueueCancelled, JobUnchanged, ShowPrompt, Answer, Answered, UIUnchanged
<1>3. ASSUME NEW c \in CallIds
      PROVE  /\ call'[c].req = call[c].req
             /\ call'[c].at = call[c].at \/ (call[c].at = "exec" /\ call'[c].at = "result")
  <2>1. CASE ShowPrompt
    BY <2>1 DEF ShowPrompt
  <2>2. CASE \E k \in Keys : Answer(k)
    BY <1>0, <2>2 DEF Answer, Answered, Call
  <2>3. CASE \E j \in jobs : JobNext(j)
    BY <1>0, <2>3 DEF JobNext, TakePlace, JobEnds, QueueCancelled, Waited, Call
  <2> QED
    BY <2>1, <2>2, <2>3
<1>4. jobs' \subseteq Job
  <2>1. ASSUME NEW j \in jobs PROVE [j EXCEPT !.at = "run"] \in Job
    BY <1>0 DEF Job
  <2>2. CASE \E j \in jobs : JobNext(j)
    BY <1>0, <2>1, <2>2 DEF JobNext, TakePlace, JobEnds, QueueCancelled
  <2>3. CASE ShowPrompt \/ \E k \in Keys : Answer(k)
    BY <1>0, <2>3 DEF ShowPrompt, Answer, Answered, UIUnchanged, CallUnchanged
  <2> QED
    BY <2>2, <2>3
<1>5. own' \in [CallIds -> Key]
  <2>1. CASE \E j \in jobs : JobNext(j)
    BY <1>0, <2>1 DEF JobNext, TakePlace, JobEnds, QueueCancelled, JobUnchanged, uiVars
  <2>2. CASE ShowPrompt
    BY <1>0, <2>2 DEF ShowPrompt
  <2>3. CASE \E k \in Keys : Answer(k)
    BY <1>0, <2>3 DEF Answer, Answered, Key
  <2> QED
    BY <2>1, <2>2, <2>3
<1>6. AnswerTypes'
  BY <1>2, <1>4, <1>5 DEF TypeInv, AnswerTypes, memory
<1>7. RunTypes'
  BY <1>1 DEF TypeInv, RunTypes, RunUnchanged
<1>8. RequestsKnown'
  BY <1>1, <1>3, RunTypesHave DEF TypeInv, RequestsKnown, RunUnchanged
<1> QED
  BY <1>6, <1>7, <1>8

LEMMA TypeNext == TypeInv /\ [Next]_vars => TypeInv'
<1> SUFFICES ASSUME TypeInv, [Next]_vars PROVE TypeInv'
  OBVIOUS
<1>1. PromptInv' /\ SpansInv'
  BY PromptNext, SpansNext DEF TypeInv
<1>2. CASE UNCHANGED vars
  <2>1. RunTypes' /\ AnswerTypes' /\ RequestsKnown'
    BY <1>2 DEF vars, memory, uiVars, TypeInv, RunTypes, AnswerTypes, RequestsKnown
  <2> QED
    BY <1>1, <2>1 DEF TypeInv
<1>3. CASE Next
  <2>1. RunTypes' /\ AnswerTypes' /\ RequestsKnown'
    BY <1>3, RunTyped, CallTyped, OtherTyped DEF Next
  <2> QED
    BY <1>1, <2>1 DEF TypeInv
<1> QED
  BY <1>2, <1>3

------------------------------------------------------------------------
(* Consent *)

Away    == {"none", "todo", "asked"}
Looking == {"lookInput", "lookTool", "offer", "wait", "storeInput", "storeTool"}

\* A resume decides about call c, or has.
Resuming(c) == phase = "asking" \/ call[c].said # None

\* What is said about a job, of a call that may become one.
Covered(c) == Consented([req |-> call[c].req, own |-> own[c], resumed |-> Resuming(c)])

\* What the approver remembers was granted.
Remembered == byInput \subseteq granted /\ \A t \in byTool : [tool |-> t] \in granted

\* A question on its way is of a run that has begun; when it is this run's, its
\* call waits for an answer, or not any more.
HeardOf(env) ==
    /\ env.run <= run
    /\ env.run = run => \/ call[env.call].at \in {"result", "done"}
                        \/ call[env.call].at = "wait" /\ call[env.call].resp = None
Heard == \A env \in ToSet(carried) \cup {prompt} : env # None => HeardOf(env)

\* The calls of a resume are asked about one by one.
OneByOne ==
    phase = "asking" => \A c, d \in CallIds : c # d => call[c].at \in Away \/ call[d].at \in Away

\* Where a call may be, by what the run does.
CallPlace(c) ==
    /\ phase \notin {"tools", "asking"} => call[c].at \in Away \cup {"result", "done", "paused"}
    /\ phase = "turn1" => call[c].at = "none" /\ own[c] = None
    /\ phase = "asking" => /\ call[c].at \in Away \cup Looking \cup {"result"}
                           /\ call[c].at \in Looking => policy.kind = "rules"
                           /\ call[c].at = "todo" => call[c].said = None
    /\ phase = "tools" => /\ call[c].at # "asked"
                          /\ call[c].at \in Looking \cup {"allow"} => call[c].req.tool \in offered

\* What is known of the user's answer, by where the call is.
CallConsent(c) ==
    /\ phase \in {"tools", "asking"} /\ call[c].at = "todo" /\ call[c].said = None => own[c] = None
    /\ phase = "tools" /\ call[c].at = "todo" /\ call[c].said = "allow" => Covered(c)
    /\ phase = "asking" /\ call[c].at = "asked" /\ call[c].said = "allow" => Covered(c)
    /\ call[c].at \in {"lookInput", "lookTool", "offer"} => own[c] = None
    /\ call[c].at \in Looking => call[c].said = None
    /\ call[c].at \in {"todo", "asked", "lookInput", "lookTool", "offer"} => call[c].resp = None
    /\ call[c].at = "wait" => own[c] = call[c].resp
    /\ call[c].at = "storeInput" \/ (call[c].at = "wait" /\ own[c] = "a") =>
           own[c] = "a" /\ InputKey(call[c].req) \in granted
    /\ call[c].at = "storeTool" \/ (call[c].at = "wait" /\ own[c] = "t") =>
           own[c] = "t" /\ [tool |-> call[c].req.tool] \in granted
    /\ call[c].at = "allow" => Covered(c)

JobsConsent ==
    \A j \in jobs :
      /\ j.run <= run
      /\ j.run = run /\ phase # "idle" => j.req.tool \in offered /\ Consented(j)

\* Where -auto answers what the rules ask about, nothing is postponed.
NothingPostponed ==
    policy.kind = "rules" /\ auto =>
        /\ checkpoint = {}
        /\ phase # "asking"
        /\ \A c \in CallIds : call[c].at \notin {"offer", "wait", "pend", "paused"}

ConsentInv ==
    /\ Remembered
    /\ NothingPostponed
    /\ Heard
    /\ OneByOne
    /\ \A c \in CallIds : CallPlace(c) /\ CallConsent(c)
    /\ JobsConsent

\* What the library's policy allows, its configuration permits.
LEMMA LibraryAllows ==
  ASSUME NEW config, NEW meta, DOMAIN config = DOMAIN SecureConfig,
         PolicyApprove(config, meta) = "allow"
  PROVE  Permits(config, meta)
<1> DEFINE cfg == WithDefaults(config)
<1>1. PolicyAction(cfg, meta) = "allow"
  BY DEF PolicyApprove
<1>2. /\ cfg.shell = "allow" => config.shell = "allow"
      /\ cfg.sensitive = "allow" => config.sensitive = "allow"
      /\ cfg.networkRead = "allow" => config.networkRead = "allow"
  BY DEF WithDefaults, SecureConfig
<1> HIDE DEF cfg
<1>3. CASE "shell" \in meta
  <2>1. cfg.shell = "allow"
    BY <1>1, <1>3 DEF PolicyAction
  <2> QED
    BY <1>2, <1>3, <2>1 DEF Permits
<1>4. CASE "shell" \notin meta /\ meta \cap {"destructive", "approval"} # {}
  <2>1. cfg.sensitive = "allow"
    BY <1>1, <1>4 DEF PolicyAction
  <2> QED
    BY <1>2, <1>4, <2>1 DEF Permits
<1>5. CASE meta \cap {"shell", "destructive", "approval"} = {} /\ "network" \in meta
  <2>1. cfg.networkRead = "allow"
    BY <1>1, <1>5 DEF PolicyAction
  <2> QED
    BY <1>2, <1>5, <2>1 DEF Permits
<1>6. CASE meta \cap {"shell", "destructive", "network"} = {}
  BY <1>6 DEF Permits
<1> QED
  BY <1>3, <1>4, <1>5, <1>6

\* What a resume asks with.
LEMMA ResumedFields ==
  ASSUME NEW req \in Requests
  PROVE  /\ Resumed(req).tool = req.tool /\ Resumed(req).target = req.target
         /\ Resumed(req).compound = req.compound /\ Resumed(req).secret = req.secret
         /\ Resumed(req).meta = {}
         /\ req.category # "mcp" => Resumed(req).category = req.category
BY CallsAssumption DEF Resumed

\* The rules never take a request without metadata for harmless, so that what
\* they allow of one they allow of the request itself, if its category is the same.
LEMMA RulesAlike ==
  ASSUME NEW rules, NEW req \in Requests, req.category # "mcp", Resolve(rules, Resumed(req)) = "allow"
  PROVE  Resolve(rules, req) = "allow"
<1> DEFINE asked == Resumed(req)
<1>1. /\ asked.tool = req.tool /\ asked.category = req.category /\ asked.target = req.target
      /\ asked.meta = {}
  BY ResumedFields
<1> HIDE DEF asked
<1>2. Resolve(rules, asked) = "allow"
  BY DEF asked
<1>3. DefaultPermission(asked) \in {"deny", "ask"}
  BY <1>1 DEF DefaultPermission
<1> DEFINE keys == <<req.tool, req.category, "*">>
           Reply(i) == IF keys[i] \in DOMAIN rules.rules
                       THEN Match(rules.rules[keys[i]], req.target) ELSE NoAction
           says == {i \in 1 .. 3 : Reply(i) # NoAction}
<1>4. Resolve(rules, asked) = IF says # {} THEN Reply(Min(says))
                              ELSE IF rules.global # NoAction THEN rules.global
                              ELSE DefaultPermission(asked)
  BY <1>1 DEF Resolve
<1>5. Resolve(rules, req) = IF says # {} THEN Reply(Min(says))
                            ELSE IF rules.global # NoAction THEN rules.global
                            ELSE DefaultPermission(req)
  BY DEF Resolve
<1> HIDE DEF says, Reply
<1> QED
  BY <1>2, <1>3, <1>4, <1>5

\* The tools a policy disables may change, and not its kind.
LEMMA KindKept ==
  ASSUME RunTypes, NEW d
  PROVE  [policy EXCEPT !.disabled = d].kind = policy.kind
<1>1. PICK p, q \in Policies : policy = [p EXCEPT !.disabled = q.disabled]
  BY Zenon DEF RunTypes
<1>2. p = [k \in DOMAIN p |-> p[k]] /\ "kind" \in DOMAIN p
  BY CallsAssumption
<1>3. "kind" \in DOMAIN policy
  BY <1>1, <1>2
<1> QED
  BY <1>3

LEMMA ConsentKept ==
  ASSUME NEW j, granted \subseteq granted', UNCHANGED <<policy, auto>>, Consented(j)
  PROVE  Consented(j)'
BY DEF Consented

LEMMA CoverKept ==
  ASSUME NEW c, own'[c] = own[c], call'[c].req = call[c].req, Resuming(c)' = Resuming(c),
         granted \subseteq granted', UNCHANGED <<policy, auto>>, Covered(c)
  PROVE  Covered(c)'
BY DEF Covered, Consented

\* A session's policy is of one of two kinds.
LEMMA PolicyKinds ==
  ASSUME RunTypes
  PROVE  /\ policy.kind \in {"rules", "library"}
         /\ policy.kind = "library" => DOMAIN policy.config = DOMAIN SecureConfig
<1>1. PICK p, q \in Policies : policy = [p EXCEPT !.disabled = q.disabled]
  BY Zenon DEF RunTypes
<1>2. /\ p = [k \in DOMAIN p |-> p[k]] /\ "kind" \in DOMAIN p
      /\ p.kind \in {"rules", "library"}
      /\ p.kind = "library" => "config" \in DOMAIN p /\ DOMAIN p.config = DOMAIN SecureConfig
  BY CallsAssumption
<1>3. policy.kind = p.kind /\ ("config" \in DOMAIN p => policy.config = p.config)
  BY <1>1, <1>2
<1> QED
  BY <1>2, <1>3

\* A call the policy or the rules allow, or -auto in the user's place.
LEMMA ActionConsents ==
  ASSUME RunTypes, NEW c \in CallIds, call[c].req \in Requests, own[c] = None, call[c].said = None,
         phase = "tools" \/ (phase = "asking" /\ policy.kind = "rules"),
         \/ Action(c) = "allow"
         \/ phase = "tools" /\ policy.kind = "rules" /\ auto /\ Action(c) \notin {"allow", "deny"}
  PROVE  Covered(c)
<1>1. None \notin Keys
  BY CallsAssumption
<1> DEFINE j == [req |-> call[c].req, own |-> own[c], resumed |-> Resuming(c)]
<1>2. /\ j.own = None /\ j.own \notin {"n", "p"}
      /\ j.req = call[c].req /\ (j.resumed <=> phase = "asking")
  BY <1>1 DEF Resuming, Keys
<1> HIDE DEF j
<1>3. Consented(j) => Covered(c)
  BY DEF Covered, j
<1>4. CASE policy.kind = "library"
  <2>1. Action(c) = PolicyApprove(policy.config, j.req.meta) /\ phase = "tools"
    BY <1>2, <1>4 DEF Action, Asked
  <2>2. PolicyApprove(policy.config, j.req.meta) = "allow"
    BY <1>4, <2>1
  <2>3. Permits(policy.config, j.req.meta)
    BY <1>4, <2>2, LibraryAllows, PolicyKinds
  <2> QED
    BY <1>2, <1>3, <1>4, <2>2, <2>3 DEF Consented
<1>5. CASE policy.kind = "rules"
  <2>1. Action(c) = Decide(policy, IF phase = "asking" THEN Resumed(j.req) ELSE j.req)
    BY <1>2, <1>5 DEF Action, Asked
  <2>2. CASE Action(c) = "allow"
    <3> DEFINE asked == IF phase = "asking" THEN Resumed(j.req) ELSE j.req
    <3>1. Decide(policy, asked) = "allow"
      BY <2>1, <2>2
    <3>2. Resolve(policy, asked) = "allow" /\ ~(asked.tool = "bash" /\ asked.compound)
      BY <3>1 DEF Decide
    <3>3. asked.tool = j.req.tool /\ asked.compound = j.req.compound
      BY <1>2, ResumedFields
    <3>4. Resolve(policy, About(j)) = "allow"
      <4>1. CASE phase = "asking" /\ j.req.category = "mcp"
        BY <1>2, <3>2, <4>1 DEF About
      <4>2. CASE phase = "asking" /\ j.req.category # "mcp"
        BY <1>2, <3>2, <4>2, RulesAlike DEF About
      <4>3. CASE phase # "asking"
        BY <1>2, <3>2, <4>3 DEF About
      <4> QED
        BY <4>1, <4>2, <4>3
    <3>5. ~(j.req.tool = "bash" /\ j.req.compound)
      BY <3>2, <3>3
    <3> QED
      BY <1>2, <1>3, <1>5, <3>4, <3>5 DEF Consented
  <2>3. CASE phase = "tools" /\ auto /\ Action(c) \notin {"allow", "deny"}
    <3>1. Resolve(policy, j.req) # "deny"
      BY <2>1, <2>3 DEF Decide
    <3> QED
      BY <1>2, <1>3, <1>5, <2>3, <3>1 DEF Consented
  <2> QED
    BY <1>5, <2>2, <2>3
<1> QED
  BY <1>4, <1>5, PolicyKinds

LEMMA InitConsent == Init => ConsentInv
<1> SUFFICES ASSUME Init PROVE ConsentInv
  OBVIOUS
<1>1. /\ \A c \in CallIds : call[c] = NoCall /\ own[c] = None
      /\ phase = "idle" /\ byInput = {} /\ byTool = {} /\ carried = <<>> /\ prompt = None
      /\ checkpoint = {} /\ jobs = {}
  BY DEF Init, NoAnswers
<1>2. ToSet(carried) = {}
  BY <1>1 DEF ToSet
<1> QED
  BY <1>1, <1>2, NoCallTyped DEF ConsentInv, Remembered, NothingPostponed, Heard, OneByOne, CallPlace,
     CallConsent, JobsConsent, Away

-----------------------------------------------------------------------------
(* Steps of one call *)

\* What does not concern a call or a job leaves what is known of it.
LEMMA CallKept ==
  ASSUME RunUnchanged, granted \subseteq granted', NEW d, call'[d] = call[d], own'[d] = own[d],
         CallPlace(d), CallConsent(d)
  PROVE  CallPlace(d)' /\ CallConsent(d)'
<1> USE DEF RunUnchanged
<1>1. Covered(d) => Covered(d)'
  BY CoverKept DEF Resuming
<1> QED
  BY <1>1 DEF CallPlace, CallConsent

LEMMA JobsKept ==
  ASSUME JobsConsent, RunUnchanged, granted \subseteq granted', jobs' \subseteq jobs
  PROVE  JobsConsent'
BY ConsentKept DEF JobsConsent, RunUnchanged

\* A call that is not waited for with a question leaves the questions alone.
LEMMA HeardKept ==
  ASSUME Heard, UNCHANGED <<run, carried, prompt>>, NEW c \in CallIds,
         \A d \in CallIds \ {c} : call'[d] = call[d],
         \A e \in Envelope : e.call \in CallIds,
         carried \in Seq(Envelope), prompt \in Envelope \cup {None},
         \/ call'[c].at \in {"result", "done"}
         \/ call[c].at \notin {"result", "done"} /\ ~(call[c].at = "wait" /\ call[c].resp = None)
  PROVE  Heard'
<1> SUFFICES ASSUME NEW env \in ToSet(carried) \cup {prompt}, env # None PROVE HeardOf(env)'
  BY DEF Heard
<1>1. HeardOf(env)
  BY DEF Heard
<1>2. env \in Envelope
  BY DEF ToSet
<1>3. env.call \in CallIds
  BY <1>2
<1> QED
  BY <1>1, <1>3 DEF HeardOf

\* A step of one call that keeps what has to be known of this call keeps all.
LEMMA OneCall ==
  ASSUME TypeInv, ConsentInv, NEW c \in CallIds, NEW at, NEW next, CallStep(c, at, next),
         UNCHANGED granted, \A d \in CallIds \ {c} : own'[d] = own[d],
         Remembered', Heard', JobsConsent', CallPlace(c)', CallConsent(c)',
         \/ phase # "asking"
         \/ at \notin Away
         \/ next.at \in Away
         \/ \A d \in CallIds \ {c} : call[d].at \in Away,
         policy.kind = "rules" /\ auto => next.at \notin {"offer", "wait", "pend", "paused"}
  PROVE  ConsentInv'
<1>1. /\ call \in [CallIds -> Call] /\ RunUnchanged /\ call[c].at = at
      /\ call'[c] = next /\ \A d \in CallIds \ {c} : call'[d] = call[d]
  BY DEF TypeInv, PromptInv, PromptTypes, CallStep
<1>2. \A d \in CallIds : CallPlace(d)' /\ CallConsent(d)'
  BY <1>1, CallKept DEF ConsentInv
<1>3. NothingPostponed'
  BY <1>1 DEF ConsentInv, NothingPostponed, RunUnchanged
<1>4. OneByOne'
  BY <1>1 DEF ConsentInv, OneByOne, RunUnchanged
<1> QED
  BY <1>2, <1>3, <1>4 DEF ConsentInv

\* What the invariants say of one call, in one place.
LEMMA CallKnown ==
  ASSUME TypeInv, ConsentInv, NEW c \in CallIds
  PROVE  /\ call[c] \in Call /\ call \in [CallIds -> Call] /\ own \in [CallIds -> Key]
         /\ CallPlace(c) /\ CallConsent(c)
         /\ call[c].at # "none" => call[c].req \in Requests
         /\ carried \in Seq(Envelope) /\ prompt \in Envelope \cup {None}
         /\ \A e \in Envelope : e.call \in CallIds
         /\ Remembered /\ Heard /\ OneByOne /\ NothingPostponed /\ JobsConsent /\ RunTypes
         /\ None \notin Keys
BY CallsAssumption DEF TypeInv, ConsentInv, PromptInv, PromptTypes, AnswerTypes, RequestsKnown, Envelope

\* Approve has decided, in the agent's turn or for a resume.
LEMMA DecidedConsent ==
  ASSUME TypeInv, ConsentInv, NEW c \in CallIds, NEW at \in Looking, NEW d \in {"allow", "deny", "pend"},
         CallStep(c, at, Decided(c, d)), d = "allow" => Covered(c),
         d = "pend" => ~(policy.kind = "rules" /\ auto),
         ~(call[c].at = "wait" /\ call[c].resp = None),
         UNCHANGED <<granted, own, jobs, carried, prompt>>, Remembered'
  PROVE  ConsentInv'
<1> DEFINE next == Decided(c, d)
<1>0. call[c].at = at /\ RunUnchanged /\ UNCHANGED <<run, phase, policy, auto, offered>>
  BY DEF CallStep, RunUnchanged
<1>1. /\ phase \in {"tools", "asking"}
      /\ phase = "tools" => call[c].req.tool \in offered
  BY <1>0, CallKnown DEF CallPlace, Looking, Away
<1>2. /\ next.req = call[c].req /\ next.resp = None
      /\ next.at = IF phase = "asking" THEN "asked" ELSE d
      /\ phase = "asking" => next.said = IF d = "pend" THEN None ELSE d
  BY CallKnown DEF Decided, Call
<1>3. call'[c] = next /\ \A e \in CallIds \ {c} : call'[e] = call[e]
  BY CallKnown DEF CallStep
<1> HIDE DEF next
<1>4. CallStep(c, at, next)
  BY DEF next
<1>5. Heard'
  BY <1>0, <1>3, CallKnown, HeardKept DEF Looking
<1>6. JobsConsent'
  BY <1>0, CallKnown, JobsKept
<1>7. Covered(c) /\ (phase = "asking" \/ next.said = call[c].said) => Covered(c)'
  BY <1>0, <1>2, <1>3, CoverKept DEF Resuming
<1>12. phase = "tools" => next.said = call[c].said
  BY CallKnown DEF next, Decided, Call
<1>8. CallPlace(c)'
  <2>1. CASE phase = "tools"
    BY <1>0, <1>1, <1>2, <1>3, <2>1 DEF CallPlace, Looking
  <2>2. CASE phase = "asking"
    BY <1>0, <1>2, <1>3, <2>2 DEF CallPlace, Looking, Away
  <2> QED
    BY <1>1, <2>1, <2>2
<1>9. CallConsent(c)'
  <2>1. CASE phase = "tools"
    BY <1>0, <1>2, <1>3, <1>7, <1>12, <2>1 DEF CallConsent, Looking
  <2>2. CASE phase = "asking"
    <3>1. call'[c].at = "asked" /\ call'[c].resp = None /\ phase' = "asking" /\ (call'[c].said = "allow" => Covered(c)')
      BY <1>0, <1>2, <1>3, <1>7, <2>2, CallsAssumption DEF Keys
    <3> QED
      BY <3>1 DEF CallConsent, Looking
  <2> QED
    BY <1>1, <2>1, <2>2
<1>10. phase # "asking" \/ next.at \in Away
  BY <1>2 DEF Away
<1>11. policy.kind = "rules" /\ auto => next.at \notin {"offer", "wait", "pend", "paused"}
  BY <1>2
<1> QED
  BY <1>4, <1>5, <1>6, <1>8, <1>9, <1>10, <1>11, OneCall

\* A call goes where nothing more has to be known of it.
LEMMA OverConsent ==
  ASSUME TypeInv, ConsentInv, NEW c \in CallIds, NEW at, NEW next, CallStep(c, at, next),
         next.req = call[c].req,
         \/ next.at = "result" /\ at # "none"
         \/ next.at \in {"done", "paused", "deny", "exec"} /\ phase = "tools",
         next.at = "result" /\ phase = "asking" => at \notin Away,
         at \in {"result", "wait"} => next.at \in {"result", "done"},
         at # "done", next.at = "paused" => at = "pend",
         UNCHANGED <<granted, own, carried, prompt>>, Remembered', JobsConsent'
  PROVE  ConsentInv'
<1>0. call[c].at = at /\ RunUnchanged /\ UNCHANGED <<run, phase, policy, auto, offered>>
  BY DEF CallStep, RunUnchanged
<1>3. call'[c] = next /\ \A e \in CallIds \ {c} : call'[e] = call[e]
  BY CallKnown DEF CallStep
<1>5. Heard'
  BY <1>0, <1>3, CallKnown, HeardKept
<1>8. CallPlace(c)'
  <2>1. phase = "turn1" => call[c].at = "none" /\ own[c] = None
    BY CallKnown DEF CallPlace
  <2> QED
    BY <1>0, <1>3, <2>1 DEF CallPlace, Looking, Away
<1>9. CallConsent(c)'
  BY <1>0, <1>3 DEF CallConsent, Looking
<1>10. phase # "asking" \/ at \notin Away
  BY <1>0
<1>11. policy.kind = "rules" /\ auto => next.at \notin {"offer", "wait", "pend", "paused"}
  BY <1>0, CallKnown DEF NothingPostponed
<1> QED
  BY <1>5, <1>8, <1>9, <1>10, <1>11, OneCall

LEMMA GoesTo ==
  ASSUME TypeInv, ConsentInv, NEW c \in CallIds, NEW at, NEW to, Goes(c, at, to)
  PROVE  /\ call'[c].at = to /\ call'[c].req = call[c].req /\ call'[c].resp = call[c].resp
         /\ call'[c].said = call[c].said /\ call[c].at = at
         /\ \A d \in CallIds \ {c} : call'[d] = call[d]
         /\ RunUnchanged /\ UNCHANGED <<run, phase, policy, auto, offered>>
         /\ CallStep(c, at, call'[c])
BY CallKnown DEF Goes, CallStep, Call, RunUnchanged

\* ... or on to the next step of the question.
LEMMA OnConsent ==
  ASSUME TypeInv, ConsentInv, NEW c \in CallIds, NEW at, NEW to \in Looking, Goes(c, at, to),
         UNCHANGED <<granted, own, jobs, memory>>, Heard',
         phase \in {"tools", "asking"},
         at \in Looking \/ (phase = "tools" /\ call[c].req.tool \in offered)
                        \/ (phase = "asking" /\ policy.kind = "rules" /\ \A d \in CallIds \ {c} : call[d].at \in Away),
         to \in {"offer", "wait"} => ~(policy.kind = "rules" /\ auto),
         CallConsent(c)'
  PROVE  ConsentInv'
<1>0. /\ call'[c].at = to /\ call'[c].req = call[c].req /\ call[c].at = at
      /\ RunUnchanged /\ UNCHANGED <<run, phase, policy, auto, offered>>
      /\ CallStep(c, at, call'[c])
  BY GoesTo
<1>a. CallPlace(c) /\ Remembered /\ JobsConsent
  BY CallKnown
<1>1. JobsConsent' /\ Remembered'
  BY <1>0, <1>a, JobsKept DEF Remembered, memory
<1>2. CallPlace(c)'
  <2>1. at \in Looking /\ phase = "asking" => policy.kind = "rules"
    BY <1>0, <1>a DEF CallPlace
  <2>2. at \in Looking /\ phase = "tools" => call[c].req.tool \in offered
    BY <1>0, <1>a DEF CallPlace
  <2>3. (phase = "tools" => call[c].req.tool \in offered) /\ (phase = "asking" => policy.kind = "rules")
    BY <2>1, <2>2, <1>a DEF CallPlace
  <2>4. to # "todo" /\ to # "asked" /\ to \notin Away
    BY DEF Looking, Away
  <2> QED
    BY <1>0, <2>3, <2>4 DEF CallPlace
<1>4. at \in Looking => at \notin Away
  BY DEF Away, Looking
<1>5. to \notin {"pend", "paused"}
  BY DEF Looking
<1>6. \A d \in CallIds \ {c} : own'[d] = own[d]
  OBVIOUS
<1>7. CASE phase = "tools"
  BY <1>0, <1>1, <1>2, <1>5, <1>6, <1>7, OneCall
<1>8. CASE at \in Looking
  BY <1>0, <1>1, <1>2, <1>4, <1>5, <1>6, <1>8, OneCall
<1>9. CASE \A d \in CallIds \ {c} : call[d].at \in Away
  BY <1>0, <1>1, <1>2, <1>5, <1>6, <1>9, OneCall
<1> QED
  BY <1>7, <1>8, <1>9

\* No question is on its way about a call elsewhere.
LEMMA GoesHeard ==
  ASSUME TypeInv, ConsentInv, NEW c \in CallIds, NEW at, NEW to, Goes(c, at, to),
         UNCHANGED <<carried, prompt>>,
         to \in {"result", "done"} \/ at \notin {"result", "done", "wait"} \/ (at = "wait" /\ call[c].resp # None)
  PROVE  Heard'
<1>1. /\ call'[c].at = to /\ call[c].at = at /\ run' = run
      /\ \A d \in CallIds \ {c} : call'[d] = call[d]
  BY GoesTo
<1> QED
  BY <1>1, CallKnown, HeardKept

LEMMA BeginsConsent ==
  ASSUME TypeInv, ConsentInv, NEW c \in CallIds, CallBegins(c)
  PROVE  ConsentInv'
<1> DEFINE to == IF call[c].req.tool \notin offered THEN "result"
                 ELSE IF call[c].said # None THEN call[c].said ELSE "lookInput"
<1>1. phase = "tools" /\ Goes(c, "todo", to) /\ UNCHANGED <<jobs, memory, uiVars>>
  BY DEF CallBegins
<1>2. call[c] \in Call /\ CallPlace(c) /\ CallConsent(c) /\ Remembered /\ JobsConsent
  BY CallKnown
<1>3. /\ call[c].req.tool \notin offered => to = "result"
      /\ call[c].req.tool \in offered => to = IF call[c].said # None THEN call[c].said ELSE "lookInput"
      /\ to \in {"result", "allow", "deny", "lookInput"}
      /\ call[c].said \in {"allow", "deny", None}
  BY <1>2 DEF Call
<1> HIDE DEF to
<1>4. /\ call'[c].at = to /\ call'[c].req = call[c].req /\ call[c].at = "todo"
      /\ call'[c].resp = call[c].resp
      /\ RunUnchanged /\ CallStep(c, "todo", call'[c])
  BY <1>1, GoesTo
<1>5. UNCHANGED <<granted, own, jobs, carried, prompt, byInput, byTool>>
  BY <1>1 DEF uiVars, memory
<1>6. Heard'
  BY <1>1, <1>5, GoesHeard
<1>7. JobsConsent' /\ Remembered'
  BY <1>2, <1>4, <1>5, JobsKept DEF Remembered
<1>8. CASE to \in {"result", "deny"}
  BY <1>1, <1>4, <1>5, <1>7, <1>8, OverConsent
<1>9. CASE to \in {"allow", "lookInput"}
  <2>1. CallPlace(c)'
    BY <1>1, <1>3, <1>4, <1>9 DEF CallPlace, RunUnchanged
  <2>2. Covered(c) => Covered(c)'
    BY <1>1, <1>4, <1>5, CoverKept, GoesTo DEF RunUnchanged, Resuming
  <2>4. call'[c].said = call[c].said /\ (to = "lookInput" => call[c].said = None)
    BY <1>1, <1>3, <1>4, GoesTo, CallsAssumption
  <2>3. CallConsent(c)'
    <3>1. to = "lookInput" => own[c] = None
      BY <1>1, <1>2, <1>3, <1>4, CallsAssumption DEF CallConsent
    <3>2. to = "allow" => Covered(c)
      BY <1>1, <1>2, <1>3, <1>4, CallsAssumption DEF CallConsent
    <3> QED
      BY <1>2, <1>4, <1>5, <1>9, <2>2, <2>4, <3>1, <3>2 DEF CallConsent, Looking
  <2> QED
    BY <1>1, <1>4, <1>5, <1>6, <1>7, <1>9, <2>1, <2>3, OneCall
<1> QED
  BY <1>3, <1>8, <1>9

LEMMA AskConsent ==
  ASSUME TypeInv, ConsentInv, NEW c \in CallIds, AskBegins(c)
  PROVE  ConsentInv'
<1>1. /\ phase = "asking" /\ call[c].at = "todo"
      /\ UNCHANGED <<granted, jobs, carried, prompt, byInput, byTool>>
  BY DEF AskBegins, memory
<1>2. call[c] \in Call /\ CallPlace(c) /\ CallConsent(c) /\ Remembered /\ JobsConsent /\ Heard /\ NothingPostponed
  BY CallKnown
<1>3. call[c].said = None /\ own[c] = None
  BY <1>1, <1>2 DEF CallPlace, CallConsent
<1>4. \A d \in CallIds \ {c} : call[d].at \in Away
  <2>1. \A d \in CallIds \ {c} : call[d].at \in {"none", "todo", "asked", "done", "paused"}
    BY <1>1 DEF AskBegins, InTurn
  <2>2. \A d \in CallIds : call[d].at \in Away \cup Looking \cup {"result"}
    BY <1>1, CallKnown DEF CallPlace
  <2> QED
    BY <2>1, <2>2 DEF Away, Looking
<1>5. CASE policy.kind = "rules" /\ Goes(c, "todo", "lookInput") /\ UNCHANGED own
  <2>1. Heard'
    BY <1>1, <1>5, GoesHeard
  <2>2. call'[c].at = "lookInput" /\ call'[c].resp = call[c].resp /\ call'[c].said = call[c].said
    BY <1>5, GoesTo
  <2>3. CallConsent(c)'
    BY <1>1, <1>2, <1>3, <1>5, <2>2 DEF CallConsent
  <2> QED
    BY <1>1, <1>4, <1>5, <2>1, <2>3, OnConsent DEF Looking, memory
<1>6. ASSUME NEW k \in {"y", "n", "p"}, NEW d \in {"allow", "deny", "pend"},
             d = "allow" <=> k = "y",
             own' = [own EXCEPT ![c] = k], CallStep(c, "todo", Decided(c, d))
      PROVE  ConsentInv'
  <2> DEFINE next == Decided(c, d)
  <2>1. /\ next.at = "asked" /\ next.req = call[c].req /\ next.resp = None
        /\ next.said = IF d = "pend" THEN None ELSE d
    BY <1>1, <1>2 DEF Decided, Call
  <2> HIDE DEF next
  <2>2. CallStep(c, "todo", next) /\ RunUnchanged /\ call'[c] = next /\ \A e \in CallIds \ {c} : call'[e] = call[e]
    BY <1>6, CallKnown DEF next, CallStep
  <2>3. own'[c] = k /\ \A e \in CallIds \ {c} : own'[e] = own[e]
    BY <1>6, CallKnown
  <2>4. Heard'
    BY <1>1, <2>2, CallKnown, HeardKept DEF RunUnchanged
  <2>5. JobsConsent' /\ Remembered'
    BY <1>1, <1>2, <2>2, JobsKept DEF Remembered
  <2>6. CallPlace(c)'
    BY <1>1, <2>1, <2>2 DEF CallPlace, Away, Looking, RunUnchanged
  <2>7. k = "y" => Covered(c)'
    BY <2>3 DEF Covered, Consented
  <2>8. CallConsent(c)'
    <3>1. next.said = "allow" => k = "y"
      BY <1>6, <2>1, CallsAssumption
    <3> QED
      BY <1>1, <2>1, <2>2, <2>7, <3>1 DEF CallConsent, Looking, RunUnchanged
  <2> QED
    BY <1>1, <2>1, <2>2, <2>3, <2>4, <2>5, <2>6, <2>8, OneCall DEF Away
<1> QED
  BY <1>5, <1>6 DEF AskBegins

LEMMA LookConsent ==
  ASSUME TypeInv, ConsentInv, NEW c \in CallIds, LookInput(c) \/ LookTool(c)
  PROVE  ConsentInv'
<1>1. UNCHANGED <<granted, own, jobs, carried, prompt, byInput, byTool>>
  BY DEF LookInput, LookTool, CallUnchanged, uiVars, memory
<1>2. /\ call[c] \in Call /\ CallPlace(c) /\ CallConsent(c) /\ Remembered /\ JobsConsent /\ Heard
      /\ NothingPostponed /\ RunTypes /\ None \notin Keys
  BY CallKnown
<1>3. /\ call[c].at \in {"lookInput", "lookTool"} /\ own[c] = None /\ call[c].said = None
      /\ call[c].req \in Requests
  BY <1>2, CallKnown DEF LookInput, LookTool, CallConsent, Looking
<1>4. phase = "tools" \/ (phase = "asking" /\ policy.kind = "rules")
  BY <1>2, <1>3 DEF CallPlace, Looking, Away
<1>5. Remembered'
  BY <1>1, <1>2 DEF Remembered
<1>6. ASSUME NEW at \in {"lookInput", "lookTool"}, NEW d \in {"allow", "deny", "pend"},
             CallStep(c, at, Decided(c, d)), d = "allow" => Covered(c),
             d = "pend" => ~(policy.kind = "rules" /\ auto)
      PROVE  ConsentInv'
  BY <1>1, <1>3, <1>5, <1>6, DecidedConsent DEF Looking
<1>7. ASSUME NEW at \in {"lookInput", "lookTool"}, NEW to \in {"lookTool", "offer"}, Goes(c, at, to),
             to = "offer" => ~auto
      PROVE  ConsentInv'
  <2>1. Heard'
    BY <1>1, <1>7, GoesHeard
  <2>2. CallConsent(c)'
    <3>1. call'[c].at = to /\ call'[c].resp = call[c].resp /\ call'[c].said = call[c].said
      BY <1>7, GoesTo
    <3> QED
      BY <1>1, <1>2, <1>3, <1>7, <3>1 DEF CallConsent
  <2> QED
    BY <1>1, <1>4, <1>7, <2>1, <2>2, OnConsent DEF Looking, memory
<1>8. CASE LookInput(c)
  <2>1. InputKey(call[c].req) \in byInput => Covered(c)
    BY <1>2, <1>3 DEF Remembered, Covered, Consented, Keys
  <2> QED
    BY <1>6, <1>7, <1>8, <2>1 DEF LookInput
<1>9. CASE LookTool(c)
  <2>1. call[c].req.tool \in byTool => Covered(c)
    BY <1>2, <1>3 DEF Remembered, Covered, Consented, Keys
  <2>2. Action(c) = "allow" => Covered(c)
    BY <1>2, <1>3, <1>4, ActionConsents
  <2>3. phase = "asking" => ~auto
    BY <1>2, <1>4 DEF NothingPostponed
  <2>4. policy.kind = "rules" /\ auto /\ Action(c) \notin {"allow", "deny"} => Covered(c)
    BY <1>2, <1>3, <1>4, <2>3, ActionConsents
  <2>5. policy.kind \in {"rules", "library"}
    BY <1>2, PolicyKinds
  <2>6. \/ call[c].req.tool \in byTool /\ CallStep(c, "lookTool", Decided(c, "allow"))
        \/ Action(c) = "allow" /\ CallStep(c, "lookTool", Decided(c, "allow"))
        \/ CallStep(c, "lookTool", Decided(c, "deny"))
        \/ policy.kind = "library" /\ CallStep(c, "lookTool", Decided(c, "pend"))
        \/ /\ policy.kind # "library" /\ auto /\ Action(c) \notin {"allow", "deny"}
           /\ CallStep(c, "lookTool", Decided(c, "allow"))
        \/ ~auto /\ Goes(c, "lookTool", "offer")
    BY <1>9 DEF LookTool
  <2>7. CASE CallStep(c, "lookTool", Decided(c, "allow")) /\ Covered(c)
    BY <1>6, <2>7
  <2>8. CASE CallStep(c, "lookTool", Decided(c, "deny"))
    BY <1>6, <2>8
  <2>9. CASE CallStep(c, "lookTool", Decided(c, "pend")) /\ policy.kind = "library"
    BY <1>6, <2>9
  <2>10. CASE ~auto /\ Goes(c, "lookTool", "offer")
    BY <1>7, <2>10
  <2> QED
    BY <2>1, <2>2, <2>4, <2>5, <2>6, <2>7, <2>8, <2>9, <2>10
<1> QED
  BY <1>8, <1>9

LEMMA OfferConsent ==
  ASSUME TypeInv, ConsentInv, NEW c \in CallIds, Offer(c)
  PROVE  ConsentInv'
<1>1. /\ Goes(c, "offer", "wait") /\ listeners > 0 /\ call[c].at = "offer"
      /\ carried' = Append(carried, [run |-> run, call |-> c])
      /\ UNCHANGED <<granted, own, jobs, prompt, byInput, byTool>>
  BY DEF Offer, CallUnchanged, memory, Goes, CallStep
<1>2. /\ call[c] \in Call /\ CallPlace(c) /\ CallConsent(c) /\ Heard /\ NothingPostponed
      /\ carried \in Seq(Envelope) /\ prompt \in Envelope \cup {None}
  BY CallKnown
<1>3. call'[c].at = "wait" /\ call'[c].resp = call[c].resp /\ run' = run /\ call'[c].said = call[c].said
  BY <1>1, GoesTo
<1>4. own[c] = None /\ phase \in {"tools", "asking"} /\ ~(policy.kind = "rules" /\ auto)
  BY <1>1, <1>2 DEF CallPlace, CallConsent, NothingPostponed, Looking, Away
<1>5. prompt = None /\ Len(carried) = 0
  <2>1. listeners + Len(carried) + (IF prompt = None THEN 0 ELSE 1) = 1 /\ listeners \in Nat
    BY DEF TypeInv, PromptInv, PromptTypes, PromptsReachable
  <2> QED
    BY <1>1, <1>2, <2>1
<1>6. call[c].resp = None /\ call[c].said = None
  BY <1>1, <1>2 DEF CallConsent, Looking
<1>7. Heard'
  <2>1. carried = <<>>
    BY <1>2, <1>5
  <2>2. ToSet(carried') = {[run |-> run, call |-> c]}
    BY <1>1, <2>1 DEF ToSet
  <2>3. run \in Nat
    BY DEF TypeInv, PromptInv, PromptTypes
  <2> QED
    BY <1>1, <1>3, <1>5, <1>6, <2>2, <2>3 DEF Heard, HeardOf
<1>8. CallConsent(c)'
  BY <1>1, <1>3, <1>4, <1>6, CallsAssumption DEF CallConsent, Keys
<1> QED
  BY <1>1, <1>4, <1>7, <1>8, OnConsent DEF Looking, memory

LEMMA ReceiveConsent ==
  ASSUME TypeInv, ConsentInv, NEW c \in CallIds, Receive(c)
  PROVE  ConsentInv'
<1>1. call[c].resp # None /\ UNCHANGED <<granted, own, jobs, carried, prompt, byInput, byTool>>
  BY DEF Receive, CallUnchanged, uiVars, memory
<1>2. /\ call[c] \in Call /\ CallPlace(c) /\ CallConsent(c) /\ Remembered /\ JobsConsent /\ Heard
      /\ NothingPostponed /\ None \notin Keys
  BY CallKnown
<1>3. call[c].resp \in Keys
  BY <1>1, <1>2 DEF Call, Key
<1>4. \/ call[c].resp = "y" /\ CallStep(c, "wait", Decided(c, "allow"))
      \/ call[c].resp = "n" /\ CallStep(c, "wait", Decided(c, "deny"))
      \/ call[c].resp = "p" /\ CallStep(c, "wait", Decided(c, "pend"))
      \/ call[c].resp = "a" /\ Goes(c, "wait", "storeInput")
      \/ call[c].resp = "t" /\ Goes(c, "wait", "storeTool")
  BY <1>3 DEF Receive, Keys
<1>5. call[c].at = "wait"
  BY <1>4 DEF Goes, CallStep
<1>6. /\ own[c] = call[c].resp /\ phase \in {"tools", "asking"} /\ ~(policy.kind = "rules" /\ auto)
      /\ own[c] = "a" => InputKey(call[c].req) \in granted
      /\ own[c] = "t" => [tool |-> call[c].req.tool] \in granted
      /\ call[c].said = None
  BY <1>2, <1>5 DEF CallPlace, CallConsent, NothingPostponed, Looking, Away
<1>7. Remembered'
  BY <1>1, <1>2 DEF Remembered
<1>8. ASSUME NEW d \in {"allow", "deny", "pend"}, CallStep(c, "wait", Decided(c, d)),
             d = "allow" => call[c].resp = "y"
      PROVE  ConsentInv'
  <2>1. d = "allow" => Covered(c)
    BY <1>6, <1>8 DEF Covered, Consented
  <2> QED
    BY <1>1, <1>5, <1>6, <1>7, <1>8, <2>1, DecidedConsent DEF Looking
<1>9. ASSUME NEW to \in {"storeInput", "storeTool"}, Goes(c, "wait", to),
             to = "storeInput" => own[c] = "a", to = "storeTool" => own[c] = "t"
      PROVE  ConsentInv'
  <2>1. Heard'
    BY <1>1, <1>9, GoesHeard
  <2>2. call'[c].at = to /\ call'[c].req = call[c].req /\ call'[c].said = call[c].said
    BY <1>9, GoesTo
  <2>3. CallConsent(c)'
    BY <1>1, <1>6, <1>9, <2>2 DEF CallConsent, InputKey
  <2> QED
    BY <1>1, <1>6, <1>9, <2>1, <2>3, OnConsent DEF Looking, memory
<1> QED
  BY <1>4, <1>6, <1>8, <1>9

\* What is stored has been granted.
LEMMA StoreConsent ==
  ASSUME TypeInv, ConsentInv, NEW c \in CallIds, StoreInput(c) \/ StoreTool(c)
  PROVE  ConsentInv'
<1>1. PICK at \in {"storeInput", "storeTool"} :
        /\ CallStep(c, at, Decided(c, "allow"))
        /\ at = "storeInput" => byInput' = byInput \cup {InputKey(call[c].req)} /\ byTool' = byTool
        /\ at = "storeTool" => byTool' = byTool \cup {call[c].req.tool} /\ byInput' = byInput
        /\ UNCHANGED <<granted, own, jobs, carried, prompt>>
  BY DEF StoreInput, StoreTool, CallUnchanged, uiVars
<1>2. CallConsent(c) /\ Remembered /\ call[c].at = at
  BY <1>1, CallKnown DEF CallStep
<1>3. /\ own[c] \in {"a", "t"}
      /\ at = "storeInput" => InputKey(call[c].req) \in granted
      /\ at = "storeTool" => [tool |-> call[c].req.tool] \in granted
  BY <1>1, <1>2 DEF CallConsent
<1>4. Covered(c)
  BY <1>3 DEF Covered, Consented
<1>5. Remembered'
  BY <1>1, <1>2, <1>3 DEF Remembered
<1> QED
  BY <1>1, <1>2, <1>4, <1>5, DecidedConsent DEF Looking

LEMMA StopsConsent ==
  ASSUME TypeInv, ConsentInv, NEW c \in CallIds,
         AskCancelled(c) \/ CallStops(c) \/ CallTimesOut(c)
  PROVE  ConsentInv'
<1>1. UNCHANGED <<granted, own, jobs, carried, prompt, byInput, byTool>>
  BY DEF AskCancelled, CallStops, CallTimesOut, CallUnchanged, uiVars, memory
<1>2. Remembered'
  BY <1>1, CallKnown DEF Remembered
<1>3. RunUnchanged => JobsConsent'
  BY <1>1, CallKnown, JobsKept
<1>4. CASE AskCancelled(c)
  <2> DEFINE next == [call[c] EXCEPT !.at = "result", !.resp = None]
  <2>1. PICK at \in {"offer", "wait"} : CallStep(c, at, next)
    BY <1>4 DEF AskCancelled
  <2>2. next.at = "result" /\ next.req = call[c].req
    BY CallKnown DEF Call
  <2> HIDE DEF next
  <2>3. RunUnchanged
    BY <2>1 DEF CallStep
  <2> QED
    BY <1>1, <1>2, <1>3, <2>1, <2>2, <2>3, OverConsent DEF Away
<1>5. ASSUME NEW at, NEW to, Goes(c, at, to),
             \/ at = "exec" /\ to = "result"
             \/ phase = "tools" /\ at \in {"deny", "result"} /\ to = "done"
             \/ phase = "tools" /\ at = "pend" /\ to = "paused"
      PROVE  ConsentInv'
  <2>1. CallStep(c, at, call'[c]) /\ call'[c].at = to /\ call'[c].req = call[c].req /\ RunUnchanged
    BY <1>5, GoesTo
  <2> QED
    BY <1>1, <1>2, <1>3, <1>5, <2>1, OverConsent DEF Away
<1>6. CASE CallStops(c)
  BY <1>5, <1>6 DEF CallStops
<1>7. CASE CallTimesOut(c)
  BY <1>5, <1>7 DEF CallTimesOut
<1> QED
  BY <1>4, <1>6, <1>7

\* The job is of a call that is covered.
LEMMA ToolConsent ==
  ASSUME TypeInv, ConsentInv, NEW c \in CallIds, CallTool(c)
  PROVE  ConsentInv'
<1> DEFINE job == [run |-> run, call |-> c, req |-> call[c].req, at |-> "queue",
                   own |-> own[c], resumed |-> call[c].said # None]
<1>1. /\ phase = "tools" /\ Goes(c, "allow", "exec") /\ jobs' = jobs \cup {job}
      /\ UNCHANGED <<granted, own, carried, prompt, byInput, byTool>>
  BY DEF CallTool, uiVars, memory
<1>2. /\ CallStep(c, "allow", call'[c]) /\ call'[c].at = "exec" /\ call'[c].req = call[c].req
      /\ RunUnchanged /\ call[c].at = "allow"
  BY <1>1, GoesTo
<1>3. CallPlace(c) /\ CallConsent(c) /\ Remembered /\ JobsConsent
  BY CallKnown
<1>4. Covered(c) /\ call[c].req.tool \in offered
  BY <1>1, <1>2, <1>3 DEF CallPlace, CallConsent
<1>5. Consented(job)
  BY <1>1, <1>4 DEF Covered, Consented, About, Resuming
<1>6. job.run = run /\ job.req.tool \in offered /\ run \in Nat
  BY <1>4 DEF TypeInv, PromptInv, PromptTypes
<1> HIDE DEF job
<1>7. JobsConsent'
  <2> SUFFICES ASSUME NEW j \in jobs'
               PROVE  (j.run <= run /\ (j.run = run /\ phase # "idle" => j.req.tool \in offered /\ Consented(j)))'
    BY DEF JobsConsent
  <2>1. j.run <= run /\ (j.run = run /\ phase # "idle" => j.req.tool \in offered /\ Consented(j))
    BY <1>1, <1>3, <1>5, <1>6 DEF JobsConsent
  <2>2. Consented(j) => Consented(j)'
    BY <1>1, <1>2, ConsentKept DEF RunUnchanged
  <2> QED
    BY <1>2, <2>1, <2>2 DEF RunUnchanged
<1>8. Remembered'
  BY <1>1, <1>3 DEF Remembered
<1> QED
  BY <1>1, <1>2, <1>7, <1>8, OverConsent DEF Away

LEMMA CallConsents ==
  ASSUME TypeInv, ConsentInv, NEW c \in CallIds, CallNext(c)
  PROVE  ConsentInv'
BY BeginsConsent, AskConsent, LookConsent, OfferConsent, ReceiveConsent, StoreConsent, StopsConsent,
   ToolConsent DEF CallNext

LEMMA JobsConsents ==
  ASSUME TypeInv, ConsentInv, NEW j \in jobs, JobNext(j)
  PROVE  ConsentInv'
<1>0. /\ JobUnchanged /\ RunUnchanged /\ UNCHANGED <<granted, own, carried, prompt, byInput, byTool>>
      /\ j.call \in CallIds /\ j \in Job
  BY DEF JobNext, TakePlace, JobEnds, QueueCancelled, JobUnchanged, uiVars, memory, TypeInv, AnswerTypes, Job
<1>1. JobsConsent'
  <2>1. [j EXCEPT !.at = "run"].run = j.run /\ [j EXCEPT !.at = "run"].req = j.req
        /\ [j EXCEPT !.at = "run"].own = j.own /\ [j EXCEPT !.at = "run"].resumed = j.resumed
    BY <1>0 DEF Job
  <2>2. \A i \in jobs' : \E k \in jobs : i.run = k.run /\ i.req = k.req /\ i.own = k.own /\ i.resumed = k.resumed
    BY <2>1 DEF JobNext, TakePlace, JobEnds, QueueCancelled
  <2> SUFFICES ASSUME NEW i \in jobs'
               PROVE  (i.run <= run /\ (i.run = run /\ phase # "idle" => i.req.tool \in offered /\ Consented(i)))'
    BY DEF JobsConsent
  <2>3. PICK k \in jobs : i.run = k.run /\ i.req = k.req /\ i.own = k.own /\ i.resumed = k.resumed
    BY <2>2
  <2>4. k.run <= run /\ (k.run = run /\ phase # "idle" => k.req.tool \in offered /\ Consented(k))
    BY CallKnown, <1>0 DEF JobsConsent
  <2>5. Consented(k) => Consented(i)'
    BY <1>0, <2>3 DEF Consented, About, RunUnchanged
  <2> QED
    BY <1>0, <2>3, <2>4, <2>5 DEF RunUnchanged
<1>2. Remembered'
  BY <1>0, CallKnown DEF Remembered
<1>3. CASE call' = call
  <2>1. Heard' /\ OneByOne' /\ NothingPostponed'
    BY <1>0, <1>3 DEF ConsentInv, Heard, HeardOf, OneByOne, NothingPostponed, RunUnchanged
  <2>2. \A c \in CallIds : CallPlace(c)' /\ CallConsent(c)'
    BY <1>0, <1>3, CallKept DEF ConsentInv
  <2> QED
    BY <1>1, <1>2, <2>1, <2>2 DEF ConsentInv
<1>4. CASE Waited(j) /\ call' = [call EXCEPT ![j.call].at = "result"]
  <2> DEFINE c == j.call
  <2>1. c \in CallIds /\ call[c].at = "exec"
    BY <1>0, <1>4 DEF Waited
  <2>2. Goes(c, "exec", "result")
    BY <1>0, <1>4, <2>1 DEF Goes, CallStep
  <2> HIDE DEF c
  <2>3. CallStep(c, "exec", call'[c]) /\ call'[c].at = "result" /\ call'[c].req = call[c].req
    BY <2>1, <2>2, GoesTo
  <2> QED
    BY <1>0, <1>1, <1>2, <2>1, <2>3, OverConsent DEF Away
<1> QED
  BY <1>3, <1>4 DEF JobNext, TakePlace, JobEnds, QueueCancelled

LEMMA ShowConsent ==
  ASSUME TypeInv, ConsentInv, ShowPrompt
  PROVE  ConsentInv'
<1>0. /\ carried # <<>> /\ prompt' = Head(carried) /\ carried' = Tail(carried)
      /\ RunUnchanged /\ UNCHANGED <<jobs, byInput, byTool, call, own, granted>>
  BY DEF ShowPrompt, UIUnchanged, CallUnchanged, memory
<1>1. carried \in Seq(Envelope)
  BY DEF TypeInv, PromptInv, PromptTypes
<1>2. ToSet(carried') \cup {prompt'} \subseteq ToSet(carried)
  BY <1>0, <1>1 DEF ToSet
<1>3. Heard'
  <2>1. \A env \in ToSet(carried) : env # None => HeardOf(env)'
    BY <1>0 DEF ConsentInv, Heard, HeardOf, RunUnchanged
  <2> QED
    BY <1>2, <2>1 DEF Heard
<1>4. OneByOne' /\ NothingPostponed' /\ Remembered'
  BY <1>0 DEF ConsentInv, OneByOne, NothingPostponed, Remembered, RunUnchanged
<1>5. JobsConsent' /\ \A c \in CallIds : CallPlace(c)' /\ CallConsent(c)'
  BY <1>0, JobsKept, CallKept DEF ConsentInv
<1> QED
  BY <1>3, <1>4, <1>5 DEF ConsentInv

LEMMA AnswerConsent ==
  ASSUME TypeInv, ConsentInv, NEW k \in Keys, Answer(k)
  PROVE  ConsentInv'
<1>0. /\ prompt # None /\ prompt' = None /\ RunUnchanged /\ UNCHANGED <<jobs, byInput, byTool, carried>>
      /\ call' = IF Waiting(prompt) THEN [call EXCEPT ![prompt.call].resp = k] ELSE call
      /\ own' = IF prompt.run = run THEN [own EXCEPT ![prompt.call] = k] ELSE own
      /\ granted \subseteq granted'
      /\ prompt.run = run /\ k = "a" => InputKey(call[prompt.call].req) \in granted'
      /\ prompt.run = run /\ k = "t" => [tool |-> call[prompt.call].req.tool] \in granted'
  BY DEF Answer, Answered, UIUnchanged, CallUnchanged, memory
<1>1. /\ prompt \in Envelope /\ prompt.call \in CallIds /\ carried \in Seq(Envelope)
      /\ call \in [CallIds -> Call] /\ own \in [CallIds -> Key]
  BY <1>0 DEF TypeInv, PromptInv, PromptTypes, AnswerTypes, Envelope
<1>2. HeardOf(prompt)
  BY <1>0 DEF ConsentInv, Heard
<1>3. Heard'
  <2>1. listeners + Len(carried) + (IF prompt = None THEN 0 ELSE 1) = 1 /\ listeners \in Nat
    BY DEF TypeInv, PromptInv, PromptTypes, PromptsReachable
  <2>2. Len(carried) = 0
    BY <1>0, <1>1, <2>1
  <2>3. ToSet(carried') = {}
    BY <1>0, <1>1, <2>2 DEF ToSet
  <2> QED
    BY <1>0, <2>3 DEF Heard
<1>4. \A c \in CallIds : call'[c].at = call[c].at /\ call'[c].req = call[c].req /\ call'[c].said = call[c].said
  BY <1>0, <1>1 DEF Call
<1>5. OneByOne' /\ NothingPostponed' /\ Remembered' /\ JobsConsent'
  BY <1>0, <1>4, JobsKept DEF ConsentInv, OneByOne, NothingPostponed, Remembered, RunUnchanged
<1>6. ASSUME NEW c \in CallIds PROVE CallPlace(c)' /\ CallConsent(c)'
  <2>1. CallPlace(c) /\ CallConsent(c)
    BY DEF ConsentInv
  <2>2. CASE c # prompt.call \/ prompt.run # run
    <3>1. call'[c] = call[c] /\ own'[c] = own[c]
      BY <1>0, <1>1, <2>2 DEF Waiting
    <3> QED
      BY <1>0, <2>1, <3>1, CallKept
  <2>3. CASE c = prompt.call /\ prompt.run = run
    <3>1. call[c].at \in {"result", "done"} \/ (call[c].at = "wait" /\ call[c].resp = None)
      BY <1>2, <2>3 DEF HeardOf
    <3>2. phase' # "turn1" /\ phase' = phase
      BY <1>0, <2>1, <3>1 DEF CallPlace, RunUnchanged
    <3>3. CallPlace(c)'
      BY <1>0, <1>4, <2>1, <3>2 DEF CallPlace, RunUnchanged
    <3>4. own'[c] = k /\ (call[c].at = "wait" => call'[c].resp = k)
      BY <1>0, <1>1, <2>3 DEF Waiting, Call
    <3>5. InputKey(call'[c].req) = InputKey(call[c].req)
      BY <1>4 DEF InputKey
    <3>6. CASE call[c].at \in {"result", "done"}
      <4>1. call'[c].at \in {"result", "done"}
        BY <1>4, <3>6
      <4> QED
        BY <3>3, <4>1 DEF CallConsent, Looking
    <3>7. CASE call[c].at = "wait"
      <4>1. call'[c].at = "wait" /\ own'[c] = k /\ call'[c].resp = k /\ call'[c].req = call[c].req
        BY <1>4, <3>4, <3>7
      <4>2. k = "a" => InputKey(call'[c].req) \in granted'
        BY <1>0, <2>3, <3>5
      <4>3. k = "t" => [tool |-> call'[c].req.tool] \in granted'
        BY <1>0, <2>3, <4>1
      <4>4. CallConsent(c)'
        BY <1>4, <2>1, <3>7, <4>1, <4>2, <4>3 DEF CallConsent, InputKey, Looking
      <4> QED
        BY <3>3, <4>4
    <3> QED
      BY <3>1, <3>6, <3>7
  <2> QED
    BY <2>2, <2>3
<1> QED
  BY <1>3, <1>5, <1>6 DEF ConsentInv

-----------------------------------------------------------------------------
(* Steps of the run *)

\* Outside of a turn's calls nobody looks anything up.
Quiet == phase \notin {"tools", "asking"}

\* From where calls have settled to where they have.
LEMMA QuietConsent ==
  ASSUME TypeInv, ConsentInv, Quiet', phase' # "turn1",
         \A c \in CallIds : call[c].at \in Away \cup {"result", "done", "paused"},
         phase = "idle" => phase' = "idle",
         checkpoint' \subseteq checkpoint \cup Paused,
         UNCHANGED <<policy, auto, offered, run, call, jobs, byInput, byTool, carried, prompt, own, granted>>
  PROVE  ConsentInv'
<1>1. Remembered' /\ Heard'
  BY DEF ConsentInv, Remembered, Heard, HeardOf
<1>2. NothingPostponed'
  BY DEF ConsentInv, NothingPostponed, Quiet, Paused
<1>3. OneByOne'
  BY DEF OneByOne, Quiet
<1>4. ASSUME NEW c \in CallIds PROVE CallPlace(c)' /\ CallConsent(c)'
  <2>1. CallPlace(c)'
    BY DEF CallPlace, Quiet
  <2>2. CallConsent(c)'
    BY DEF ConsentInv, CallConsent, Quiet, Away, Looking
  <2> QED
    BY <2>1, <2>2
<1>5. JobsConsent'
  <2>1. \A j \in jobs : Consented(j) => Consented(j)'
    BY ConsentKept
  <2> QED
    BY <2>1 DEF ConsentInv, JobsConsent
<1> QED
  BY <1>1, <1>2, <1>3, <1>4, <1>5 DEF ConsentInv

\* A new run: no question is about it yet, and no job is its own.
LEMMA NewRunConsent ==
  ASSUME TypeInv, ConsentInv, run' = run + 1,
         \A c \in CallIds : own'[c] = None /\ call'[c].at \in {"none", "todo"},
         \A c \in CallIds : call'[c].at = "todo" => call'[c].said = None /\ call'[c].resp = None,
         \/ phase' = "turn1" /\ \A c \in CallIds : call'[c].at = "none"
         \/ phase' = "asking" /\ checkpoint # {},
         UNCHANGED <<policy, auto, jobs, byInput, byTool, carried, prompt, granted, checkpoint>>
  PROVE  ConsentInv'
<1>0. run \in Nat
  BY DEF TypeInv, PromptInv, PromptTypes
<1>1. \A env \in RunIds : env <= run => env # run + 1 /\ env <= run + 1
  BY <1>0, CallsAssumption
<1>2. Heard'
  <2> SUFFICES ASSUME NEW env \in ToSet(carried) \cup {prompt}, env # None PROVE HeardOf(env)'
    BY DEF Heard
  <2>0. HeardOf(env)
    BY DEF ConsentInv, Heard
  <2>a. carried \in Seq(Envelope) /\ prompt \in Envelope \cup {None}
    BY DEF TypeInv, PromptInv, PromptTypes
  <2>b. env \in Envelope
    BY <2>a DEF ToSet
  <2>1. HeardOf(env) /\ env.run \in RunIds
    BY <2>0, <2>b DEF Envelope
  <2> QED
    BY <1>1, <2>1 DEF HeardOf
<1>3. JobsConsent'
  <2>1. \A j \in jobs : j.run \in RunIds
    BY DEF TypeInv, AnswerTypes, Job
  <2> QED
    BY <1>1, <2>1 DEF ConsentInv, JobsConsent
<1>5. Remembered' /\ OneByOne' /\ NothingPostponed'
  BY DEF ConsentInv, Remembered, OneByOne, NothingPostponed, Away
<1>6. ASSUME NEW c \in CallIds PROVE CallPlace(c)' /\ CallConsent(c)'
  BY CallsAssumption DEF CallPlace, CallConsent, Away, Looking, Keys
<1> QED
  BY <1>2, <1>3, <1>5, <1>6 DEF ConsentInv

LEMMA ReloadConsent ==
  ASSUME TypeInv, ConsentInv, Reload
  PROVE  ConsentInv'
<1>1. PICK p \in Policies :
        /\ p.kind = policy.kind
        /\ \/ policy' = p /\ NewApprover
           \/ policy' = [policy EXCEPT !.disabled = p.disabled] /\ UNCHANGED <<memory, granted>>
  BY DEF Reload
<1>2. /\ phase = "idle" /\ UNCHANGED <<auto, offered, run, phase, checkpoint, call, jobs, carried, prompt, own>>
  BY DEF Reload, CanSubmit
<1>3. policy'.kind = policy.kind
  BY <1>1, KindKept DEF TypeInv
<1>4. Remembered'
  BY <1>1 DEF NewApprover, memory, ConsentInv, Remembered
<1>5. Heard' /\ OneByOne' /\ NothingPostponed'
  BY <1>2, <1>3 DEF ConsentInv, Heard, HeardOf, OneByOne, NothingPostponed
<1>6. JobsConsent'
  BY <1>2 DEF ConsentInv, JobsConsent
<1>7. ASSUME NEW c \in CallIds PROVE CallPlace(c)' /\ CallConsent(c)'
  <2>1. CallPlace(c) /\ CallConsent(c)
    BY DEF ConsentInv
  <2>2. CallPlace(c)'
    BY <1>2, <2>1 DEF CallPlace
  <2>3. call[c].at \in Away \cup {"result", "done", "paused"}
    BY <1>2, <2>1 DEF CallPlace
  <2>4. CallConsent(c)'
    BY <1>2, <2>1, <2>3 DEF CallConsent, Away, Looking
  <2> QED
    BY <2>2, <2>4
<1> QED
  BY <1>4, <1>5, <1>6, <1>7 DEF ConsentInv

LEMMA AsideConsent ==
  ASSUME ConsentInv,
         UNCHANGED <<policy, auto, offered, run, phase, checkpoint, call, jobs, byInput, byTool, carried,
                     prompt, own, granted>>
  PROVE  ConsentInv'
<1>1. ASSUME NEW c \in CallIds PROVE CallPlace(c)' /\ CallConsent(c)'
  <2>1. Covered(c) => Covered(c)'
    BY CoverKept DEF Resuming
  <2>2. CallPlace(c) /\ CallConsent(c)
    BY DEF ConsentInv
  <2> QED
    BY <2>1, <2>2 DEF CallPlace, CallConsent
<1>2. JobsConsent'
  <2>1. \A j \in jobs : Consented(j) => Consented(j)'
    BY ConsentKept
  <2> QED
    BY <2>1 DEF ConsentInv, JobsConsent
<1>3. Remembered' /\ Heard' /\ OneByOne' /\ NothingPostponed'
  BY DEF ConsentInv, Remembered, Heard, HeardOf, OneByOne, NothingPostponed
<1> QED
  BY <1>1, <1>2, <1>3 DEF ConsentInv

LEMMA RunConsents ==
  ASSUME TypeInv, ConsentInv, Submit \/ SubmitResume \/ Reload \/ TurnRetries \/ Cancel \/ RunNext
  PROVE  ConsentInv'
<1>0. /\ Turns = {"turn1", "turn2"} /\ call \in [CallIds -> Call] /\ own \in [CallIds -> Key]
      /\ carried \in Seq(Envelope) /\ prompt \in Envelope \cup {None}
      /\ \A c \in CallIds : CallPlace(c) /\ CallConsent(c)
  BY CallsAssumption DEF TypeInv, PromptInv, PromptTypes, AnswerTypes, ConsentInv
<1>1. CASE Submit
  <2>1. /\ run' = run + 1 /\ phase' = "turn1" /\ \A c \in CallIds : call'[c] = NoCall /\ own'[c] = None
        /\ UNCHANGED <<policy, auto, jobs, byInput, byTool, carried, prompt, granted, checkpoint>>
    BY <1>1 DEF Submit, NewAgent, memory
  <2> QED
    BY <2>1, NoCallTyped, NewRunConsent
<1>2. CASE SubmitResume
  <2>1. /\ run' = run + 1 /\ phase' = "asking" /\ checkpoint # {}
        /\ \A c \in CallIds : own'[c] = None
        /\ UNCHANGED <<policy, auto, jobs, byInput, byTool, carried, prompt, granted, checkpoint>>
    BY <1>2 DEF SubmitResume, NewAgent, memory
  <2>2. \A c \in CallIds :
          call'[c] = IF c \in checkpoint
                     THEN [NoCall EXCEPT !.at = "todo", !.req = call[c].req] ELSE NoCall
    BY <1>2 DEF SubmitResume
  <2>3. ASSUME NEW c \in CallIds
        PROVE  /\ call'[c].at \in {"none", "todo"}
               /\ call'[c].at = "todo" => call'[c].said = None /\ call'[c].resp = None
    <3>1. CASE c \in checkpoint
      <4>1. call'[c] = [NoCall EXCEPT !.at = "todo", !.req = call[c].req]
        BY <2>2, <3>1
      <4> QED
        BY <4>1 DEF NoCall
    <3>2. CASE c \notin checkpoint
      BY <2>2, <3>2, NoCallTyped
    <3> QED
      BY <3>1, <3>2
  <2> QED
    BY <2>1, <2>3, NewRunConsent
<1>3. CASE Reload
  BY <1>3, ReloadConsent
<1>5. CASE TurnStarts \/ TurnRetries \/ Cancel
  BY <1>5, AsideConsent DEF TurnStarts, TurnRetries, Cancel, AgentUnchanged, Outside, memory
<1>6. ASSUME NEW to \in {"ending", "over", "idle", "turn2"}, phase' = to, phase # "idle",
             checkpoint' \subseteq checkpoint \cup Paused,
             \A c \in CallIds : call[c].at \in Away \cup {"result", "done", "paused"},
             Outside, UNCHANGED <<run, call, own>>
      PROVE  ConsentInv'
  BY <1>6, QuietConsent DEF Quiet, Outside, memory
<1>7. CASE TurnFails \/ RunEnds \/ RunDone
  <2>1. /\ phase \in {"turn1", "turn2", "ending", "over"} /\ phase' \in {"ending", "over", "idle"}
        /\ Outside /\ UNCHANGED <<run, call, own, checkpoint>>
    BY <1>0, <1>7 DEF TurnFails, RunEnds, RunDone, AgentUnchanged
  <2>2. \A c \in CallIds : call[c].at \in Away \cup {"result", "done", "paused"}
    BY <1>0, <2>1 DEF CallPlace
  <2> QED
    BY <1>6, <2>1, <2>2
<1>8. CASE AskingFails
  <2>1. /\ phase = "asking" /\ phase' = "over" /\ Outside /\ UNCHANGED <<run, call, own, checkpoint>>
    BY <1>8 DEF AskingFails
  <2>2. PICK c \in CallIds : call[c].at = "result"
    BY <1>8 DEF AskingFails
  <2>3. \A d \in CallIds \ {c} : call[d].at \in Away
    BY <2>1, <2>2 DEF ConsentInv, OneByOne, Away
  <2> QED
    BY <1>6, <2>1, <2>2, <2>3
<1>9. CASE ToolsDone
  <2>1. /\ phase = "tools" /\ phase' \in {"ending", "turn2"} /\ Outside /\ UNCHANGED <<run, call, own>>
        /\ checkpoint' \subseteq checkpoint \cup Paused
        /\ \A c \in CallIds : Settled(c)
    BY <1>9 DEF ToolsDone
  <2>2. \A c \in CallIds : call[c].at \in Away \cup {"result", "done", "paused"}
    BY <2>1 DEF Settled, Away
  <2> QED
    BY <1>6, <2>1, <2>2
<1>10. CASE TurnEnds
  <2>1. /\ phase \in {"turn1", "turn2"} /\ Outside /\ UNCHANGED <<run, own, cancelled>>
    BY <1>0, <1>10 DEF TurnEnds
  <2>2. CASE phase' = "ending" /\ checkpoint' = {} /\ UNCHANGED <<asks, call>>
    <3>1. \A c \in CallIds : call[c].at \in Away \cup {"result", "done", "paused"}
      BY <1>0, <2>1 DEF CallPlace
    <3> QED
      BY <1>6, <2>1, <2>2, <3>1
  <2>3. ASSUME NEW C \in SUBSET CallIds, NEW req \in [C -> Requests], phase = "turn1", phase' = "tools",
               checkpoint' = checkpoint,
               call' = [c \in CallIds |-> IF c \in C
                                          THEN [NoCall EXCEPT !.at = "todo", !.req = req[c]] ELSE NoCall]
        PROVE  ConsentInv'
    <3>0. UNCHANGED <<policy, auto, offered, jobs, byInput, byTool, carried, prompt, granted>>
      BY <2>1 DEF Outside, memory
    <3>1. \A c \in CallIds : /\ call'[c].at \in {"none", "todo"}
                             /\ call'[c].at = "todo" => call'[c].said = None /\ call'[c].resp = None
      BY <2>3 DEF NoCall
    <3>2. \A c \in CallIds : call[c].at = "none" /\ own[c] = None
      BY <1>0, <2>3 DEF CallPlace
    <3>3. Heard'
      <4> SUFFICES ASSUME NEW env \in ToSet(carried) \cup {prompt}, env # None PROVE HeardOf(env)'
        BY <3>0 DEF Heard
      <4>1. HeardOf(env)
        BY DEF ConsentInv, Heard
      <4>2. env \in Envelope
        BY <1>0 DEF ToSet
      <4>3. env.call \in CallIds
        BY <4>2 DEF Envelope
      <4> QED
        BY <2>1, <3>2, <4>1, <4>3 DEF HeardOf
    <3>4. JobsConsent'
      <4>1. \A j \in jobs : Consented(j) => Consented(j)'
        BY <3>0, ConsentKept
      <4> QED
        BY <2>1, <2>3, <3>0, <4>1 DEF ConsentInv, JobsConsent
    <3>5. Remembered' /\ OneByOne' /\ NothingPostponed'
      BY <2>3, <3>0, <3>1 DEF ConsentInv, Remembered, OneByOne, NothingPostponed
    <3>6. ASSUME NEW c \in CallIds PROVE CallPlace(c)' /\ CallConsent(c)'
      BY <2>1, <2>3, <3>1, <3>2, CallsAssumption DEF CallPlace, CallConsent, Looking
    <3> QED
      BY <3>3, <3>4, <3>5, <3>6 DEF ConsentInv
  <2> QED
    BY <1>10, <2>2, <2>3 DEF TurnEnds
<1>11. CASE AskingDone
  <2>1. /\ phase = "asking" /\ phase' = "tools" /\ Outside /\ UNCHANGED <<run, own, checkpoint>>
        /\ \A c \in CallIds : call[c].at \in {"none", "asked"}
    BY <1>11 DEF AskingDone
  <2>2. UNCHANGED <<policy, auto, offered, jobs, byInput, byTool, carried, prompt, granted>>
    BY <2>1 DEF Outside, memory
  <2>3. \A c \in CallIds :
          call'[c] = IF call[c].at = "none" THEN call[c]
                     ELSE [call[c] EXCEPT !.at = IF call[c].said = None THEN "paused" ELSE "todo"]
    BY <1>11 DEF AskingDone
  <2>4. ASSUME NEW c \in CallIds
        PROVE  /\ call[c].at = "none" => call'[c].at = "none"
               /\ call[c].at = "asked" => call'[c].at = IF call[c].said = None THEN "paused" ELSE "todo"
               /\ call'[c].req = call[c].req /\ call'[c].said = call[c].said /\ call'[c].resp = call[c].resp
    <3>1. call[c] \in Call
      BY <1>0
    <3> QED
      BY <2>1, <2>3, <3>1 DEF Call
  <2>5. Heard'
    <3> SUFFICES ASSUME NEW env \in ToSet(carried) \cup {prompt}, env # None PROVE HeardOf(env)'
      BY <2>2 DEF Heard
    <3>1. HeardOf(env)
      BY DEF ConsentInv, Heard
    <3>2. env \in Envelope
      BY <1>0 DEF ToSet
    <3>3. env.call \in CallIds
      BY <3>2 DEF Envelope
    <3> QED
      BY <2>1, <3>1, <3>3 DEF HeardOf
  <2>6. JobsConsent'
    <3>1. \A j \in jobs : Consented(j) => Consented(j)'
      BY <2>2, ConsentKept
    <3> QED
      BY <2>1, <2>2, <3>1 DEF ConsentInv, JobsConsent
  <2>7. Remembered' /\ OneByOne' /\ NothingPostponed'
    BY <2>1, <2>2 DEF ConsentInv, Remembered, OneByOne, NothingPostponed
  <2>8. ASSUME NEW c \in CallIds PROVE CallPlace(c)' /\ CallConsent(c)'
    <3>1. Covered(c) /\ call[c].said # None => Covered(c)'
      BY <2>1, <2>2, <2>4, CoverKept DEF Resuming
    <3>2. CallPlace(c)'
      BY <2>1, <2>4 DEF CallPlace, Looking
    <3>3. CallConsent(c)'
      BY <1>0, <2>1, <2>2, <2>4, <3>1, CallsAssumption DEF CallConsent, Looking
    <3> QED
      BY <3>2, <3>3
  <2> QED
    BY <2>5, <2>6, <2>7, <2>8 DEF ConsentInv
<1> QED
  BY <1>1, <1>2, <1>3, <1>5, <1>7, <1>8, <1>9, <1>10, <1>11 DEF RunNext

LEMMA ConsentNext == TypeInv /\ ConsentInv /\ [Next]_vars => ConsentInv'
<1> SUFFICES ASSUME TypeInv, ConsentInv, [Next]_vars PROVE ConsentInv'
  OBVIOUS
<1>1. CASE UNCHANGED vars
  BY <1>1, AsideConsent DEF vars, memory, uiVars
<1>2. CASE Next
  BY <1>2, RunConsents, CallConsents, JobsConsents, ShowConsent, AnswerConsent DEF Next
<1> QED
  BY <1>1, <1>2

-----------------------------------------------------------------------------
(* Theorems *)

\* There is one listener, message or prompt at any time, and a call that waits
\* for the user's answer is, or will be, on the screen (tui.go:48-61, 489-515):
\* for any number of parallel calls, cancellations, resumes and stale prompts.
THEOREM NoPromptIsLost == Spec => []PromptsReachable
<1>1. PromptInv => PromptsReachable
  BY DEF PromptInv
<1> QED
  BY InitPrompts, PromptNext, <1>1, PTL DEF Spec

\* A run that is over has ended each span it started, once, and the observer
\* keeps nothing of it (observer.go:202-257), however its turns and parallel
\* calls ended and whether it was resumed.
THEOREM NothingStaysOpen == Spec => []SpansClosed
<1>1. PromptInv /\ SpansInv => SpansClosed
  <2> SUFFICES ASSUME PromptInv, SpansInv, NEW r \in RunIds,
                      r < run \/ (r = run /\ phase \in {"over", "idle"})
               PROVE  Closed(r)
    BY DEF SpansClosed, Closed, Shut
  <2> QED
    BY DEF SpansInv, Observed
<1> QED
  BY InitPrompts, InitObserved, PromptNext, SpansNext, <1>1, PTL DEF Spec

\* Every variable keeps its type, whatever the policies, modes and requests.
THEOREM Typing == Spec => []TypeOK
<1>1. TypeInv => TypeOK
  BY TypeParts DEF TypeInv, PromptInv, SpansInv
<1> QED
  BY InitTypes, TypeNext, <1>1, PTL DEF Spec

\* A tool executes only with a consent that covers it: a rule's or the policy's
\* about this very call, -auto's, or the user's, of this session's approver, and
\* never after a no (permission.go:126-150, permissions.go:127-243,
\* runtime.go:120-134), whatever is configured; of a resumed MCP call the rules
\* were asked without its metadata, which is not about this very call.
THEOREM ConsentIsNotBorrowed == Spec => []NoBorrowedConsent
<1>1. TypeInv /\ ConsentInv => NoBorrowedConsent
  BY DEF ConsentInv, JobsConsent, NoBorrowedConsent
<1>2. TypeInv /\ ConsentInv /\ [Next]_vars => TypeInv' /\ ConsentInv'
  BY TypeNext, ConsentNext
<1> QED
  BY InitTypes, InitConsent, <1>1, <1>2, PTL DEF Spec
=============================================================================
