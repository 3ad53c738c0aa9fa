------------------------------- MODULE Calls -------------------------------
(***************************************************************************)
(* The tool calls of one session of the example application, from the      *)
(* model's request to the tool's result: several goroutines of one turn    *)
(* (agent/loop.go) consult the remembered answers (permission.go,          *)
(* examples/gage-coding/permissions.go), the policy (module Permissions)   *)
(* and the user, through the terminal interface's single prompt            *)
(* (examples/gage-coding/tui.go); tools run under a concurrency limit      *)
(* (tools/limit.go) and may hang; the observer (module Spans) hears of it. *)
(* The user may cancel at any time, postpone calls and resume them.        *)
(***************************************************************************)
EXTENDS Spans, Permissions, Sequences, SequencesExt

CONSTANTS
    Requests,   \* what the model may ask for
    Policies,   \* records with a kind: "rules" or "library", and the tools disabled
    Modes,      \* agentMode: "build", "plan", "review"
    ReadOnly,   \* the -readonly flag
    Autos,      \* values of the -auto flag
    MaxPlaces,  \* LimitConcurrency: executions of one tool at a time
    MaxRuns,    \* bound: prompts and resumes
    MaxCalls    \* bound: calls the model asks for

\* What the user may press, and what a question on its way to the screen is about.
Keys == {"y", "a", "t", "p", "n"}
Envelope == [run : RunIds, call : CallIds]

ASSUME CallsAssumption ==
    /\ MaxRuns \in Nat \ {0}
    /\ MaxPlaces \in Nat \ {0}
    /\ MaxCalls \in Nat
    /\ RunIds = 1 .. MaxRuns
    /\ IsFiniteSet(CallIds)
    /\ \A p \in Policies :
         /\ p = [k \in DOMAIN p |-> p[k]] /\ {"kind", "disabled"} \subseteq DOMAIN p
         /\ p.kind \in {"rules", "library"}
         /\ p.kind = "library" => "config" \in DOMAIN p /\ DOMAIN p.config = DOMAIN SecureConfig
    /\ \A r \in Requests :
         {"tool", "category", "target", "input", "compound", "secret", "meta"} \subseteq DOMAIN r
    /\ Turns = {"turn1", "turn2"}
    /\ None \notin Envelope \cup Keys \cup {"allow", "deny"}

VARIABLES
    policy,     \* configuredApprover.policy, or the library policy's Config
    auto,       \* configuredApprover.auto
    offered,    \* the tools of the run's agent
    run,        \* the latest run
    asks,       \* calls asked for so far
    phase,      \* what its goroutine does
    cancelled,  \* its context has been cancelled
    checkpoint, \* the calls a paused run left without an answer
    call,       \* the calls of the turn
    jobs,       \* goroutines of callTool, also those nobody waits for any more
    byInput,    \* rememberingApprover.cache: tool and input of each
    byTool,     \* toolMemoryApprover.byTool
    listeners,  \* commands waiting in waitApproval
    carried,    \* approvalMsg on their way to Update
    prompt,     \* tuiModel.approval
    own,        \* history: the user's answer about a call
    granted     \* history: what the user allowed beyond one call, of this approver

uiVars == <<listeners, carried, prompt, own, granted>>
memory == <<byInput, byTool>>
vars == <<policy, auto, offered, run, asks, phase, cancelled, checkpoint, call, jobs, memory, uiVars, spanVars>>

Key  == Keys \cup {None}
Call == [at : {"none", "todo", "lookInput", "lookTool", "offer", "wait", "storeTool", "storeInput",
               "asked", "allow", "deny", "pend", "exec", "result", "done", "paused"},
         req : Requests \cup {None},
         said : {"allow", "deny", None},    \* the decision a resume starts from
         resp : Key]                        \* approvalEnvelope.resp
Job == [run : RunIds, call : CallIds, req : Requests, at : {"queue", "run"},
        own : Key, resumed : BOOLEAN]      \* history: how it was decided about

NoCall == [at |-> "none", req |-> None, said |-> None, resp |-> None]

TypeOK ==
    /\ SpansTypeOK
    /\ \E p, q \in Policies : policy = [p EXCEPT !.disabled = q.disabled]
    /\ auto \in Autos
    /\ offered \subseteq {r.tool : r \in Requests}
    /\ run \in 0 .. MaxRuns
    /\ asks \in 0 .. MaxCalls
    /\ phase \in {"idle", "asking", "ending", "over", "tools"} \cup Turns
    /\ cancelled \in BOOLEAN
    /\ checkpoint \subseteq CallIds
    /\ call \in [CallIds -> Call]
    /\ jobs \subseteq Job
    /\ byInput \subseteq {[tool |-> r.tool, input |-> r.input] : r \in Requests}
    /\ byTool \subseteq {r.tool : r \in Requests}
    /\ listeners \in Nat
    /\ carried \in Seq(Envelope)
    /\ prompt \in Envelope \cup {None}
    /\ own \in [CallIds -> Key]

\* A new approver remembers nothing.
NoAnswers == byInput = {} /\ byTool = {}

Init ==
    /\ SpansInit
    /\ policy \in Policies
    /\ auto \in Autos
    /\ offered = {}
    /\ run = 0
    /\ asks = 0
    /\ phase = "idle"
    /\ cancelled = FALSE
    /\ checkpoint = {}
    /\ call = [c \in CallIds |-> NoCall]
    /\ jobs = {}
    /\ NoAnswers
    /\ listeners = 1
    /\ carried = <<>>
    /\ prompt = None
    /\ own = [c \in CallIds |-> None]
    /\ granted = {}

-----------------------------------------------------------------------------
(* The run: submit, launch, runLoop *)

RunUnchanged == UNCHANGED <<policy, auto, offered, run, asks, phase, cancelled, checkpoint>>
Outside == UNCHANGED <<policy, auto, offered, jobs, memory, listeners, carried, prompt, granted>>

CanSubmit == phase = "idle" /\ prompt = None /\ run < MaxRuns

\* newAgent, with the tools of the mode the user is in now.
NewAgent ==
    /\ \E mode \in Modes : offered' = ToolsForMode(mode, ReadOnly, policy, Requests)
    /\ UNCHANGED <<policy, auto, jobs, memory, listeners, carried, prompt, granted>>

Submit ==
    /\ CanSubmit
    /\ checkpoint = {}
    /\ run' = run + 1
    /\ phase' = "turn1"
    /\ cancelled' = FALSE
    /\ call' = [c \in CallIds |-> NoCall]
    /\ own' = [c \in CallIds |-> None]
    /\ ObserveRunStart(run')
    /\ NewAgent
    /\ UNCHANGED <<asks, checkpoint>>

\* /resume: every pending call is decided about before the agent is called.
SubmitResume ==
    /\ CanSubmit
    /\ checkpoint # {}
    /\ run' = run + 1
    /\ phase' = "asking"
    /\ cancelled' = FALSE
    /\ call' = [c \in CallIds |-> IF c \in checkpoint
                                  THEN [NoCall EXCEPT !.at = "todo", !.req = call[c].req] ELSE NoCall]
    /\ own' = [c \in CallIds |-> None]
    /\ NewAgent
    /\ UNCHANGED <<asks, checkpoint, spanVars>>

\* Mutant of Reload: the new approver starts with what the old one remembers.
ReloadKeepsAnswers ==
    /\ CanSubmit
    /\ run > 0
    /\ policy' \in {p \in Policies : p.kind = policy.kind}
    /\ granted' = {}
    /\ UNCHANGED memory
    /\ UNCHANGED <<auto, offered, run, asks, phase, cancelled, checkpoint, call, jobs,
                   listeners, carried, prompt, own, spanVars>>

\* SetInteractors.
NewApprover == byInput' = {} /\ byTool' = {} /\ granted' = {}

\* /reload: new rules, and a new approver that remembers nothing.  When a later
\* part of the configuration fails, the tools it disables have changed already,
\* while the approver has not.
Reload ==
    /\ CanSubmit
    /\ run > 0
    /\ \E p \in Policies :
         /\ p.kind = policy.kind
         /\ \/ policy' = p /\ NewApprover
            \/ policy' = [policy EXCEPT !.disabled = p.disabled] /\ UNCHANGED <<memory, granted>>
    /\ UNCHANGED <<auto, offered, run, asks, phase, cancelled, checkpoint, call, jobs,
                   listeners, carried, prompt, own, spanVars>>

AgentUnchanged == Outside /\ UNCHANGED <<run, asks, cancelled, checkpoint, own>>

TurnStarts ==
    /\ phase \in Turns
    /\ phase \notin State(run).turns
    /\ ObserveTurnStart(run, phase)
    /\ AgentUnchanged
    /\ UNCHANGED <<phase, call>>

TurnRetries ==
    /\ phase \in Turns
    /\ phase \in State(run).turns
    /\ ObserveEvent(run)
    /\ AgentUnchanged
    /\ UNCHANGED <<phase, call>>

\* The answer of the model: final, which drops a checkpoint, or with calls.
TurnEnds ==
    /\ phase \in Turns
    /\ phase \in State(run).turns
    /\ ObserveTurnEnd(run, phase)
    /\ \/ phase' = "ending" /\ checkpoint' = {} /\ UNCHANGED <<asks, call>>
       \/ /\ phase = "turn1"
          /\ phase' = "tools"
          /\ \E C \in SUBSET CallIds \ {{}} : \E req \in [C -> Requests] :
               /\ asks + Cardinality(C) <= MaxCalls
               /\ asks' = asks + Cardinality(C)
               /\ call' = [c \in CallIds |-> IF c \in C
                                             THEN [NoCall EXCEPT !.at = "todo", !.req = req[c]] ELSE NoCall]
          /\ UNCHANGED checkpoint
    /\ Outside
    /\ UNCHANGED <<run, cancelled, own>>

\* A provider error, a failed compaction, or the context's end; the turn's
\* span stays open.
TurnFails ==
    /\ phase \in Turns
    /\ phase' = "ending"
    /\ AgentUnchanged
    /\ UNCHANGED <<call, spanVars>>

Present == {c \in CallIds : call[c].at # "none"}
Paused  == {c \in CallIds : call[c].at = "paused"}

\* A single call, and those of a resumed turn, run in the run's own goroutine.
Sequential == Cardinality(Present) = 1 \/ \E c \in CallIds : call[c].said # None
Settled(c) == \/ call[c].at \in {"none", "done", "paused"}
              \/ call[c].at = "todo" /\ cancelled /\ Sequential

ToolsDone ==
    /\ phase = "tools"
    /\ \A c \in CallIds : Settled(c)
    /\ IF cancelled THEN phase' = "ending" /\ UNCHANGED <<checkpoint, spanVars>>
       ELSE IF Paused # {}
       THEN phase' = "ending" /\ checkpoint' = Paused /\ ObserveEvent(run)
       ELSE phase' = "turn2" /\ UNCHANGED <<checkpoint, spanVars>>
    /\ Outside
    /\ UNCHANGED <<run, asks, cancelled, call, own>>

\* RunResume: a question that fails ends it; else the agent completes the turn
\* with the decisions taken.
AskingFails ==
    /\ phase = "asking"
    /\ \E c \in CallIds : call[c].at = "result"
    /\ phase' = "over"
    /\ Outside
    /\ UNCHANGED <<run, asks, cancelled, checkpoint, call, own, spanVars>>

AskingDone ==
    /\ phase = "asking"
    /\ \A c \in CallIds : call[c].at \in {"none", "asked"}
    /\ phase' = "tools"
    /\ ObserveRunStart(run)
    /\ call' = [c \in CallIds |->
                  IF call[c].at = "none" THEN call[c]
                  ELSE [call[c] EXCEPT !.at = IF call[c].said = None THEN "paused" ELSE "todo"]]
    /\ Outside
    /\ UNCHANGED <<run, asks, cancelled, checkpoint, own>>

RunEnds ==
    /\ phase = "ending"
    /\ phase' = "over"
    /\ ObserveRunEnd(run)
    /\ AgentUnchanged
    /\ UNCHANGED call

\* runMsg{Done}: a prompt on the screen stays.
RunDone ==
    /\ phase = "over"
    /\ phase' = "idle"
    /\ Outside
    /\ UNCHANGED <<run, asks, cancelled, checkpoint, call, own, spanVars>>

\* ctrl+x or esc; with a prompt on the screen the key answers the prompt.
Cancel ==
    /\ phase \notin {"idle", "over"}
    /\ prompt = None
    /\ ~cancelled
    /\ cancelled' = TRUE
    /\ Outside
    /\ UNCHANGED <<run, asks, phase, checkpoint, call, own, spanVars>>

-----------------------------------------------------------------------------
(* One call: execTool, or Approve alone while a resume asks *)

\* Outside of phase "tools" nothing is observed: the agent is not running yet.
CallStep(c, at, next) ==
    /\ call[c].at = at
    /\ call' = [call EXCEPT ![c] = next]
    /\ RunUnchanged

Goes(c, at, to) == CallStep(c, at, [call[c] EXCEPT !.at = to])

\* Mutant of Decided: a postponed call has a decision, too.
DecidedAnyway(c, d) ==
    IF phase # "asking" THEN [call[c] EXCEPT !.at = d, !.resp = None]
    ELSE [call[c] EXCEPT !.at = "asked", !.resp = None, !.said = d]

\* Approve has decided: the answer is kept for the resume, or acted upon.
Decided(c, d) ==
    IF phase # "asking" THEN [call[c] EXCEPT !.at = d, !.resp = None]
    ELSE [call[c] EXCEPT !.at = "asked", !.resp = None, !.said = IF d = "pend" THEN None ELSE d]

InTurn(c) == Sequential \/ phase = "asking" =>
                 \A d \in CallIds \ {c} : call[d].at \in {"none", "todo", "asked", "done", "paused"}

\* A tool the agent does not have is not asked about; a decision given to Resume
\* replaces the approver.
CallBegins(c) ==
    /\ phase = "tools"
    /\ InTurn(c)
    /\ Sequential => ~cancelled
    /\ Goes(c, "todo", IF call[c].req.tool \notin offered THEN "result"
                       ELSE IF call[c].said # None THEN call[c].said ELSE "lookInput")
    /\ ObserveToolStart(run, c)
    /\ UNCHANGED <<jobs, memory, uiVars>>

CallUnchanged == UNCHANGED <<jobs, spanVars>>

\* RunResume asks the session's approver, or with the library's policy
\* somebody out of band: allowed, denied, or still undecided.
AskBegins(c) ==
    /\ phase = "asking"
    /\ call[c].at = "todo"
    /\ InTurn(c)
    /\ \/ /\ policy.kind = "rules"
          /\ Goes(c, "todo", "lookInput")
          /\ UNCHANGED own
       \/ /\ policy.kind = "library"
          /\ \E k \in {"y", "n", "p"} :
               /\ own' = [own EXCEPT ![c] = k]
               /\ CallStep(c, "todo", Decided(c, CASE k = "y" -> "allow" [] k = "n" -> "deny" [] k = "p" -> "pend"))
    /\ UNCHANGED <<jobs, memory, listeners, carried, prompt, granted, spanVars>>

\* What RunResume asks with: the metadata of the tool is not filled in.
Resumed(req) == [req EXCEPT !.meta = {}, !.category = IF @ = "mcp" THEN req.tool ELSE @]
Asked(c) == IF phase = "asking" THEN Resumed(call[c].req) ELSE call[c].req

InputKey(req) == [tool |-> req.tool, input |-> req.input]

\* rememberingApprover.Approve reads its cache and lets go of the lock.
LookInput(c) ==
    /\ call[c].at = "lookInput"
    /\ \/ /\ InputKey(call[c].req) \in byInput
          /\ CallStep(c, "lookInput", Decided(c, "allow"))
       \/ /\ InputKey(call[c].req) \notin byInput
          /\ Goes(c, "lookInput", "lookTool")
    /\ CallUnchanged
    /\ UNCHANGED <<memory, uiVars>>

\* The decision of whichever policy the session has.
Action(c) == IF policy.kind = "library" THEN PolicyApprove(policy.config, Asked(c).meta)
             ELSE Decide(policy, Asked(c))

\* toolMemoryApprover.Approve reads its cache, then decide runs up to the
\* question; only the library's policy pauses by itself.  -auto answers what the
\* rules would ask about.
LookTool(c) ==
    /\ call[c].at = "lookTool"
    /\ IF call[c].req.tool \in byTool THEN CallStep(c, "lookTool", Decided(c, "allow"))
       ELSE LET a == Action(c)
            IN  IF a \in {"allow", "deny"} THEN CallStep(c, "lookTool", Decided(c, a))
                ELSE IF policy.kind = "library" THEN CallStep(c, "lookTool", Decided(c, "pend"))
                ELSE IF auto THEN CallStep(c, "lookTool", Decided(c, "allow"))
                ELSE Goes(c, "lookTool", "offer")
    /\ CallUnchanged
    /\ UNCHANGED <<memory, uiVars>>

\* AskApproval: the envelope is handed to a waiting listener ...
Offer(c) ==
    /\ listeners > 0
    /\ Goes(c, "offer", "wait")
    /\ listeners' = listeners - 1
    /\ carried' = Append(carried, [run |-> run, call |-> c])
    /\ CallUnchanged
    /\ UNCHANGED <<memory, prompt, own, granted>>

\* ... the answer is received ...
Receive(c) ==
    /\ call[c].resp # None
    /\ LET k == call[c].resp
       IN  CASE k = "y" -> CallStep(c, "wait", Decided(c, "allow"))
             [] k = "n" -> CallStep(c, "wait", Decided(c, "deny"))
             [] k = "p" -> CallStep(c, "wait", Decided(c, "pend"))
             [] k = "a" -> Goes(c, "wait", "storeInput")
             [] k = "t" -> Goes(c, "wait", "storeTool")
    /\ CallUnchanged
    /\ UNCHANGED <<memory, uiVars>>

\* ... or the run is cancelled: "permission check failed".
AskCancelled(c) ==
    /\ cancelled
    /\ \E at \in {"offer", "wait"} : CallStep(c, at, [call[c] EXCEPT !.at = "result", !.resp = None])
    /\ CallUnchanged
    /\ UNCHANGED <<memory, uiVars>>

StoreInput(c) ==
    /\ CallStep(c, "storeInput", Decided(c, "allow"))
    /\ byInput' = byInput \cup {InputKey(call[c].req)}
    /\ CallUnchanged
    /\ UNCHANGED <<byTool, uiVars>>

StoreTool(c) ==
    /\ CallStep(c, "storeTool", Decided(c, "allow"))
    /\ byTool' = byTool \cup {call[c].req.tool}
    /\ CallUnchanged
    /\ UNCHANGED <<byInput, uiVars>>

\* A denied call has an error result; a postponed one has none.
CallStops(c) ==
    /\ phase = "tools"
    /\ \E end \in {<<"deny", "done">>, <<"result", "done">>, <<"pend", "paused">>} : Goes(c, end[1], end[2])
    /\ ObserveToolEnd(run, c)
    /\ UNCHANGED <<jobs, memory, uiVars>>

-----------------------------------------------------------------------------
(* callTool and limitedTool.Execute *)

CallTool(c) ==
    /\ phase = "tools"
    /\ Goes(c, "allow", "exec")
    /\ jobs' = jobs \cup {[run |-> run, call |-> c, req |-> call[c].req, at |-> "queue",
                          own |-> own[c], resumed |-> call[c].said # None]}
    /\ UNCHANGED <<memory, uiVars, spanVars>>

\* ToolMetadata.LongRunning: the tool ends by itself, callTool sets no timeout.
LongRunning(req) == "longrunning" \in req.meta

\* The caller of a job still waits for it.
Waited(j) == j.run = run /\ call[j.call].at = "exec"

Running(tool) == {j \in jobs : j.at = "run" /\ j.req.tool = tool}

JobUnchanged == RunUnchanged /\ UNCHANGED <<memory, uiVars, spanVars>>

TakePlace(j) ==
    /\ j.at = "queue"
    /\ Cardinality(Running(j.req.tool)) < MaxPlaces
    /\ jobs' = (jobs \ {j}) \cup {[j EXCEPT !.at = "run"]}
    /\ JobUnchanged
    /\ UNCHANGED call

\* The tool returns, if it ever does; nobody may be waiting any more.
JobEnds(j) ==
    /\ j.at = "run"
    /\ jobs' = jobs \ {j}
    /\ call' = IF Waited(j) THEN [call EXCEPT ![j.call].at = "result"] ELSE call
    /\ JobUnchanged

\* ctx.Done in the queue; the caller's context ends with the run's or by the
\* tool's timeout, which has passed if the caller does not wait any more.
QueueCancelled(j) ==
    /\ j.at = "queue"
    /\ cancelled \/ ~Waited(j)
    /\ jobs' = jobs \ {j}
    /\ call' = IF Waited(j) THEN [call EXCEPT ![j.call].at = "result"] ELSE call
    /\ JobUnchanged

\* Mutant of CallTimesOut: the timeout only counts while the call is queued.
CallTimesOutInQueue(c) ==
    /\ call[c].at = "exec"
    /\ ~LongRunning(call[c].req)
    /\ \E j \in jobs : j.run = run /\ j.call = c /\ j.at = "queue"
    /\ Goes(c, "exec", "result")
    /\ UNCHANGED <<jobs, memory, uiVars, spanVars>>

\* ToolTimeout, or the run's context: the job is left to itself.
CallTimesOut(c) ==
    /\ call[c].at = "exec"
    /\ ~LongRunning(call[c].req)
    /\ Goes(c, "exec", "result")
    /\ UNCHANGED <<jobs, memory, uiVars, spanVars>>

-----------------------------------------------------------------------------
(* The terminal interface *)

UIUnchanged == RunUnchanged /\ CallUnchanged /\ UNCHANGED memory

\* approvalMsg: the prompt is shown, over another one if there is one.
ShowPrompt ==
    /\ carried # <<>>
    /\ prompt' = Head(carried)
    /\ carried' = Tail(carried)
    /\ UIUnchanged
    /\ UNCHANGED <<call, listeners, own, granted>>

Waiting(env) == env # None /\ env.run = run /\ call[env.call].at = "wait"

Answered(k) ==
    /\ prompt # None
    /\ call' = IF Waiting(prompt) THEN [call EXCEPT ![prompt.call].resp = k] ELSE call
    /\ own' = IF prompt.run = run THEN [own EXCEPT ![prompt.call] = k] ELSE own
    /\ granted' = granted \cup
         (IF prompt.run # run THEN {}
          ELSE CASE k = "a" -> {InputKey(call[prompt.call].req)}
                 [] k = "t" -> {[tool |-> call[prompt.call].req.tool]}
                 [] OTHER -> {})
    /\ prompt' = None
    /\ UIUnchanged
    /\ UNCHANGED carried

\* Mutant of Answer: after a postponed call nobody listens for the next one.
AnswerWithoutListening(k) ==
    /\ Answered(k)
    /\ listeners' = IF k = "p" THEN listeners ELSE listeners + 1

\* handleApprovalKey: y, a, t, p or n; waitApproval listens again.
Answer(k) ==
    /\ Answered(k)
    /\ listeners' = listeners + 1

-----------------------------------------------------------------------------
CallNext(c) ==
    \/ CallBegins(c)
    \/ AskBegins(c)
    \/ LookInput(c)
    \/ LookTool(c)
    \/ Offer(c)
    \/ Receive(c)
    \/ AskCancelled(c)
    \/ StoreInput(c)
    \/ StoreTool(c)
    \/ CallStops(c)
    \/ CallTool(c)
    \/ CallTimesOut(c)

RunNext ==
    \/ TurnStarts
    \/ TurnEnds
    \/ TurnFails
    \/ ToolsDone
    \/ AskingFails
    \/ AskingDone
    \/ RunEnds
    \/ RunDone

JobNext(j) == TakePlace(j) \/ JobEnds(j) \/ QueueCancelled(j)

Next ==
    \/ Submit
    \/ SubmitResume
    \/ Reload
    \/ RunNext
    \/ TurnRetries
    \/ Cancel
    \/ \E c \in CallIds : CallNext(c)
    \/ \E j \in jobs : JobNext(j)
    \/ ShowPrompt
    \/ \E k \in Keys : Answer(k)

LongJobs == \E j \in jobs : LongRunning(j.req) /\ JobNext(j)

\* Goroutines are scheduled, providers and timeouts end what they guard, and
\* long-running tools, which have a timeout of their own, themselves; the user
\* need not answer, cancel or submit anything, and any other tool may hang.
Fairness ==
    /\ WF_vars(RunNext)
    /\ \A c \in CallIds : WF_vars(CallNext(c))
    /\ WF_vars(LongJobs)
    /\ WF_vars(ShowPrompt)

Spec == Init /\ [][Next]_vars /\ Fairness

-----------------------------------------------------------------------------
(* Properties *)

\* The library's configuration itself has to let a shell pass, or what changes
\* something or uses the network.
Permits(config, meta) ==
    /\ "shell" \in meta => config.shell = "allow"
    /\ meta \cap {"destructive", "network"} # {} =>
           "allow" \in {config.shell, config.sensitive, config.networkRead}

\* What the rules have to allow: this very request, but for the tool of an MCP
\* server, which a resume asks about without its metadata (ResumeAsksAlike).
About(j) == IF j.resumed /\ j.req.category = "mcp" THEN Resumed(j.req) ELSE j.req

\* A tool executes only with a consent that covers it: a rule or the policy
\* allows this very call, and never a compound shell command; or -auto runs
\* and the rules would ask; or the user said yes to this call, to its tool and
\* input, or to its tool -- whichever other call of the same tool asked,
\* answered and stored at the same time, and never after a no to this call;
\* nor does a consent outlive the rules it was given under, or a call the mode
\* it was asked for in (permission.go:126-150, permissions.go:127-243,
\* runtime.go:120-134).
Consented(j) ==
    /\ j.own \notin {"n", "p"}
    /\ \/ j.own \in {"y", "a", "t"}
       \/ InputKey(j.req) \in granted
       \/ [tool |-> j.req.tool] \in granted
       \/ /\ policy.kind = "library"
          /\ PolicyApprove(policy.config, j.req.meta) = "allow"
          /\ Permits(policy.config, j.req.meta)
       \/ /\ policy.kind = "rules"
          /\ Resolve(policy, About(j)) = "allow"
          /\ ~(j.req.tool = "bash" /\ j.req.compound)
       \/ /\ policy.kind = "rules"
          /\ auto
          /\ Resolve(policy, j.req) # "deny"

NoBorrowedConsent ==
    \A j \in jobs : j.run = run /\ phase # "idle" => j.req.tool \in offered /\ Consented(j)

\* "re-asks a decision for every still-pending tool call (through the same
\* policy + interactive approver as a live run)" (runtime.go:176-179): what a
\* resume allows without asking, a live run would have allowed.
ResumeAsksAlike ==
    \A c \in CallIds :
        phase = "asking" /\ call[c].said = "allow" /\ own[c] = None =>
            \/ InputKey(call[c].req) \in byInput
            \/ call[c].req.tool \in byTool
            \/ auto
            \/ Decide(policy, call[c].req) = "allow"

\* No prompt is lost: there is one listener, message or prompt at any time, so
\* that a call that asks is heard, and a call that waits for the user's answer
\* in a run that goes on is, or will be, on the screen (tui.go:48-61, 291-330,
\* 489-515).
PromptsReachable ==
    /\ listeners + Len(carried) + (IF prompt = None THEN 0 ELSE 1) = 1
    /\ \A c \in CallIds :
         call[c].at = "wait" /\ call[c].resp = None =>
             [run |-> run, call |-> c] \in ToSet(carried) \cup {prompt}

\* A run that is over has ended each span it started, and only those, once,
\* and the observer keeps nothing of it (observer.go:202-257), however its
\* turns and parallel calls ended.
SpansClosed ==
    \A r \in RunIds :
        r < run \/ (r = run /\ phase \in {"over", "idle"}) =>
            /\ states[r] = None
            /\ \A k \in SpanKeys : started[<<r, k>>] = ended[<<r, k>>]
            /\ \A k \in SpanKeys : ended[<<r, k>>] <= 1

\* A run goes on until it is over, or until the user is asked something: it
\* gets there though a tool hangs, and also hangs on to a place other calls
\* wait for; and a cancelled run gets there though nobody answers the prompts.
RunsReturn ==
    phase # "idle" ~> phase = "idle" \/ (prompt # None /\ ~cancelled)
=============================================================================
