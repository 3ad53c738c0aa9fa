----------------------------- MODULE CodingApp -----------------------------
(***************************************************************************)
(* The example application's runtime (examples/gage-coding/runtime.go):    *)
(* one prompt or resume at a time runs the agent, whose write_file and     *)
(* edit calls run in parallel, wrapped so that the snapshot manager        *)
(* records what they change; the conversation, a paused run's checkpoint   *)
(* and the stored session are brought up to date when the run ends; /undo, *)
(* /redo and /clear come between runs; the process may die at any time.    *)
(***************************************************************************)
EXTENDS Snapshots

CONSTANTS
    Tools,        \* mutating calls of one run, executed in parallel
    MaxRuns,      \* bound: prompts and resumes
    MaxCalls,     \* bound: calls of write_file and edit
    MaxFaults     \* bound: edits by others, failed writes and saves, crashes

ASSUME CodingAppAssumption == MaxRuns \in Nat /\ MaxCalls \in Nat /\ MaxFaults \in Nat

VARIABLES
    phase,        \* "idle", "prompt" or "resume": the run in progress
    tool,         \* tool[t]: where call t is and the file it is about
    history,      \* appRuntime.history
    pending,      \* appRuntime.pending: there is a paused run's checkpoint
    store,        \* the stored session
    unsaved,      \* history: the last save failed
    runs, calls, faults

appVars == <<phase, tool, history, pending, store, unsaved, runs, calls, faults>>
vars == <<snapVars, appVars>>

Free  == [at |-> "free"]
At(a, f, late) == [at |-> a, file |-> f, late |-> late]
Tool  == {Free} \cup [at : {"before", "inner", "format", "after"}, file : Files, late : BOOLEAN]
Message == {"user", "open", "calls", "answer"}

\* Every variable has its type.
TypeOK ==
    /\ SnapTypeOK
    /\ phase \in {"idle", "prompt", "resume"}
    /\ tool \in [Tools -> Tool]
    /\ history \in Seq(Message)
    /\ pending \in BOOLEAN
    /\ store \in [messages : Seq(Message), checkpoint : BOOLEAN]
    /\ unsaved \in BOOLEAN
    /\ runs \in 0 .. MaxRuns
    /\ calls \in 0 .. MaxCalls
    /\ faults \in 0 .. MaxFaults

\* A first start: there is no session yet.
Init ==
    /\ SnapInit
    /\ phase = "idle"
    /\ tool = [t \in Tools |-> Free]
    /\ history = <<>>
    /\ pending = FALSE
    /\ store = [messages |-> <<>>, checkpoint |-> FALSE]
    /\ unsaved = FALSE
    /\ runs = 0
    /\ calls = 0
    /\ faults = 0

Idle == phase = "idle"

-----------------------------------------------------------------------------
(* RunPrompt and RunResume *)

\* Mutant of RunPrompt: a paused run does not stop a new one.
RunPromptAnyway ==
    /\ Idle
    /\ runs < MaxRuns
    /\ runs' = runs + 1
    /\ phase' = "prompt"
    /\ history' = Append(history, "user")
    /\ Begin
    /\ UNCHANGED <<tool, pending, store, unsaved, calls, faults>>

RunPrompt ==
    /\ Idle
    /\ ~pending
    /\ runs < MaxRuns
    /\ runs' = runs + 1
    /\ phase' = "prompt"
    /\ history' = Append(history, "user")
    /\ Begin
    /\ UNCHANGED <<tool, pending, store, unsaved, calls, faults>>

\* Every pending call has been asked about again; those postponed stay pending.
RunResume ==
    /\ Idle
    /\ pending
    /\ runs < MaxRuns
    /\ runs' = runs + 1
    /\ phase' = "resume"
    /\ Begin
    /\ UNCHANGED <<tool, history, pending, store, unsaved, calls, faults>>

-----------------------------------------------------------------------------
(* mutationTool.Execute, one goroutine per call *)

Step(t, at, next) ==
    /\ tool[t].at = at
    /\ tool' = [tool EXCEPT ![t] = next]
    /\ calls' = IF at = "free" THEN calls + 1 ELSE calls
    /\ UNCHANGED <<phase, history, pending, store, unsaved, runs, faults>>

ToolStarts(t, f) ==
    /\ ~Idle
    /\ calls < MaxCalls
    /\ Step(t, "free", At("before", f, FALSE))
    /\ UNCHANGED snapVars

ToolRecordsBefore(t) ==
    /\ Step(t, "before", [tool[t] EXCEPT !.at = "inner"])
    /\ RecordBefore(tool[t].file)

\* The tool itself succeeds ...
ToolWrites(t, c) ==
    /\ Step(t, "inner", [tool[t] EXCEPT !.at = "format"])
    /\ Write(tool[t].file, c, tool[t].late)

\* ... or it, or recording the file, has an error and nothing more is done.
ToolFails(t) ==
    /\ \E at \in {"before", "inner"} : Step(t, at, Free)
    /\ UNCHANGED snapVars

\* The formatter rewrites the file, or has nothing to do, or fails.
ToolFormats(t) ==
    /\ Step(t, "format", [tool[t] EXCEPT !.at = "after"])
    /\ \/ \E c \in Contents : Write(tool[t].file, c, tool[t].late)
       \/ UNCHANGED snapVars

ToolRecordsAfter(t) ==
    /\ Step(t, "after", Free)
    /\ RecordAfter(tool[t].file)

-----------------------------------------------------------------------------
(* The run ends.  A call that timed out or was cancelled goes on by itself. *)

Orphans == [t \in Tools |-> IF tool[t] = Free THEN Free ELSE [tool[t] EXCEPT !.late = TRUE]]

\* SaveSession; a failure is only a warning.
Save(msgs, cp) ==
    \/ /\ store' = [messages |-> msgs, checkpoint |-> cp]
       /\ unsaved' = FALSE
       /\ UNCHANGED faults
    \/ /\ faults < MaxFaults
       /\ faults' = faults + 1
       /\ unsaved' = TRUE
       /\ UNCHANGED store

RunOver ==
    /\ ~Idle
    /\ phase' = "idle"
    /\ tool' = Orphans
    /\ UNCHANGED <<runs, calls>>

\* The conversation of the run: a resumed one answers its open calls.
Answered == [i \in DOMAIN history |-> IF history[i] = "open" THEN "calls" ELSE history[i]]

\* Mutant of SettleResult: the checkpoint is not dropped before the session is
\* saved.
SettleResultPending ==
    /\ RunOver
    /\ pending' = FALSE
    /\ history' = Append(Answered, "answer")
    /\ Commit
    /\ Save(history', pending)

\* EventDone: pending is cleared and settleResult saves the conversation.
SettleResult ==
    /\ RunOver
    /\ pending' = FALSE
    /\ history' = Append(Answered, "answer")
    /\ Commit
    /\ Save(history', FALSE)

\* EventPaused: stashPause.
StashPause ==
    /\ RunOver
    /\ pending' = TRUE
    /\ history' = IF phase = "resume" THEN history ELSE Append(history, "open")
    /\ Commit
    /\ Save(history', TRUE)

\* The user message of a prompt that came to nothing is dropped.
Undone == IF phase = "prompt" THEN Front(history) ELSE history

\* EventError: what the tools changed can be undone, a checkpoint stays.
RunFails ==
    /\ RunOver
    /\ history' = Undone
    /\ Commit
    /\ UNCHANGED <<pending, store, unsaved, faults>>

\* The stream could not be opened, or ended without a terminal event because
\* the user cancelled: what the tools changed is not kept for /undo.
RunCancelled ==
    /\ RunOver
    /\ history' = Undone
    /\ Discard
    /\ UNCHANGED <<pending, store, unsaved, faults>>

-----------------------------------------------------------------------------
(* Between runs *)

UndoOrRedo(isRedo) ==
    /\ Idle
    /\ Apply(isRedo)
    /\ UNCHANGED appVars

UndoFails(isRedo) ==
    /\ Idle
    /\ faults < MaxFaults
    /\ faults' = faults + 1
    /\ \E done \in SUBSET Files : ApplyFails(isRedo, done)
    /\ UNCHANGED <<phase, tool, history, pending, store, unsaved, runs, calls>>

\* /clear; an error of the store is ignored.
Clear ==
    /\ Idle
    /\ history # <<>>
    /\ history' = <<>>
    /\ pending' = FALSE
    /\ Save(<<>>, FALSE)
    /\ UNCHANGED <<snapVars, phase, tool, runs, calls>>

\* Somebody else changes a file.
OutsideEdit(f, c) ==
    /\ faults < MaxFaults
    /\ faults' = faults + 1
    /\ Write(f, c, TRUE)
    /\ UNCHANGED <<phase, tool, history, pending, store, unsaved, runs, calls>>

\* The process ends, in whatever state, and starts again: loadSession.
Restart ==
    /\ faults < MaxFaults
    /\ faults' = faults + 1
    /\ phase' = "idle"
    /\ tool' = [t \in Tools |-> Free]
    /\ history' = store.messages
    /\ pending' = store.checkpoint
    /\ unsaved' = FALSE
    /\ current' = None
    /\ undo' = <<>>
    /\ redo' = <<>>
    /\ awaiting' = {}
    /\ broken' = {}
    /\ touched' = {}
    /\ UNCHANGED <<files, store, runs, calls>>

Next ==
    \/ RunPrompt
    \/ RunResume
    \/ \E t \in Tools :
         \/ \E f \in Files : ToolStarts(t, f)
         \/ ToolRecordsBefore(t)
         \/ \E c \in Contents : ToolWrites(t, c)
         \/ ToolFails(t)
         \/ ToolFormats(t)
         \/ ToolRecordsAfter(t)
    \/ SettleResult
    \/ StashPause
    \/ RunFails
    \/ RunCancelled
    \/ \E isRedo \in BOOLEAN : UndoOrRedo(isRedo) \/ UndoFails(isRedo)
    \/ Clear
    \/ \E f \in Files, c \in FileState : OutsideEdit(f, c)
    \/ Restart

Spec == Init /\ [][Next]_vars

-----------------------------------------------------------------------------
(* Properties *)

\* Between runs, a file that only the prompts of this session have changed is
\* in the state the next /undo expects, and in the one the next /redo expects,
\* however prompts, undos, redos, failed runs and parallel edits of one file
\* followed each other (mutations.go:59-119, 154-207).
StacksApply ==
    Idle =>
        \A isRedo \in BOOLEAN :
            Stack(isRedo) # <<>> =>
                LET cs == Last(Stack(isRedo))
                IN  \A f \in DOMAIN cs \ (touched \cup broken) :
                        files[f] = Wanted(cs, isRedo, f)

\* What the refusal tells the user, "changed since it was recorded"
\* (mutations.go:203): without a change by somebody else nothing is refused.
RefusalIsTrue ==
    Idle => \A isRedo \in BOOLEAN :
        Refused(isRedo) => DOMAIN Last(Stack(isRedo)) \cap touched # {}

\* RunPrompt never sends a conversation that ends in calls without results
\* (runtime.go:137-141): between runs the conversation has open calls, at its
\* end, exactly when there is a checkpoint to resume them -- also after failed
\* resumes, lost saves and restarts.
OpenIffPending ==
    /\ Idle => (pending <=> history # <<>> /\ Last(history) = "open")
    /\ phase = "prompt" => \A i \in DOMAIN history : history[i] # "open"

\* What a restart would load is what the session shows, unless a save failed
\* (stashPause, settleResult, /clear and the runs that end without saving).
StoreAgrees ==
    Idle /\ ~unsaved => store = [messages |-> history, checkpoint |-> pending]
=============================================================================
