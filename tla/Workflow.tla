------------------------------ MODULE Workflow ------------------------------
(***************************************************************************)
(* workflow.Runner over a session file store (workflow/workflow.go,         *)
(* sessions/file.go): clients run and resume one durable session, agents   *)
(* fail, saves fail, and the process crashes and restarts.                 *)
(*                                                                         *)
(* The agent is what AgentLoop shows of it: a run ends with a result, an   *)
(* error or a checkpoint; a resume executes the decided calls that have no *)
(* result, in call order, then pauses again if some are left, and          *)
(* otherwise goes on like a run, whose compactor may cut the conversation. *)
(* A conversation is the sequence of the requests it took in; the          *)
(* approvals are all granted, since a denied call only gets a result       *)
(* without an execution.                                                   *)
(***************************************************************************)
EXTENDS Integers, Sequences, FiniteSets

CONSTANTS
    Callers,      \* goroutines that use the Runner
    NCalls,       \* the number of tool calls of a turn that pauses
    MaxRequests,  \* bound: requests made
    MaxBatches,   \* bound: turns that pause
    Nil           \* no session, checkpoint, lock holder or work

Calls   == 1 .. NCalls
Batches == 1 .. MaxBatches

History == Seq(1 .. MaxRequests)
Checkpoints == [batch : Batches, messages : History, results : SUBSET Calls]
Sessions == [messages : History, checkpoint : Checkpoints \cup {Nil}]
Works == [messages : History, batch : Batches \cup {0},
          results : SUBSET Calls, todo : SUBSET Calls,
          cut : SUBSET (1 .. MaxRequests)]  \* history: what was compacted away

ASSUME WorkflowAssumption ==
    /\ NCalls \in Nat \ {0}
    /\ MaxRequests \in Nat /\ MaxBatches \in Nat
    /\ IsFiniteSet(Callers)
    /\ Nil \notin Callers \cup Checkpoints \cup Sessions \cup Works

VARIABLES
    serial,    \* the clients make one request at a time
    file,      \* the session file, Nil if there is none
    mu,        \* the client that holds fileStore.mu
    pc,        \* "idle", "running", "saving" or "writing", for each client
    work,      \* what each client's agent works on
    outcome,   \* the session to be saved, and in the end what was returned
    requests,  \* requests made
    \* history
    ran,       \* how often each call of each batch was executed
    lost,      \* resumes of each batch that ended without being saved
    saved      \* the sessions ever saved

runnerVars == <<serial, file, mu, pc, work, outcome, requests, ran, lost, saved>>

-----------------------------------------------------------------------------
Session(msgs, cp) == [messages |-> msgs, checkpoint |-> cp]
Checkpoint(b, msgs, done) == [batch |-> b, messages |-> msgs, results |-> done]

\* Mutant of OnLoadError: any load error is taken for a new session.
EmptyOnLoadError == {Nil}

\* loadOrEmpty: only ErrSessionNotFound stands for an empty session; another
\* error ends the request, and leaves it nothing to start from.
OnLoadError == {}

Loads == {file} \cup OnLoadError

Messages(session) == IF session = Nil THEN <<>> ELSE session.messages

Paused(session) == session # Nil /\ session.checkpoint # Nil

MayRequest(c) ==
    /\ pc[c] = "idle"
    /\ requests < MaxRequests
    /\ serial => \A d \in Callers : pc[d] = "idle"

EndRequest(c, a) ==
    /\ pc' = [pc EXCEPT ![c] = "idle"]
    /\ work' = [work EXCEPT ![c] = Nil]
    /\ outcome' = [outcome EXCEPT ![c] = a]

\* What an ended request leaves unsaved: a resume whose results are gone.
Lose(cs) ==
    lost' = [b \in Batches |->
               lost[b] + Cardinality({c \in cs : work[c] # Nil /\ work[c].batch = b})]

\* Run on a session that is not paused: the agent starts from its history.
Run(c) ==
    /\ MayRequest(c)
    /\ requests' = requests + 1
    /\ \E session \in Loads :
         /\ ~Paused(session)
         /\ work' = [work EXCEPT ![c] =
                       [messages |-> Append(Messages(session), requests'),
                        batch |-> 0, results |-> Calls, todo |-> {}, cut |-> {}]]
    /\ pc' = [pc EXCEPT ![c] = "running"]
    /\ outcome' = [outcome EXCEPT ![c] = Nil]
    /\ UNCHANGED <<serial, file, mu, ran, lost, saved>>

\* Resume of a paused session, with approvals for some of its pending calls.
Resume(c, approved) ==
    /\ MayRequest(c)
    /\ Paused(file)
    /\ approved \subseteq Calls \ file.checkpoint.results
    /\ requests' = requests + 1
    /\ work' = [work EXCEPT ![c] =
                  [messages |-> file.checkpoint.messages,
                   batch    |-> file.checkpoint.batch,
                   results  |-> file.checkpoint.results,
                   todo     |-> approved,
                   cut      |-> {}]]
    /\ pc' = [pc EXCEPT ![c] = "running"]
    /\ outcome' = [outcome EXCEPT ![c] = Nil]
    /\ UNCHANGED <<serial, file, mu, ran, lost, saved>>

\* Run on a paused session, Resume of one that is not, or a failed load.
Refused(c) ==
    /\ MayRequest(c)
    /\ requests' = requests + 1
    /\ EndRequest(c, Nil)
    /\ UNCHANGED <<serial, file, mu, ran, lost, saved>>

-----------------------------------------------------------------------------
(* The agent at work *)

Execute(c) ==
    /\ pc[c] = "running"
    /\ work[c].todo # {}
    /\ LET k == CHOOSE k \in work[c].todo : \A j \in work[c].todo : k <= j
       IN  /\ ran' = [ran EXCEPT ![<<work[c].batch, k>>] = @ + 1]
           /\ work' = [work EXCEPT ![c].todo = @ \ {k}, ![c].results = @ \cup {k}]
    /\ UNCHANGED <<serial, file, mu, pc, outcome, requests, lost, saved>>

AgentFails(c) ==
    /\ pc[c] = "running"
    /\ Lose({c})
    /\ EndRequest(c, Nil)
    /\ UNCHANGED <<serial, file, mu, requests, ran, saved>>

Persist(c, session) ==
    /\ pc' = [pc EXCEPT ![c] = "saving"]
    /\ outcome' = [outcome EXCEPT ![c] = session]

\* Mutant of Merged: the results are dropped, as if nothing had been executed.
NotMerged(c) == {}

\* The results a checkpoint carries: those of the resumed one and the new ones.
Merged(c) == work[c].results

\* Calls are left without a decision: the turn stays paused.
StaysPaused(c) ==
    /\ pc[c] = "running"
    /\ work[c].todo = {}
    /\ work[c].results # Calls
    /\ Persist(c, Session(work[c].messages,
                          Checkpoint(work[c].batch, work[c].messages, Merged(c))))
    /\ UNCHANGED <<serial, file, mu, work, requests, ran, lost, saved>>

TurnComplete(c) ==
    /\ pc[c] = "running"
    /\ work[c].todo = {}
    /\ work[c].results = Calls

\* The compactor (Trim, Summarize) keeps the first message and a tail of the
\* conversation, which starts at request k or holds none.
Compacts(c, k) ==
    /\ TurnComplete(c)
    /\ k \in 3 .. Len(work[c].messages) + 1
    /\ LET msgs == work[c].messages
       IN  work' = [work EXCEPT
                      ![c].messages = <<msgs[1]>> \o SubSeq(msgs, k, Len(msgs)),
                      ![c].cut = @ \cup {msgs[i] : i \in 2 .. k - 1}]
    /\ UNCHANGED <<serial, file, mu, pc, outcome, requests, ran, lost, saved>>

\* A later turn pauses, the calls in done being dealt with; b is a new batch.
Pauses(c, b, done) ==
    /\ TurnComplete(c)
    /\ \A k \in Calls : ran[<<b, k>>] = 0
    /\ \A s \in saved : Paused(s) => s.checkpoint.batch # b
    /\ \A d \in Callers : Paused(outcome[d]) => outcome[d].checkpoint.batch # b
    /\ done # Calls
    /\ ran' = [e \in Batches \X Calls |->
                 IF e[1] = b /\ e[2] \in done THEN 1 ELSE ran[e]]
    /\ Persist(c, Session(work[c].messages, Checkpoint(b, work[c].messages, done)))
    /\ UNCHANGED <<serial, file, mu, work, requests, lost, saved>>

Finishes(c) ==
    /\ TurnComplete(c)
    /\ Persist(c, Session(work[c].messages, Nil))
    /\ UNCHANGED <<serial, file, mu, work, requests, ran, lost, saved>>

-----------------------------------------------------------------------------
(* SaveSession: under mu, a temporary file is written and renamed *)

LockStore(c) ==
    /\ pc[c] = "saving"
    /\ mu = Nil
    /\ mu' = c
    /\ pc' = [pc EXCEPT ![c] = "writing"]
    /\ UNCHANGED <<serial, file, work, outcome, requests, ran, lost, saved>>

\* Mutant of SaveFails: the caller gets the outcome all the same.
SaveFailsUnnoticed(c) ==
    /\ pc[c] = "writing"
    /\ mu' = Nil
    /\ Lose({c})
    /\ EndRequest(c, outcome[c])
    /\ UNCHANGED <<serial, file, requests, ran, saved>>

\* A write or the rename fails: the temporary file is removed, the session file
\* is what it was, and the caller gets the error alone.
SaveFails(c) ==
    /\ pc[c] = "writing"
    /\ mu' = Nil
    /\ Lose({c})
    /\ EndRequest(c, Nil)
    /\ UNCHANGED <<serial, file, requests, ran, saved>>

Rename(c) ==
    /\ pc[c] = "writing"
    /\ mu' = Nil
    /\ file' = outcome[c]
    /\ saved' = saved \cup {outcome[c]}
    /\ EndRequest(c, outcome[c])
    /\ UNCHANGED <<serial, requests, ran, lost>>

\* Mutant of Crash: the work in progress survives the process.
CrashKeepsWork ==
    /\ \E c \in Callers : pc[c] # "idle"
    /\ pc' = [c \in Callers |-> "idle"]
    /\ outcome' = [c \in Callers |-> IF pc[c] = "idle" THEN outcome[c] ELSE Nil]
    /\ mu' = Nil
    /\ Lose(Callers)
    /\ UNCHANGED <<serial, file, work, requests, ran, saved>>

\* The process dies, at most leaving a temporary file that no load reads, and
\* starts again.
Crash ==
    /\ \E c \in Callers : pc[c] # "idle"
    /\ pc' = [c \in Callers |-> "idle"]
    /\ work' = [c \in Callers |-> Nil]
    /\ outcome' = [c \in Callers |-> IF pc[c] = "idle" THEN outcome[c] ELSE Nil]
    /\ mu' = Nil
    /\ Lose(Callers)
    /\ UNCHANGED <<serial, file, requests, ran, saved>>

-----------------------------------------------------------------------------
RunnerInit ==
    /\ serial \in BOOLEAN
    /\ file = Nil
    /\ mu = Nil
    /\ pc = [c \in Callers |-> "idle"]
    /\ work = [c \in Callers |-> Nil]
    /\ outcome = [c \in Callers |-> Nil]
    /\ requests = 0
    /\ ran = [e \in Batches \X Calls |-> 0]
    /\ lost = [b \in Batches |-> 0]
    /\ saved = {}

RunnerNext ==
    \/ \E c \in Callers :
         \/ Run(c) \/ Refused(c)
         \/ \E approved \in SUBSET Calls : Resume(c, approved)
         \/ Execute(c) \/ AgentFails(c) \/ StaysPaused(c) \/ Finishes(c)
         \/ \E k \in 3 .. MaxRequests + 1 : Compacts(c, k)
         \/ \E b \in Batches, done \in SUBSET Calls : Pauses(c, b, done)
         \/ LockStore(c) \/ SaveFails(c) \/ Rename(c)
    \/ Crash

RunnerSpec == RunnerInit /\ [][RunnerNext]_runnerVars

-----------------------------------------------------------------------------
(* Properties *)

\* Every variable has its type, and a client has work exactly while it runs or
\* saves.
RunnerTypeOK ==
    /\ serial \in BOOLEAN
    /\ file \in Sessions \cup {Nil}
    /\ mu \in Callers \cup {Nil}
    /\ pc \in [Callers -> {"idle", "running", "saving", "writing"}]
    /\ work \in [Callers -> Works \cup {Nil}]
    /\ \A c \in Callers : work[c] = Nil <=> pc[c] = "idle"
    /\ outcome \in [Callers -> Sessions \cup {Nil}]
    /\ requests \in 0 .. MaxRequests
    /\ ran \in [Batches \X Calls -> Nat]
    /\ lost \in [Batches -> Nat]
    /\ saved \subseteq Sessions

\* "Persisted already" (README.md): a checkpoint or a result is returned to the
\* caller only once the session was saved, whatever fails or crashes.
ReturnedIsSaved ==
    \A c \in Callers : pc[c] = "idle" /\ outcome[c] # Nil => outcome[c] \in saved

\* When requests do not overlap, a call is executed again only if a resume that
\* had executed it failed, could not be saved or crashed.
RepeatedOnlyAfterLoss ==
    serial => \A b \in Batches, k \in Calls : ran[<<b, k>>] <= 1 + lost[b]

\* The requests a session's conversation still holds.
Requests(session) == {Messages(session)[i] : i \in DOMAIN Messages(session)}

\* The requests that the compactor has cut from the conversations at work.
Cut == UNION {work[c].cut : c \in {d \in Callers : work[d] # Nil}}

\* When requests do not overlap, the stored conversation keeps its first
\* message, and loses another only to the compactor of the request that saves
\* it: no failed load, run or save and no crash takes a part of it away.
HistoryKept ==
    [][serial => /\ Messages(file) # <<>> =>
                      /\ Messages(file') # <<>>
                      /\ Messages(file')[1] = Messages(file)[1]
                 /\ Requests(file) \subseteq Requests(file') \cup Cut]_runnerVars
=============================================================================
