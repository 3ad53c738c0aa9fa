------------------------------- MODULE Spans -------------------------------
(***************************************************************************)
(* The OpenTelemetry observer (otel/observer.go): it turns the agent's     *)
(* begin and end observations, which come from several goroutines, into    *)
(* spans, and keeps the open ones of each run by turn and by call id.      *)
(* Each operation is one critical section of the observer's mutex.         *)
(***************************************************************************)
EXTENDS Naturals, FiniteSets, Functions

CONSTANTS
    RunIds,     \* Observation.RunID
    Turns,      \* Observation.Turn
    CallIds,    \* Observation.CallID
    None        \* no state for a run

ASSUME SpansAssumption ==
    /\ Turns \cap CallIds = {}
    /\ "root" \notin Turns \cup CallIds
    /\ None \notin [root : BOOLEAN, turns : SUBSET Turns, tools : SUBSET CallIds]

\* A span is known by what it is about; span ends are only counted.
SpanKeys == {"root"} \cup Turns \cup CallIds
SpanNames == RunIds \X SpanKeys

VARIABLES
    states,     \* observer.runs: the open spans of each run
    started,    \* started[s]: spans started under that name
    ended       \* ended[s]: calls of End on them

spanVars == <<states, started, ended>>

RunState == [root : BOOLEAN, turns : SUBSET Turns, tools : SUBSET CallIds]
NewRunState == [root |-> FALSE, turns |-> {}, tools |-> {}]

SpansTypeOK ==
    /\ states \in [RunIds -> RunState \cup {None}]
    /\ started \in [SpanNames -> Nat]
    /\ ended \in [SpanNames -> Nat]

SpansInit ==
    /\ states = [r \in RunIds |-> None]
    /\ started = [s \in SpanNames |-> 0]
    /\ ended = [s \in SpanNames |-> 0]

Count(f, S) == [s \in SpanNames |-> IF s \in S THEN f[s] + 1 ELSE f[s]]

\* The state of a run; a placeholder without a root if there is none.
State(r) == IF states[r] = None THEN NewRunState ELSE states[r]

\* A second run_start with the id of an open run ends the older root span.
ObserveRunStart(r) ==
    /\ started' = Count(started, {<<r, "root">>})
    /\ ended' = IF State(r).root THEN Count(ended, {<<r, "root">>}) ELSE ended
    /\ states' = [states EXCEPT ![r] = [NewRunState EXCEPT !.root = TRUE]]

\* Mutant of ObserveRunEnd: only the root span is ended.
ObserveRunEndRootOnly(r) ==
    /\ started' = IF State(r).root THEN started ELSE Count(started, {<<r, "root">>})
    /\ ended' = Count(ended, {<<r, "root">>})
    /\ states' = [states EXCEPT ![r] = None]

\* Everything the run left open is ended; a root never begun is made up.
ObserveRunEnd(r) ==
    /\ started' = IF State(r).root THEN started ELSE Count(started, {<<r, "root">>})
    /\ ended' = Count(ended, {r} \X ({"root"} \cup State(r).turns \cup State(r).tools))
    /\ states' = [states EXCEPT ![r] = None]

ObserveTurnStart(r, t) ==
    /\ started' = Count(started, {<<r, t>>})
    /\ states' = [states EXCEPT ![r] = [State(r) EXCEPT !.turns = @ \cup {t}]]
    /\ UNCHANGED ended

\* An end without a begin makes up the span it ends.
ObserveTurnEnd(r, t) ==
    /\ started' = IF t \in State(r).turns THEN started ELSE Count(started, {<<r, t>>})
    /\ ended' = Count(ended, {<<r, t>>})
    /\ states' = [states EXCEPT ![r] = [State(r) EXCEPT !.turns = @ \ {t}]]

\* turn_retry and run_paused only add an event to an open span.
ObserveEvent(r) ==
    /\ states' = [states EXCEPT ![r] = State(r)]
    /\ UNCHANGED <<started, ended>>

ObserveToolStart(r, c) ==
    /\ started' = Count(started, {<<r, c>>})
    /\ states' = [states EXCEPT ![r] = [State(r) EXCEPT !.tools = @ \cup {c}]]
    /\ UNCHANGED ended

ObserveToolEnd(r, c) ==
    /\ started' = IF c \in State(r).tools THEN started ELSE Count(started, {<<r, c>>})
    /\ ended' = Count(ended, {<<r, c>>})
    /\ states' = [states EXCEPT ![r] = [State(r) EXCEPT !.tools = @ \ {c}]]
=============================================================================
