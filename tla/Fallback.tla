------------------------------ MODULE Fallback ------------------------------
(***************************************************************************)
(* The fallback provider (providers/fallback/fallback.go): a goroutine     *)
(* that tries the providers in order and relays the first one that         *)
(* produces content, between the pumps of those providers and a reader     *)
(* that may leave.  All channels are unbuffered.                           *)
(*                                                                         *)
(* A provider keeps the contract of ProviderStream, or ends its stream     *)
(* without content and without an error.                                   *)
(***************************************************************************)
EXTENDS Integers, Sequences

CONSTANTS
    N,          \* the number of providers
    MaxEvents,  \* bound: events of a stream before the one that ends it
    None        \* no error yet

Providers == 1 .. N

\* "start" stands for the events that are no content: message_start, usage.
Kinds  == {"start", "text", "done", "error"}
Events == [from : Providers, kind : Kinds]

ASSUME FallbackAssumption ==
    /\ N \in Nat \ {0}
    /\ MaxEvents \in Nat
    /\ None \notin Events

VARIABLES
    pc,         \* where the relaying goroutine is
    at,         \* the provider being tried, N + 1 after the last one
    committed,  \* content has flowed
    buffered,   \* the events of the provider before its first content
    queue,      \* the events being sent to the reader
    lastErr,    \* why the last provider that was tried failed
    pump,       \* each provider's stream: "unused", "running" or "closed"
    made,       \* the events each provider's stream has handed over
    reading,    \* the reader has not left
    cancelled,  \* the context is done
    got         \* the events the reader received

vars == <<pc, at, committed, buffered, queue, lastErr, pump, made, reading, cancelled, got>>

local == <<committed, buffered>>
reader == <<reading, cancelled>>

-----------------------------------------------------------------------------
Event(p, kind) == [from |-> p, kind |-> kind]

isContent(e) == e.kind \in {"text", "done"}
Ends(e)      == e.kind \in {"done", "error"}

ContentIn(s) == \E i \in DOMAIN s : isContent(s[i])
EndIn(s)     == \E i \in DOMAIN s : Ends(s[i])

Init ==
    /\ pc = "next" /\ at = 1
    /\ committed = FALSE /\ buffered = <<>> /\ queue = <<>> /\ lastErr = None
    /\ pump = [p \in Providers |-> "unused"]
    /\ made = [p \in Providers |-> <<>>]
    /\ reading = TRUE /\ cancelled = FALSE
    /\ got = <<>>

-----------------------------------------------------------------------------
(* The relaying goroutine.                                                 *)

\* The loop over the providers goes on after a failure.
Failed(err) == lastErr' = err /\ at' = at + 1 /\ pc' = "next"

\* The loop ends: the context is done, or no provider is left.
Leave ==
    /\ pc = "next"
    /\ \/ at > N /\ pc' = "last"
       \/ at <= N /\ cancelled /\ pc' = "closing"
    /\ UNCHANGED <<at, local, queue, lastErr, pump, made, reader, got>>

\* inner.Stream returns a stream.
Open ==
    /\ pc = "next" /\ at <= N /\ ~cancelled
    /\ pc' = "receiving"
    /\ pump' = [pump EXCEPT ![at] = "running"]
    /\ committed' = FALSE /\ buffered' = <<>>
    /\ UNCHANGED <<at, queue, lastErr, made, reader, got>>

\* inner.Stream returns an error.
OpenFails ==
    /\ pc = "next" /\ at <= N /\ ~cancelled
    /\ Failed(Event(at, "error"))
    /\ UNCHANGED <<local, queue, pump, made, reader, got>>

Hold(e) ==
    /\ buffered' = Append(buffered, e)
    /\ UNCHANGED <<pc, committed, queue, lastErr>>

\* Mutant of Receive: an error after content fails over like one before it.
ReceiveAnyError(e) ==
    IF e.kind = "error"
    THEN lastErr' = e /\ pc' = "draining" /\ UNCHANGED <<local, queue>>
    ELSE IF ~committed /\ ~isContent(e) THEN Hold(e)
    ELSE /\ queue' = (IF committed THEN <<>> ELSE buffered) \o <<e>>
         /\ committed' = TRUE /\ pc' = "sending"
         /\ UNCHANGED <<buffered, lastErr>>

\* tryOne takes an event: before content an error is drained, other events are
\* held; the first content releases them, and everything after it is relayed.
Receive(e) ==
    CASE committed \/ isContent(e) ->
           /\ queue' = (IF committed THEN <<>> ELSE buffered) \o <<e>>
           /\ committed' = TRUE /\ pc' = "sending"
           /\ UNCHANGED <<buffered, lastErr>>
      [] ~committed /\ e.kind = "error" ->
           lastErr' = e /\ pc' = "draining" /\ UNCHANGED <<local, queue>>
      [] OTHER -> Hold(e)

\* The drain after an error ends when the provider has closed its stream.
Drained ==
    /\ pc = "draining"
    /\ pump[at] = "closed"
    /\ Failed(lastErr)
    /\ UNCHANGED <<local, queue, pump, made, reader, got>>

\* The provider closed its stream: after content that is the end; before it,
\* the next provider is tried unless the context is done.
StreamEnds ==
    /\ pc = "receiving"
    /\ pump[at] = "closed"
    /\ IF committed \/ cancelled
       THEN pc' = "closing" /\ UNCHANGED <<at, lastErr>>
       ELSE Failed(Event(at, "error"))
    /\ UNCHANGED <<local, queue, pump, made, reader, got>>

Relay ==
    /\ pc = "sending"
    /\ reading
    /\ got' = Append(got, Head(queue))
    /\ queue' = Tail(queue)
    /\ pc' = IF Len(queue) = 1 THEN "receiving" ELSE "sending"
    /\ UNCHANGED <<at, local, lastErr, pump, made, reader>>

\* Mutant of RelayAborts: a send that waits for the reader only.
RelayNeverAborts == FALSE /\ UNCHANGED vars

RelayAborts ==
    /\ pc = "sending"
    /\ cancelled
    /\ pc' = "closing" /\ queue' = <<>>
    /\ UNCHANGED <<at, local, lastErr, pump, made, reader, got>>

\* Every provider failed: the last error is sent, unless the context is done.
ForwardLast ==
    /\ pc = "last"
    /\ \/ reading /\ got' = Append(got, lastErr)
       \/ cancelled /\ UNCHANGED got
    /\ pc' = "closing"
    /\ UNCHANGED <<at, local, queue, lastErr, pump, made, reader>>

Close ==
    /\ pc = "closing"
    /\ pc' = "closed"
    /\ UNCHANGED <<at, local, queue, lastErr, pump, made, reader, got>>

-----------------------------------------------------------------------------
(* The providers' pumps and the reader.                                    *)

\* A pump hands an event over: to tryOne, which takes it only while it reads
\* this stream.  It has sent nothing that ends the stream.
Emit(p) ==
    /\ pump[p] = "running" /\ at = p /\ pc = "receiving"
    /\ ~EndIn(made[p])
    /\ \E kind \in Kinds :
         /\ kind \in {"start", "text"} => Len(made[p]) < MaxEvents
         /\ made' = [made EXCEPT ![p] = Append(@, Event(p, kind))]
         /\ Receive(Event(p, kind))
    /\ UNCHANGED <<at, pump, reader, got>>

\* A pump closes its stream after the event that ends it, when the context is
\* done, or although it sent no content.
PumpCloses(p) ==
    /\ pump[p] = "running"
    /\ \/ EndIn(made[p])
       \/ cancelled
       \/ ~ContentIn(made[p])
    /\ pump' = [pump EXCEPT ![p] = "closed"]
    /\ UNCHANGED <<pc, at, local, queue, lastErr, made, reader, got>>

\* The reader stops reading, and then cancels; it may also cancel and read on.
StopReading ==
    /\ reading /\ pc # "closed"
    /\ reading' = FALSE
    /\ UNCHANGED <<pc, at, local, queue, lastErr, pump, made, cancelled, got>>

Cancel ==
    /\ ~cancelled
    /\ cancelled' = TRUE
    /\ UNCHANGED <<pc, at, local, queue, lastErr, pump, made, reading, got>>

RelayStep ==
    \/ Leave \/ Open \/ OpenFails
    \/ Drained \/ StreamEnds
    \/ Relay \/ RelayAborts \/ ForwardLast \/ Close

PumpStep(p) == Emit(p) \/ PumpCloses(p)

Next == RelayStep \/ (\E p \in Providers : PumpStep(p)) \/ StopReading \/ Cancel

\* Goroutines go on; a backend ends its reply or fails; a reader that stopped
\* reading cancels.
Fairness ==
    /\ WF_vars(RelayStep)
    /\ \A p \in Providers : WF_vars(PumpStep(p))
    /\ WF_vars(~reading /\ Cancel)

Spec == Init /\ [][Next]_vars /\ Fairness

-----------------------------------------------------------------------------
\* The types of the variables; a provider that was passed over left its error.
TypeOK ==
    /\ pc \in {"next", "receiving", "draining", "sending", "last", "closing", "closed"}
    /\ at \in 1 .. N + 1
    /\ committed \in BOOLEAN
    /\ buffered \in Seq(Events) /\ queue \in Seq(Events) /\ got \in Seq(Events)
    /\ lastErr \in Events \cup {None}
    /\ at > 1 => lastErr # None
    /\ pump \in [Providers -> {"unused", "running", "closed"}]
    /\ made \in [Providers -> Seq(Events)]
    /\ reading \in BOOLEAN /\ cancelled \in BOOLEAN

\* What the reader sees is the beginning of one provider's stream, with nothing
\* left out, repeated or mixed in, or a single error after every provider
\* failed before content (tryOne buffers, commits and relays verbatim).
OneStreamSeen ==
    \/ \E p \in Providers :
         /\ Len(got) <= Len(made[p])
         /\ got = SubSeq(made[p], 1, Len(got))
         /\ got # <<>> => ContentIn(made[p])
    \/ /\ got = <<lastErr>> /\ lastErr.kind = "error"
       /\ \A p \in Providers : ~ContentIn(made[p]) /\ pump[p] # "running"

\* Once a provider has produced content, no later provider is ever called:
\* failing over then would duplicate output the reader has seen.
NoLateFailover ==
    \A p, q \in Providers :
        p < q /\ ContentIn(made[p]) => pump[q] = "unused"

\* A channel that closes before the context is done has given the reader the
\* whole stream of a provider that produced content, or an error.
ClosesComplete ==
    pc = "closed" /\ ~cancelled =>
        \E p \in Providers :
            \/ got = made[p] /\ ContentIn(got)
            \/ got = <<Event(p, "error")>>

\* The fallback provider keeps the contract of a provider.
Stream == INSTANCE ProviderStream WITH open <- pc # "closed"
ImplementsStream == Stream!Spec

\* The channel is closed whether the reader reads on or leaves.
ChannelCloses == <>(pc = "closed")
=============================================================================
