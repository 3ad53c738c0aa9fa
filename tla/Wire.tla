-------------------------------- MODULE Wire --------------------------------
(***************************************************************************)
(* A conversation over the wire.  In each turn a provider of some dialect  *)
(* is asked with the history so far; its server answers with a reply, cut  *)
(* into chunks; the client's pump turns chunks into events, one of which   *)
(* at a time is handed over an unbuffered channel; the loop's accumulator  *)
(* puts the events together into the assistant message, which goes into    *)
(* the history with the results of its calls, for the next request.        *)
(*                                                                         *)
(* The provider may change between turns: a fallback, or a caller who      *)
(* keeps the history and switches the model.                               *)
(***************************************************************************)
EXTENDS Encoders, FiniteSets

CONSTANTS
    Replies,     \* Replies[t]: the replies, as sequences of blocks, a server gives in turn t
    Options,     \* Options[t]: the options a request of turn t is made with
    HTTPRetries, \* shared.Client.MaxRetries
    MaxFaults    \* bound: how many streams are cut or fail

ASSUME WireAssumption ==
    /\ HTTPRetries \in Nat /\ MaxFaults \in Nat
    /\ \A t \in DOMAIN Replies : Replies[t] \subseteq Seq(Blocks) /\ Options[t] \subseteq OptionRecords

Turns == DOMAIN Replies

VARIABLES
    phase,    \* "idle", "asking", "streaming", "over"
    turn,
    history,  \* the messages of the conversation
    dialect,  \* of the provider asked last
    asked,    \* the options of that request and the body made of them, until it is sent
    tries,    \* transport attempts that failed
    reply,    \* what the server means to say
    wire,     \* chunks not yet read by the pump
    cut,      \* "none", "eof": the connection ended early and cleanly, "length": the
              \* generation ran into its token limit
    pump,     \* [st, done]: the state of the decoder; it has produced its last event
    out,      \* events produced and not yet taken from the channel
    acc,      \* assistantAccum
    faults

stream == <<reply, wire, cut, pump, out, acc>>
wireVars == <<phase, turn, history, dialect, asked, tries, stream, faults>>

Nothing == [parts |-> <<>>, kind |-> "", text |-> <<>>, calls |-> <<>>, stop |-> ""]
NoStream == /\ reply' = <<>> /\ wire' = <<>> /\ cut' = "none" /\ out' = <<>>
            /\ pump' = [st |-> <<>>, done |-> FALSE] /\ acc' = Nothing

User == [role |-> "user", parts |-> <<[kind |-> "text", text |-> << <<<<>>, 1>> >>]>>, from |-> ""]

WireInit ==
    /\ phase = "idle" /\ turn = 1 /\ history = <<User>>
    /\ dialect = "chat" /\ asked = <<>> /\ tries = 0 /\ faults = 0
    /\ reply = <<>> /\ wire = <<>> /\ cut = "none" /\ out = <<>>
    /\ pump = [st |-> <<>>, done |-> FALSE] /\ acc = Nothing
-----------------------------------------------------------------------------
(* The request.                                                            *)

\* Stream: the body is built before anything is sent, and may be refused.
Ask(d, o) ==
    /\ phase = "idle" /\ turn \in Turns
    /\ asked' = <<o, Body(d, o)>>
    /\ phase' = IF Body(d, o).refused THEN "over" ELSE "asking"
    /\ dialect' = d /\ tries' = 0
    /\ UNCHANGED <<turn, history, stream, faults>>

\* shared.Client.Do: a network error, 429 or 5xx is tried again.
AttemptFails ==
    /\ phase = "asking" /\ tries < HTTPRetries
    /\ tries' = tries + 1 /\ asked' = <<>>
    /\ UNCHANGED <<phase, turn, history, dialect, stream, faults>>

\* The attempts are used up, or the status is final: the turn failed before it began,
\* and the loop gives up or asks again.
AskFails ==
    /\ phase = "asking" /\ faults < MaxFaults
    /\ phase' \in {"idle", "over"} /\ faults' = faults + 1 /\ asked' = <<>>
    /\ UNCHANGED <<turn, history, dialect, tries, stream>>

Numbered(r) == [i \in DOMAIN r |-> [kind |-> r[i].kind, tool |-> r[i].tool, size |-> r[i].size,
                                    signed |-> r[i].signed, at |-> <<turn, i>>]]

Answer ==
    /\ phase = "asking"
    /\ \E r \in Replies[turn] :
         /\ Speaks(dialect, r)
         /\ reply' = Numbered(r)
         /\ wire' \in Wires(dialect, reply')
    /\ phase' = "streaming" /\ asked' = <<>> /\ cut' = "none" /\ acc' = Nothing
    /\ pump' = [st |-> Start(dialect), done |-> FALSE]
    /\ out' = <<[type |-> "message_start"]>>
    /\ UNCHANGED <<turn, history, dialect, tries, faults>>
-----------------------------------------------------------------------------
(* The pump.  It reads on only when its events were taken.                 *)
Reading == phase = "streaming" /\ out = <<>> /\ ~pump.done

ReadChunk ==
    /\ Reading /\ wire # <<>>
    /\ LET r == Pump(dialect, pump.st, Head(wire)) IN
         /\ pump' = [pump EXCEPT !.st = r.st]
         /\ out' = r.events
    /\ wire' = Tail(wire)
    /\ UNCHANGED <<phase, turn, history, dialect, asked, tries, reply, cut, acc, faults>>

\* [DONE], or the end of the body: ScanSSE does not tell them apart.
ReadEnd ==
    /\ Reading /\ wire = <<>>
    /\ out' = Finish(dialect, pump.st)
    /\ pump' = [pump EXCEPT !.done = TRUE]
    /\ UNCHANGED <<phase, turn, history, dialect, asked, tries, reply, wire, cut, acc, faults>>

\* The connection breaks, or the server reports an error within the stream; for
\* Ollama, which reads past the latter, only the former (see EndsEarly).
ReadFails ==
    /\ Reading /\ faults < MaxFaults
    /\ out' = Breaks(dialect, pump.st)
    /\ pump' = [pump EXCEPT !.done = TRUE] /\ wire' = <<>>
    /\ faults' = faults + 1
    /\ UNCHANGED <<phase, turn, history, dialect, asked, tries, reply, cut, acc>>

\* The server ends the stream early: cleanly, or at the token limit.
EndsEarly(how) ==
    /\ Reading /\ wire # <<>> /\ cut = "none" /\ faults < MaxFaults
    /\ wire' = IF how = "eof" THEN <<>> ELSE CutShort(dialect, wire)
    /\ cut' = how /\ faults' = faults + 1
    /\ UNCHANGED <<phase, turn, history, dialect, asked, tries, reply, pump, out, acc>>
-----------------------------------------------------------------------------
(* The loop's side: consume and assistantAccum.                            *)
Flush(a, sig) ==
    LET part == IF a.kind = "thought" THEN [kind |-> "thought", text |-> a.text, sig |-> sig]
                                      ELSE [kind |-> "text", text |-> a.text]
    IN  IF a.kind = "" \/ (a.text = <<>> /\ sig = <<>>) THEN [a EXCEPT !.kind = ""]
        ELSE [a EXCEPT !.parts = Append(@, part), !.kind = "", !.text = <<>>]

Delta(a, kind, text) ==
    LET b == IF a.kind = kind THEN a ELSE [Flush(a, <<>>) EXCEPT !.kind = kind]
    IN  [b EXCEPT !.text = @ \o text]

Consume(a, e) ==
    CASE e.type = "text_delta"      -> Delta(a, "text", e.text)
      [] e.type = "reasoning_delta" -> Delta(a, "thought", e.text)
      [] e.type = "reasoning_done"  -> Flush(Delta(a, "thought", <<>>), e.sig)
      [] e.type = "tool_call_end"   ->
           LET call == [id |-> e.id, name |-> e.name, args |-> e.args] IN
           [Flush(a, <<>>) EXCEPT !.calls = Append(@, call),
              !.parts = Append(@, [kind |-> "call", id |-> e.id, name |-> e.name, args |-> e.args,
                                   of |-> <<turn, Len(a.calls) + 1>>])]
      [] e.type = "message_done"    -> [a EXCEPT !.stop = e.reason]
      [] OTHER                      -> a

Deliver ==
    /\ phase = "streaming" /\ out # <<>> /\ Head(out).type # "error"
    /\ acc' = Consume(acc, Head(out))
    /\ out' = Tail(out)
    /\ UNCHANGED <<phase, turn, history, dialect, asked, tries, reply, wire, cut, pump, faults>>

\* The turn is asked again, with what arrived thrown away, or the run ends.
DeliverError ==
    /\ phase = "streaming" /\ out # <<>> /\ Head(out).type = "error"
    /\ phase' \in {"idle", "over"}
    /\ NoStream
    /\ UNCHANGED <<turn, history, dialect, asked, tries, faults>>

\* The run's context is done: shared.Send stops the pump wherever it is.
Cancel ==
    /\ phase \in {"asking", "streaming"}
    /\ phase' = "over" /\ asked' = <<>>
    /\ NoStream
    /\ UNCHANGED <<turn, history, dialect, tries, faults>>

\* The channel is closed.  The message and the results of its calls, one message
\* each, join the history; after a message without calls the caller goes on.
Message == Flush(acc, <<>>).parts
Results == [i \in DOMAIN acc.calls |->
              [role |-> "tool", from |-> "",
               parts |-> <<[kind |-> "result", id |-> acc.calls[i].id, of |-> <<turn, i>>]>>]]

Close ==
    /\ phase = "streaming" /\ pump.done /\ out = <<>>
    /\ history' = history
         \o When(Message # <<>>, [role |-> "assistant", parts |-> Message, from |-> dialect])
         \o (IF acc.calls = <<>> THEN <<User>> ELSE Results)
    /\ turn' = turn + 1 /\ phase' = "idle"
    /\ NoStream
    /\ UNCHANGED <<dialect, asked, tries, faults>>

WireNext ==
    \/ \E d \in DialectNames, o \in UNION {Options[t] : t \in Turns \cap {turn}} : Ask(d, o)
    \/ AttemptFails \/ AskFails \/ Answer
    \/ ReadChunk \/ ReadEnd \/ ReadFails \/ EndsEarly("eof") \/ EndsEarly("length")
    \/ Deliver \/ DeliverError \/ Close \/ Cancel

WireSpec == WireInit /\ [][WireNext]_wireVars
-----------------------------------------------------------------------------
(* Properties.                                                             *)

\* What the reader of a stream is given is what the server said.  A call that is
\* reported complete has all of its arguments, whatever becomes of the stream
\* afterwards; and when the stream ends well, the message has every call, in order,
\* all of the text, and every sealed block of reasoning with its seal.  Streams that
\* ended early without an error are excepted (event.go, tool_call_end; toolacc.go; the
\* pumps; assistantAccum).
Whole(call, b) == call.name = b.tool /\ call.args = Input(b)

TextOf(r) == Each(Those(r, LAMBDA b : b.kind = "text"), Pieces)
IsSealed(p)   == p.kind = "thought" /\ p.sig # <<>>
Sealed(parts) == Those(parts, IsSealed)

StreamedIsKept ==
    (phase = "streaming" /\ cut = "none") =>
        LET said == Calls(reply)
            got  == Flush(acc, <<>>).parts
            seals == Those(Thoughts(reply), LAMBDA b : b.signed)
        IN
        /\ \A i \in DOMAIN acc.calls : \E j \in DOMAIN said : Whole(acc.calls[i], said[j])
        /\ acc.stop # "" =>
             /\ Len(acc.calls) = Len(said)
             /\ \A i \in DOMAIN said : Whole(acc.calls[i], said[i])
             /\ Text([parts |-> got]) = TextOf(reply)
             /\ Len(Sealed(got)) = Len(seals)
             /\ \A i \in DOMAIN seals : Sealed(got)[i].sig = Seal(seals[i])
                                       /\ Sealed(got)[i].text = Pieces(seals[i])
             /\ (acc.stop = "tool_use") <=> (said # <<>>)

\* The request a provider of any dialect would be sent next answers every call: right
\* after the message that makes them there is one result for each, in their order, and
\* no other result anywhere; and the server can tell which is whose, by the id where the
\* dialect has ids, by the name of the tool and the order where it has none -- although two
\* dialects count the ids of a stream from 0, so that turns repeat them (the to...
\* functions of each encoder).
IsCall(e)  == e.k = "call"
ByName     == {"gemini", "ollama"}

ItemsOf(q, m) == Those(q, LAMBDA e : e.m = m)
CallsOf(q, m) == Those(ItemsOf(q, m), IsCall)
Fits(d, r, c) == IF d \in ByName THEN r.name = c.name ELSE r.id = c.id

Answered(d, calls, i, answer) ==
    /\ Len(answer) = 1 /\ answer[1].k = "result"
    /\ answer[1].of = calls[i].of /\ Fits(d, answer[1], calls[i])
    /\ d \notin ByName => \A j \in DOMAIN calls : Fits(d, answer[1], calls[j]) => j = i

Answers(d, q) ==
    /\ \A m \in DOMAIN history : \A i \in DOMAIN CallsOf(q, m) :
         Answered(d, CallsOf(q, m), i, ItemsOf(q, m + i))
    /\ \A j \in DOMAIN q : q[j].k = "result" =>
         \E m \in DOMAIN history : \E i \in DOMAIN CallsOf(q, m) : q[j].m = m + i

AnswersFindTheirCalls ==
    (phase = "idle" /\ history # <<User>>) =>
        \A d \in DialectNames : Answers(d, Encode(d, history))

\* A provider that seals its reasoning gets a message of its own back as it gave it:
\* every sealed block with its seal, and every call, in order; Gemini each in its place,
\* Anthropic and Responses the reasoning ahead of everything else of the message
\* (encode.go, responses_types.go).
IsSeal(e) == e.k = "thought" /\ e.sig # <<>>

Same(d, e, p) ==
    /\ e.k = p.kind
    /\ p.kind = "call" => e.id = p.id /\ e.name = <<p.name>> /\ e.of = p.of
    /\ p.kind = "thought" => e.sig = p.sig /\ (d # "responses" => e.text = p.text)

Matches(d, q, parts) ==
    Len(q) = Len(parts) /\ \A i \in DOMAIN parts : Same(d, q[i], parts[i])

Replayed(d, m) ==
    LET q     == ItemsOf(Encode(d, history), m)
        parts == history[m].parts
    IN
    IF d = "gemini"
    THEN Matches(d, Those(q, LAMBDA e : IsSeal(e) \/ IsCall(e)),
                    Those(parts, LAMBDA p : IsSealed(p) \/ p.kind = "call"))
    ELSE /\ Matches(d, Those(q, IsSeal), Sealed(parts))
         /\ Matches(d, Those(q, IsCall), OfKind(history[m], "call"))
         /\ \A j \in DOMAIN q : q[j].k = "thought" => \A i \in 1..j : q[i].k = "thought"

ThoughtsReplayed ==
    phase = "idle" =>
        \A m \in DOMAIN history : history[m].from \in {"responses", "anthropic", "gemini"}
                                     => Replayed(history[m].from, m)

\* An option that was asked for is in the request, or the request is refused; and a
\* thinking budget is one the API takes: at least 1024 and below max_tokens, which is
\* the caller's own where there is one (README.md:147; options.go:98; encode.go:273).
OptionsHonoured ==
    asked # <<>> =>
        LET o == asked[1]  body == asked[2] IN
        \/ body.refused
        \/ /\ body.format = o.format /\ body.choice = o.choice /\ body.stops = o.stops
           /\ (body.effort = "") <=> (o.effort = "")
           /\ o.max > 0 => body.max = o.max
           /\ (dialect = "anthropic" /\ o.effort \notin {"", "none"})
                => body.budget >= MinThinkingBudget /\ body.budget < body.max
=============================================================================
