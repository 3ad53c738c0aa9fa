------------------------------ MODULE Dialects ------------------------------
(***************************************************************************)
(* The five streaming dialects of providers/: what a server may send for a *)
(* reply (the ...Wire operators), and what the pump of each client makes   *)
(* of it: the events of one chunk (the ...Pump operators) and those of the *)
(* end of the stream (the ...Finish operators).                            *)
(*                                                                         *)
(* Text is a sequence of pieces; the piece <<at, p>> is the p-th of the    *)
(* block `at', so that a lost, doubled or misplaced fragment shows.  The   *)
(* JSON object {} a client puts for missing arguments is Braces.           *)
(***************************************************************************)
EXTENDS Integers, SequencesExt

DialectNames == {"chat", "responses", "anthropic", "gemini", "ollama"}

Each(seq, Op(_))  == FlattenSeq([i \in DOMAIN seq |-> Op(seq[i])])
When(cond, e)     == IF cond THEN <<e>> ELSE <<>>
Those(seq, Is(_)) == Each(seq, LAMBDA x : When(Is(x), x))

\* The blocks of a reply, without the place `at' they get when they are sent.
Blocks == {b \in [kind : {"text", "thought", "redacted", "call"}, tool : STRING, size : Nat,
                  signed : BOOLEAN] : /\ b.kind = "call" => b.tool # ""
                                      /\ b.kind = "redacted" => b.size = 0}
Calls(reply)    == Those(reply, LAMBDA b : b.kind = "call")
Thoughts(reply) == Those(reply, LAMBDA b : b.kind \in {"thought", "redacted"})
Pieces(b) == [p \in 1..b.size |-> <<b.at, p>>]
Seal(b)   == IF b.signed THEN <<b.kind, b.at>> ELSE <<>>
Braces(args) == IF args = <<>> THEN << <<<<>>, 0>> >> ELSE args
Input(b)  == Braces(Pieces(b))

\* The replies a server of the dialect can give.
Speaks(d, reply) ==
    LET th == Thoughts(reply) IN
    /\ d # "anthropic" => \A i \in DOMAIN reply : reply[i].kind # "redacted"
    /\ d \in {"chat", "ollama"} => \A i \in DOMAIN th : ~th[i].signed
    /\ d = "anthropic" => \A i \in DOMAIN th : th[i].signed
    /\ d = "responses" => \A i, j \in DOMAIN th : th[i].signed = th[j].signed
    /\ d = "gemini" =>
         /\ \A i \in DOMAIN reply : reply[i].kind = "text" => reply[i].size > 0
         /\ \A i \in 2..Len(reply) : reply[i - 1].kind = "thought" => reply[i].kind # "thought"
-----------------------------------------------------------------------------
(* Events (event.go) and the result of handling a chunk.                   *)
TextDelta(t)        == [type |-> "text_delta", text |-> t]
ReasoningDelta(t)   == [type |-> "reasoning_delta", text |-> t]
ReasoningDone(sig)  == [type |-> "reasoning_done", sig |-> sig]
ToolCallStart(c)    == [type |-> "tool_call_start", id |-> c.id, name |-> c.name]
ToolCallDelta(c)    == [type |-> "tool_call_delta", id |-> c.id, name |-> c.name, args |-> c.args]
ToolCallDone(c)     == [type |-> "tool_call_end", id |-> c.id, name |-> c.name,
                        args |-> Braces(c.args)]
UsageEvent          == [type |-> "usage"]
MessageDone(reason) == [type |-> "message_done", reason |-> reason]

Emit(st, events) == [st |-> st, events |-> events]
-----------------------------------------------------------------------------
(* Chat Completions.  Fragments of parallel calls may be interleaved.      *)
ChatText(k, b) == [p \in 1..b.size |-> [k |-> k, text |-> <<Pieces(b)[p]>>]]
ChatHead(b) == <<[k |-> "tool", index |-> b.at, id |-> <<"id", b.at>>, name |-> b.tool,
                  args |-> <<>>]>>
ChatRest(b) == [p \in 1..b.size |-> [k |-> "tool", index |-> b.at, id |-> <<>>, name |-> "",
                                     args |-> <<Pieces(b)[p]>>]]
ChatEnd(reason) == <<[k |-> "finish", reason |-> reason], [k |-> "usage"]>>

ChatWire(reply, woven) ==
    LET Chunks(b) ==
          CASE b.kind = "text"    -> ChatText("content", b)
            [] b.kind = "thought" -> ChatText("reasoning", b)
            [] b.kind = "call"    -> IF woven THEN <<>> ELSE ChatHead(b) \o ChatRest(b)
        calls == Calls(reply)
    IN  Each(reply, Chunks)
        \o (IF woven THEN Each(calls, ChatHead) \o Each(Reverse(calls), ChatRest) ELSE <<>>)
        \o ChatEnd(IF calls = <<>> THEN "end_turn" ELSE "tool_use")

CallAt(calls, index) == CHOOSE j \in DOMAIN calls : calls[j].index = index

\* toolAccumulator.apply: calls are kept by index, in order of arrival.
Apply(st, c) ==
    LET known == \E i \in DOMAIN st.calls : st.calls[i].index = c.index
        calls == IF known THEN st.calls
                 ELSE Append(st.calls, [index |-> c.index, id |-> <<>>, name |-> "",
                                        args |-> <<>>, started |-> FALSE])
        i     == CallAt(calls, c.index)
        name  == IF c.name # "" THEN c.name ELSE calls[i].name
        start == ~calls[i].started /\ name # ""
        call  == [calls[i] EXCEPT !.id = IF c.id # <<>> THEN c.id ELSE @, !.name = name,
                                  !.args = @ \o c.args, !.started = @ \/ start]
    IN  Emit([st EXCEPT !.calls = [calls EXCEPT ![i] = call]],
             When(start, ToolCallStart(call))
             \o When(c.args # <<>> /\ call.started, ToolCallDelta(call)))

ChatStart == [calls |-> <<>>, stop |-> "end_turn", usage |-> FALSE]

ChatPump(st, c) ==
    CASE c.k = "content"   -> Emit(st, <<TextDelta(c.text)>>)
      [] c.k = "reasoning" -> Emit(st, <<ReasoningDelta(c.text)>>)
      [] c.k = "tool"      -> Apply(st, c)
      [] c.k = "finish"    -> Emit([st EXCEPT !.stop = c.reason], <<>>)
      [] c.k = "usage"     -> Emit([st EXCEPT !.usage = TRUE], <<>>)

\* toolAccumulator.finish: the dialect marks the end of a call only by the end of
\* the stream.
ChatFlush(st) == LET Done(c) == When(c.started \/ c.name # "", ToolCallDone(c))
                 IN  Each(st.calls, Done)

ChatFinish(st) == ChatFlush(st) \o When(st.usage, UsageEvent) \o <<MessageDone(st.stop)>>

\* Mutant of Breaks: the calls accumulated so far are flushed before the error.
BreaksFlushing(d, st) == (IF d = "chat" THEN ChatFlush(st) ELSE <<>>) \o <<[type |-> "error"]>>

\* The connection breaks, or the decoder meets an error the server reports within
\* the stream.  Nothing that was accumulated is flushed.  Ollama's decoder reads
\* past such an error: its stream then ends early, without one.
Breaks(d, st) == <<[type |-> "error"]>>
-----------------------------------------------------------------------------
(* Responses.                                                              *)
ResponsesWire(reply) ==
    LET Chunks(b) ==
          CASE b.kind = "text"    -> ChatText("output_text.delta", b)
            [] b.kind = "thought" -> Append(ChatText("reasoning_text.delta", b),
                                            [k |-> "output_item.done", sig |-> Seal(b)])
            [] b.kind = "call"    ->
                 <<[k |-> "output_item.added", item |-> b.at, id |-> <<"id", b.at>>,
                    name |-> b.tool]>>
                 \o [p \in 1..b.size |-> [k |-> "arguments.delta", item |-> b.at,
                                          args |-> <<Pieces(b)[p]>>]]
                 \o <<[k |-> "arguments.done", item |-> b.at, args |-> Pieces(b)]>>
    IN  Append(Each(reply, Chunks), [k |-> "completed"])

ResponsesStart == [calls |-> <<>>, stop |-> "end_turn"]

ResponsesPump(st, c) ==
    LET at   == SelectInSeq(st.calls, LAMBDA t : c.k \in {"arguments.delta", "arguments.done"}
                                                    /\ t.item = c.item)
    IN
    CASE c.k = "output_text.delta"    -> Emit(st, <<TextDelta(c.text)>>)
      [] c.k = "reasoning_text.delta" -> Emit(st, <<ReasoningDelta(c.text)>>)
      [] c.k = "output_item.added"    ->
           LET call == [item |-> c.item, id |-> c.id, name |-> c.name, args |-> <<>>]
           IN  Emit([calls |-> Append(st.calls, call), stop |-> "tool_use"], <<ToolCallStart(call)>>)
      [] c.k = "output_item.done"     -> Emit(st, When(c.sig # <<>>, ReasoningDone(c.sig)))
      [] c.k = "arguments.delta" /\ at # 0 ->
           LET call == [st.calls[at] EXCEPT !.args = @ \o c.args]
           IN  Emit([st EXCEPT !.calls[at] = call], <<ToolCallDelta(call)>>)
      [] c.k = "arguments.done" /\ at # 0 ->
           Emit(st, <<ToolCallDone([st.calls[at] EXCEPT !.args = IF c.args # <<>> THEN c.args ELSE @])>>)
      [] c.k = "completed"            -> Emit(st, <<UsageEvent>>)
      [] OTHER                        -> Emit(st, <<>>)

ResponsesFinish(st) == <<MessageDone(st.stop)>>
-----------------------------------------------------------------------------
(* Anthropic Messages.                                                     *)
AnthropicWire(reply) ==
    LET Delta(k, b) == [p \in 1..b.size |-> [k |-> k, index |-> b.at, text |-> <<Pieces(b)[p]>>]]
        Inner(b) ==
          CASE b.kind = "text"     -> Delta("text_delta", b)
            [] b.kind = "thought"  -> Append(Delta("thinking_delta", b),
                                             [k |-> "signature_delta", index |-> b.at, sig |-> Seal(b)])
            [] b.kind = "redacted" -> <<>>
            [] b.kind = "call"     -> Delta("input_json_delta", b)
        Chunks(b) == <<[k |-> "content_block_start", index |-> b.at, kind |-> b.kind,
                        id |-> <<"id", b.at>>, name |-> b.tool, data |-> Seal(b)]>>
                     \o Inner(b) \o <<[k |-> "content_block_stop", index |-> b.at]>>
    IN  <<[k |-> "message_start"]>> \o Each(reply, Chunks)
        \o <<[k |-> "message_delta", reason |-> IF Calls(reply) = <<>> THEN "end_turn" ELSE "tool_use"]>>

AnthropicStart == [blocks |-> <<>>, stop |-> "end_turn", usage |-> FALSE]

AnthropicPump(st, c) ==
    LET at == SelectLastInSeq(st.blocks, LAMBDA b : "index" \in DOMAIN c /\ b.index = c.index)
        b  == st.blocks[at]
        Add(extra) == [st EXCEPT !.blocks[at] = extra]
    IN
    CASE c.k = "message_start" -> Emit([st EXCEPT !.usage = TRUE], <<>>)
      [] c.k = "content_block_start" ->
           LET new == [index |-> c.index, kind |-> c.kind, id |-> c.id, name |-> c.name,
                       args |-> <<>>, sig |-> IF c.kind = "redacted" THEN c.data ELSE <<>>]
           IN  Emit([st EXCEPT !.blocks = Append(@, new),
                               !.stop = IF c.kind = "call" THEN "tool_use" ELSE @],
                    When(c.kind = "call", ToolCallStart(new)))
      [] c.k = "text_delta"      -> Emit(st, <<TextDelta(c.text)>>)
      [] c.k = "thinking_delta"  -> Emit(st, <<ReasoningDelta(c.text)>>)
      [] c.k = "signature_delta" /\ at # 0 -> Emit(Add([b EXCEPT !.sig = @ \o c.sig]), <<>>)
      [] c.k = "input_json_delta" /\ at # 0 ->
           LET now == [b EXCEPT !.args = @ \o c.text]
           IN  Emit(Add(now), <<ToolCallDelta(now)>>)
      [] c.k = "content_block_stop" /\ at # 0 ->
           Emit(st, CASE b.kind = "call" -> <<ToolCallDone(b)>>
                      [] b.kind \in {"thought", "redacted"} -> <<ReasoningDone(b.sig)>>
                      [] OTHER -> <<>>)
      [] c.k = "message_delta"   -> Emit([st EXCEPT !.stop = c.reason, !.usage = TRUE], <<>>)
      [] OTHER                   -> Emit(st, <<>>)

AnthropicFinish(st) == When(st.usage, UsageEvent) \o <<MessageDone(st.stop)>>
-----------------------------------------------------------------------------
(* Gemini: thought parts have no boundaries, calls are whole and have no   *)
(* id of their own.                                                        *)
GeminiWire(reply) ==
    LET Parts(b) ==
          CASE b.kind = "text"    -> ChatText("text", b)
            [] b.kind = "thought" ->
                 [p \in 1..b.size |-> [k |-> "thought", text |-> <<Pieces(b)[p]>>,
                                       sig |-> IF p = b.size THEN Seal(b) ELSE <<>>]]
                 \o When(b.size = 0, [k |-> "thought", text |-> <<>>, sig |-> Seal(b)])
            [] b.kind = "call"    -> <<[k |-> "call", name |-> b.tool, args |-> Pieces(b)]>>
    IN  Append(Each(reply, Parts), [k |-> "finish", reason |-> "STOP"])

GeminiStart == [thinking |-> FALSE, sig |-> <<>>, next |-> 0, tool |-> FALSE, finish |-> ""]

\* closeThought: the state and the events of ending the open thought, if there is one.
CloseThought(st) == Emit([st EXCEPT !.thinking = FALSE, !.sig = <<>>],
                         When(st.thinking, ReasoningDone(st.sig)))

GeminiPump(st, c) ==
    LET closed == CloseThought(st) IN
    CASE c.k = "call" ->
           LET call == [id |-> <<"call", st.next>>, name |-> c.name, args |-> Braces(c.args)]
           IN  Emit([closed.st EXCEPT !.next = @ + 1, !.tool = TRUE],
                    closed.events \o <<ToolCallStart(call), ToolCallDelta(call), ToolCallDone(call)>>)
      [] c.k = "thought" ->
           Emit([st EXCEPT !.thinking = TRUE, !.sig = IF c.sig # <<>> THEN c.sig ELSE @],
                When(c.text # <<>>, ReasoningDelta(c.text)))
      [] c.k = "text"   -> Emit(closed.st, Append(closed.events, TextDelta(c.text)))
      [] c.k = "finish" -> Emit([st EXCEPT !.finish = c.reason], <<>>)

GeminiFinish(st) ==
    CloseThought(st).events \o <<UsageEvent>>
    \o <<MessageDone(CASE st.finish = "MAX_TOKENS" -> "max_tokens"
                       [] OTHER -> IF st.tool THEN "tool_use" ELSE "end_turn")>>
-----------------------------------------------------------------------------
(* Ollama: whole calls without an id, no boundaries of reasoning.          *)
OllamaWire(reply) ==
    LET Lines(b) ==
          CASE b.kind = "text"    -> ChatText("content", b)
            [] b.kind = "thought" -> ChatText("thinking", b)
            [] b.kind = "call"    -> <<[k |-> "call", name |-> b.tool, args |-> Pieces(b)]>>
    IN  Append(Each(reply, Lines), [k |-> "done", reason |-> "stop"])

OllamaStart == [next |-> 0, stop |-> "end_turn", usage |-> FALSE]

OllamaPump(st, c) ==
    CASE c.k = "content"  -> Emit(st, <<TextDelta(c.text)>>)
      [] c.k = "thinking" -> Emit(st, <<ReasoningDelta(c.text)>>)
      [] c.k = "call"     ->
           LET call == [id |-> <<"call", st.next>>, name |-> c.name, args |-> Braces(c.args)]
           IN  Emit([st EXCEPT !.next = @ + 1, !.stop = "tool_use"],
                    <<ToolCallStart(call), ToolCallDone(call)>>)
      [] c.k = "done"     -> Emit([st EXCEPT !.usage = TRUE,
                                             !.stop = IF c.reason = "length" THEN "max_tokens" ELSE @], <<>>)

OllamaFinish(st) == When(st.usage, UsageEvent) \o <<MessageDone(st.stop)>>
-----------------------------------------------------------------------------
(* By dialect.                                                             *)
Wires(d, reply) ==
    CASE d = "chat"      -> {ChatWire(reply, woven) : woven \in BOOLEAN}
      [] d = "responses" -> {ResponsesWire(reply)}
      [] d = "anthropic" -> {AnthropicWire(reply)}
      [] d = "gemini"    -> {GeminiWire(reply)}
      [] d = "ollama"    -> {OllamaWire(reply)}

\* What is still sent when the generation runs into its token limit before `rest':
\* Anthropic closes the open block, Responses tells it by an event no pump knows.
CutShort(d, rest) ==
    CASE d = "chat"      -> ChatEnd("max_tokens")
      [] d = "responses" -> <<[k |-> "incomplete"]>>
      [] d = "anthropic" ->
           When("index" \in DOMAIN Head(rest) /\ Head(rest).k # "content_block_start",
                [k |-> "content_block_stop", index |-> IF "index" \in DOMAIN Head(rest)
                                                       THEN Head(rest).index ELSE <<>>])
           \o <<[k |-> "message_delta", reason |-> "max_tokens"]>>
      [] d = "gemini"    -> <<[k |-> "finish", reason |-> "MAX_TOKENS"]>>
      [] d = "ollama"    -> <<[k |-> "done", reason |-> "length"]>>

Start(d) == CASE d = "chat" -> ChatStart [] d = "responses" -> ResponsesStart
              [] d = "anthropic" -> AnthropicStart [] d = "gemini" -> GeminiStart
              [] d = "ollama" -> OllamaStart

Pump(d, st, c) == CASE d = "chat" -> ChatPump(st, c) [] d = "responses" -> ResponsesPump(st, c)
                    [] d = "anthropic" -> AnthropicPump(st, c) [] d = "gemini" -> GeminiPump(st, c)
                    [] d = "ollama" -> OllamaPump(st, c)

Finish(d, st) == CASE d = "chat" -> ChatFinish(st) [] d = "responses" -> ResponsesFinish(st)
                   [] d = "anthropic" -> AnthropicFinish(st) [] d = "gemini" -> GeminiFinish(st)
                   [] d = "ollama" -> OllamaFinish(st)
=============================================================================
