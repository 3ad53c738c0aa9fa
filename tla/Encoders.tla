------------------------------ MODULE Encoders ------------------------------
(***************************************************************************)
(* The request side of the dialects: what each client writes of a history  *)
(* of gage messages, and of the options of a request.                      *)
(*                                                                         *)
(* A message is [role, parts]; a part is [kind, ...].  A request is a flat *)
(* sequence of items; `m' is the message an item was written for.  `of'    *)
(* marks which call a call or a result is: the encoders carry it along and *)
(* never look at it.                                                       *)
(***************************************************************************)
EXTENDS Dialects

OfKind(msg, kind) == Those(msg.parts, LAMBDA p : p.kind = kind)
Text(msg) == LET Of(p) == p.text IN Each(OfKind(msg, "text"), Of)

TextItem(m, text)    == [k |-> "text", m |-> m, text |-> text]
ThoughtItem(m, p)    == [k |-> "thought", m |-> m, text |-> p.text, sig |-> p.sig]
SealItem(m, p)       == [k |-> "thought", m |-> m, text |-> <<>>, sig |-> p.sig]
CallItem(m, p)       == [k |-> "call", m |-> m, id |-> p.id, name |-> <<p.name>>, of |-> p.of]
ResultItem(m, p, name) == [k |-> "result", m |-> m, id |-> p.id, name |-> name, of |-> p.of]

CallItems(h, m) == Each(OfKind(h[m], "call"), LAMBDA p : <<CallItem(m, p)>>)
ResultItems(h, m, Name(_)) ==
    Each(OfKind(h[m], "result"), LAMBDA p : <<ResultItem(m, p, Name(p.id))>>)

\* Chat: reasoning has no way back; content is never missing.
ChatMessage(h, m) ==
    CASE h[m].role = "tool"      -> ResultItems(h, m, LAMBDA id : <<>>)
      [] h[m].role = "assistant" ->
           When(Text(h[m]) # <<>> \/ OfKind(h[m], "call") = <<>>, TextItem(m, Text(h[m])))
           \o CallItems(h, m)
      [] OTHER -> <<TextItem(m, Text(h[m]))>>

\* Responses: the sealed reasoning first, as its seal alone; then text; then calls.
ResponsesMessage(h, m) ==
    CASE h[m].role = "tool"      -> ResultItems(h, m, LAMBDA id : <<>>)
      [] h[m].role = "assistant" ->
           Each(OfKind(h[m], "thought"), LAMBDA p : When(p.sig # <<>>, SealItem(m, p)))
           \o When(Text(h[m]) # <<>>, TextItem(m, Text(h[m])))
           \o CallItems(h, m)
      [] OTHER -> <<TextItem(m, Text(h[m]))>>

\* Mutant of AnthropicMessage: the parts are written in the order they came.
AnthropicMessageInPlace(h, m) ==
    LET Block(p) == CASE p.kind = "text"    -> <<TextItem(m, p.text)>>
                      [] p.kind = "call"    -> <<CallItem(m, p)>>
                      [] p.kind = "thought" -> <<ThoughtItem(m, p)>>
                      [] OTHER              -> <<>>
    IN  IF h[m].role = "tool" THEN ResultItems(h, m, LAMBDA id : <<>>)
        ELSE Each(h[m].parts, Block)

\* Anthropic: all reasoning first, sealed or not; then text and calls as they come.
AnthropicMessage(h, m) ==
    LET Block(p) == CASE p.kind = "text" -> <<TextItem(m, p.text)>>
                      [] p.kind = "call" -> <<CallItem(m, p)>>
                      [] OTHER           -> <<>>
    IN
    CASE h[m].role = "tool"      -> ResultItems(h, m, LAMBDA id : <<>>)
      [] h[m].role = "assistant" ->
           Each(OfKind(h[m], "thought"), LAMBDA p : <<ThoughtItem(m, p)>>) \o Each(h[m].parts, Block)
      [] OTHER -> <<TextItem(m, Text(h[m]))>>

\* Mutant of NameOf: the first call of that id names the tool.
NameOfFirst(h, m, id) ==
    LET calls == Each(SubSeq(h, 1, m - 1), LAMBDA msg : OfKind(msg, "call"))
        first == SelectInSeq(calls, LAMBDA p : p.id = id)
    IN  IF first = 0 THEN id ELSE <<calls[first].name>>

\* Gemini and Ollama answer a call by the name of its tool: the latest call of that
\* id written so far, or else the id itself.
NameOf(h, m, id) ==
    LET calls == Each(SubSeq(h, 1, m - 1), LAMBDA msg : OfKind(msg, "call"))
        last  == SelectLastInSeq(calls, LAMBDA p : p.id = id)
    IN  IF last = 0 THEN id ELSE <<calls[last].name>>

\* Gemini: parts in their order, reasoning only when sealed.
GeminiMessage(h, m) ==
    LET Part(p) == CASE p.kind = "text"    -> <<TextItem(m, p.text)>>
                     [] p.kind = "thought" -> When(p.sig # <<>>, ThoughtItem(m, p))
                     [] p.kind = "call"    -> <<CallItem(m, p)>>
                     [] OTHER              -> <<>>
    IN  IF h[m].role = "tool" THEN ResultItems(h, m, LAMBDA id : NameOf(h, m, id))
        ELSE Each(h[m].parts, Part)

OllamaMessage(h, m) ==
    CASE h[m].role = "tool"      -> ResultItems(h, m, LAMBDA id : NameOf(h, m, id))
      [] h[m].role = "assistant" -> <<TextItem(m, Text(h[m]))>> \o CallItems(h, m)
      [] OTHER -> <<TextItem(m, Text(h[m]))>>

Encode(d, h) ==
    FlattenSeq([m \in DOMAIN h |->
        CASE d = "chat"      -> ChatMessage(h, m)
          [] d = "responses" -> ResponsesMessage(h, m)
          [] d = "anthropic" -> AnthropicMessage(h, m)
          [] d = "gemini"    -> GeminiMessage(h, m)
          [] d = "ollama"    -> OllamaMessage(h, m)])
-----------------------------------------------------------------------------
(* Options: [effort, format, choice, stops, max, default], each "" / 0 /   *)
(* FALSE when unset.  "custom" is a label outside the portable scale;      *)
(* `default' is the max_tokens the client itself was configured with.      *)
Efforts == {"", "none", "minimal", "low", "medium", "high", "xhigh", "max", "custom"}
OptionRecords == [effort : Efforts, format : {"", "json", "json_schema", "other"},
                  choice : {"", "auto", "tool"}, stops : BOOLEAN, max : Nat, default : Nat]

Canonical(effort) == effort # "custom"

ThinkingBudget == [none |-> 0, minimal |-> 1024, low |-> 2048, medium |-> 8192,
                   high |-> 16384, xhigh |-> 24576, max |-> 32768]
MinThinkingBudget == 1024
DefaultMaxTokens  == 8192

Refused == [refused |-> TRUE]
Plain(o) == [refused |-> FALSE, effort |-> o.effort, budget |-> 0, format |-> o.format,
             choice |-> o.choice, stops |-> o.stops, max |-> o.max]

ChatBody(o) == IF o.format = "other" THEN Refused ELSE Plain(o)

ResponsesBody(o) == IF o.stops \/ o.format = "other" THEN Refused ELSE Plain(o)

\* Mutant of AnthropicBody: the budget is lowered to max_tokens, not below it, and its
\* minimum is not looked at.
AnthropicBodyLoose(o) ==
    LET max    == IF o.max > 0 THEN o.max
                    ELSE IF o.default > 0 THEN o.default ELSE DefaultMaxTokens
        thinks == o.effort \notin {"", "none"}
    IN
    IF o.format \in {"json", "other"} \/ (thinks /\ ~Canonical(o.effort)) THEN Refused
    ELSE [Plain(o) EXCEPT !.max = max,
                          !.budget = IF ~thinks THEN 0
                                     ELSE IF ThinkingBudget[o.effort] > max THEN max
                                     ELSE ThinkingBudget[o.effort]]

\* applyThinking: the caller's own max_tokens wins over the effort, a default yields.
AnthropicBody(o) ==
    LET pinned == o.max > 0 \/ o.default > 0
        max    == IF o.max > 0 THEN o.max
                    ELSE IF o.default > 0 THEN o.default ELSE DefaultMaxTokens
        full   == ThinkingBudget[o.effort]
        budget == IF full >= max /\ pinned THEN max - 1 ELSE full
        thinks == o.effort \notin {"", "none"}
    IN
    IF \/ o.format \in {"json", "other"}
       \/ thinks /\ ~Canonical(o.effort)
       \/ thinks /\ budget < MinThinkingBudget
    THEN Refused
    ELSE [Plain(o) EXCEPT !.budget = IF thinks THEN budget ELSE 0,
                          !.max = IF thinks /\ full >= max /\ ~pinned THEN full + max ELSE max]

GeminiBody(o) == IF o.format = "other" \/ ~Canonical(o.effort) THEN Refused ELSE Plain(o)

\* Ollama: thinking is on or off.
OllamaBody(o) == IF o.choice # "" \/ o.format = "other" THEN Refused
                 ELSE [Plain(o) EXCEPT !.effort = IF o.effort \in {"", "none"} THEN @ ELSE "on"]

Body(d, o) == CASE d = "chat"      -> ChatBody(o)
                [] d = "responses" -> ResponsesBody(o)
                [] d = "anthropic" -> AnthropicBody(o)
                [] d = "gemini"    -> GeminiBody(o)
                [] d = "ollama"    -> OllamaBody(o)
=============================================================================
