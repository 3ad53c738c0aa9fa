--------------------------- MODULE Fallback_proofs ---------------------------
(***************************************************************************)
(* Proofs about Fallback, for every number of providers and every length   *)
(* of their streams.                                                       *)
(***************************************************************************)
EXTENDS Fallback, TLAPS

-----------------------------------------------------------------------------
(* The inductive invariant *)

\* Where the relaying goroutine stands among the providers.
Place ==
    /\ pc \in {"receiving", "draining", "sending"} => at \in Providers
    /\ pc = "last" => at = N + 1

\* A provider not tried yet was never called.
Untouched ==
    \A p \in Providers :
        p > at \/ (p = at /\ pc = "next") => pump[p] = "unused" /\ made[p] = <<>>

\* A provider that was passed over has ended and produced no content.
PassedOver ==
    \A p \in Providers : p < at => pump[p] # "running" /\ ~ContentIn(made[p])

Errors ==
    /\ lastErr # None => lastErr.kind = "error"
    /\ pc = "draining" => lastErr # None

\* A stream has events of its provider, the ending one last, and is closed for
\* a reason the contract knows.
Streams ==
    \A p \in Providers :
        /\ \A i \in DOMAIN made[p] :
             made[p][i].from = p /\ (Ends(made[p][i]) => i = Len(made[p]))
        /\ pump[p] = "closed" =>
             EndIn(made[p]) \/ cancelled \/ ~ContentIn(made[p])

\* Before content: the reader has seen nothing, all events are held.
Holding ==
    /\ pc \in {"next", "last", "draining"} \/ (pc = "receiving" /\ ~committed) =>
         got = <<>>
    /\ pc = "receiving" /\ ~committed =>
         buffered = made[at] /\ ~ContentIn(made[at])
    /\ pc = "draining" => ~ContentIn(made[at])

\* From the first content on: what the stream has handed over is with the
\* reader or on its way.
Relaying ==
    /\ pc = "sending" => committed /\ queue # <<>>
    /\ pc # "sending" => queue = <<>>
    /\ pc = "sending" \/ (pc = "receiving" /\ committed) =>
         got \o queue = made[at] /\ ContentIn(made[at])

\* What the reader holds when the goroutine is through.
Whole ==
    \E p \in Providers :
        \/ got = made[p] /\ ContentIn(got) /\ EndIn(got)
        \/ got = <<Event(p, "error")>>

Closing ==
    pc \in {"closing", "closed"} => OneStreamSeen /\ (cancelled \/ Whole)

IInv ==
    /\ TypeOK /\ Place /\ Untouched /\ PassedOver /\ Errors
    /\ Streams /\ Holding /\ Relaying /\ Closing

-----------------------------------------------------------------------------
(* Sequences of events *)

LEMMA EventIsEvent ==
  ASSUME NEW p \in Providers, NEW kind \in Kinds
  PROVE  Event(p, kind) \in Events /\ Event(p, kind).from = p /\ Event(p, kind).kind = kind
BY DEF Event, Events

LEMMA AppendFacts ==
  ASSUME NEW s \in Seq(Events), NEW e \in Events
  PROVE  /\ Append(s, e) \in Seq(Events)
         /\ ContentIn(Append(s, e)) <=> ContentIn(s) \/ isContent(e)
         /\ EndIn(Append(s, e)) <=> EndIn(s) \/ Ends(e)
         /\ s \o <<e>> = Append(s, e)
         /\ s \o <<>> = s
<1>1. Append(s, e) \in Seq(Events) /\ s \o <<e>> = Append(s, e) /\ s \o <<>> = s
  OBVIOUS
<1>2. /\ DOMAIN Append(s, e) = DOMAIN s \cup {Len(s) + 1}
      /\ \A i \in DOMAIN s : Append(s, e)[i] = s[i]
      /\ Append(s, e)[Len(s) + 1] = e
  OBVIOUS
<1> QED
  BY <1>1, <1>2 DEF ContentIn, EndIn

LEMMA EmptyIsSeq == <<>> \in Seq(Events)
OBVIOUS

LEMMA EmptyFacts ==
  ASSUME NEW s \in Seq(Events)
  PROVE  (s = <<>>) <=> (Len(s) = 0)
OBVIOUS

\* Sending the head of a queue moves it from the queue to the receiver.
LEMMA MoveHead ==
  ASSUME NEW g \in Seq(Events), NEW q \in Seq(Events), q # <<>>
  PROVE  /\ Append(g, Head(q)) \o Tail(q) = g \o q
         /\ Head(q) \in Events /\ Tail(q) \in Seq(Events)
         /\ Append(g, Head(q)) \in Seq(Events)
         /\ (Tail(q) = <<>>) <=> (Len(q) = 1)
<1>1. /\ Head(q) \in Events /\ Tail(q) \in Seq(Events)
      /\ Append(g, Head(q)) \in Seq(Events)
      /\ Len(q) \in Nat \ {0} /\ Len(g) \in Nat /\ Len(Tail(q)) = Len(q) - 1
  OBVIOUS
<1>2. (Tail(q) = <<>>) <=> (Len(q) = 1)
  <2>1. (Tail(q) = <<>>) <=> (Len(Tail(q)) = 0)
    BY <1>1, EmptyFacts, Zenon
  <2>2. (Len(Tail(q)) = 0) <=> (Len(q) = 1)
    BY <1>1
  <2> QED
    BY <2>1, <2>2, Zenon
<1>3. /\ Append(g, Head(q)) \o Tail(q) \in Seq(Events) /\ g \o q \in Seq(Events)
      /\ Len(Append(g, Head(q)) \o Tail(q)) = Len(g \o q)
  BY <1>1
<1>4. \A i \in 1 .. Len(g \o q) : (Append(g, Head(q)) \o Tail(q))[i] = (g \o q)[i]
  <2> SUFFICES ASSUME NEW i \in 1 .. Len(g \o q)
               PROVE  (Append(g, Head(q)) \o Tail(q))[i] = (g \o q)[i]
    OBVIOUS
  <2>1. CASE i <= Len(g)
    BY <2>1, <1>1
  <2>2. CASE i = Len(g) + 1
    BY <2>2, <1>1
  <2>3. CASE i > Len(g) + 1
    BY <2>3, <1>1
  <2> QED
    BY <1>1, <2>1, <2>2, <2>3
<1>5. Append(g, Head(q)) \o Tail(q) = g \o q
  BY <1>3, <1>4
<1> QED
  BY <1>1, <1>2, <1>5

LEMMA PrefixFacts ==
  ASSUME NEW g \in Seq(Events), NEW q \in Seq(Events), NEW s \in Seq(Events), g \o q = s
  PROVE  /\ Len(g) <= Len(s) /\ g = SubSeq(s, 1, Len(g))
         /\ \A i \in DOMAIN g : i \in DOMAIN s /\ g[i] = s[i]
         /\ q # <<>> => Len(g) < Len(s) /\ Head(q) = s[Len(g) + 1]
         /\ q # <<>> => \A i \in DOMAIN g : i # Len(s)
OBVIOUS

-----------------------------------------------------------------------------
(* Initial states *)

LEMMA InitIInv == Init => IInv
<1> SUFFICES ASSUME Init
             PROVE  IInv
  OBVIOUS
<1> USE FallbackAssumption
<1>1. TypeOK
  <2>1. made \in [Providers -> Seq(Events)] /\ pump \in [Providers -> {"unused", "running", "closed"}]
    BY EmptyIsSeq DEF Init
  <2>2. at \in 1 .. N + 1 /\ ~(at > 1)
    BY DEF Init
  <2> QED
    BY <2>1, <2>2, EmptyIsSeq DEF Init, TypeOK
<1>2. \A p \in Providers : made[p] = <<>> /\ pump[p] = "unused"
  BY DEF Init
<1>3. Place /\ Untouched /\ Errors /\ Closing
  BY <1>2 DEF Init, Place, Untouched, Errors, Closing
<1>4. PassedOver
  BY DEF Init, PassedOver, Providers
<1>5. Streams
  BY <1>2 DEF Streams
<1>6. Holding /\ Relaying
  BY DEF Init, Holding, Relaying
<1> QED
  BY <1>1, <1>3, <1>4, <1>5, <1>6 DEF IInv

-----------------------------------------------------------------------------
(* Types *)

LEMMA TypeStep == TypeOK /\ Place /\ Errors /\ Relaying /\ [Next]_vars => TypeOK'
<1> SUFFICES ASSUME TypeOK, Place, Errors, Relaying, [Next]_vars
             PROVE  TypeOK'
  OBVIOUS
<1> USE FallbackAssumption
<1>1. \A p \in Providers, kind \in Kinds : Event(p, kind) \in Events /\ Event(p, kind) # None
  BY EventIsEvent
<1>2. "error" \in Kinds
  BY DEF Kinds
<1>3. CASE Leave
  BY <1>3 DEF Leave, TypeOK, local, reader
<1>4. CASE Open
  BY <1>4, EmptyIsSeq DEF Open, TypeOK, local, reader
<1>5. CASE OpenFails
  <2>1. at \in Providers
    BY <1>5 DEF OpenFails, TypeOK, Providers
  <2> QED
    BY <1>5, <1>1, <1>2, <2>1 DEF OpenFails, Failed, TypeOK, local, reader, Providers
<1>6. CASE Drained
  <2>1. at \in Providers /\ lastErr # None
    BY <1>6 DEF Drained, Place, Errors
  <2> QED
    BY <1>6, <2>1 DEF Drained, Failed, TypeOK, local, reader, Providers
<1>7. CASE StreamEnds
  <2>1. at \in Providers
    BY <1>7 DEF StreamEnds, Place
  <2> QED
    BY <1>7, <1>1, <1>2, <2>1 DEF StreamEnds, Failed, TypeOK, local, reader, Providers
<1>8. CASE Relay
  <2>1. queue \in Seq(Events) /\ queue # <<>> /\ got \in Seq(Events)
    BY <1>8 DEF Relay, Relaying, TypeOK
  <2>2. queue' \in Seq(Events) /\ got' \in Seq(Events)
    BY <1>8, <2>1, MoveHead DEF Relay
  <2> QED
    BY <1>8, <2>2 DEF Relay, TypeOK, local, reader
<1>9. CASE RelayAborts \/ Close
  BY <1>9, EmptyIsSeq DEF RelayAborts, Close, TypeOK, local, reader
<1>14. CASE ForwardLast
  <2>1. lastErr \in Events
    BY <1>14 DEF ForwardLast, Place, TypeOK
  <2>2. got' \in Seq(Events)
    BY <1>14, <2>1, AppendFacts DEF ForwardLast, TypeOK
  <2> QED
    BY <1>14, <2>2 DEF ForwardLast, TypeOK, local, reader
<1>10. ASSUME NEW p \in Providers, Emit(p)
       PROVE  TypeOK'
  <2>1. PICK kind \in Kinds :
          /\ made' = [made EXCEPT ![p] = Append(@, Event(p, kind))]
          /\ Receive(Event(p, kind))
    BY <1>10 DEF Emit
  <2> DEFINE e == Event(p, kind)
  <2>2. e \in Events /\ e # None
    BY <1>1
  <2>3. /\ made' \in [Providers -> Seq(Events)]
        /\ UNCHANGED <<at, pump, reading, cancelled, got>>
    BY <1>10, <2>1, <2>2, AppendFacts DEF Emit, reader, TypeOK
  <2>4. /\ queue' \in Seq(Events) /\ buffered' \in Seq(Events)
        /\ pc' \in {"receiving", "sending", "draining"}
        /\ lastErr' \in {lastErr, e}
    <3> HIDE DEF e
    <3>1. pc = "receiving" /\ Receive(e)
      BY <1>10, <2>1 DEF e, Emit
    <3>2. queue \in Seq(Events) /\ buffered \in Seq(Events) /\ <<e>> \in Seq(Events)
      BY <2>2 DEF TypeOK
    <3>3. Append(buffered, e) \in Seq(Events) /\ buffered \o <<e>> \in Seq(Events)
          /\ <<>> \o <<e>> \in Seq(Events)
      BY <2>2, <3>2
    <3> QED
      BY <3>1, <3>2, <3>3 DEF Receive, Hold, local
  <2>5. committed' \in BOOLEAN
    BY <2>1, Zenon DEF Receive, Hold, local, TypeOK
  <2> QED
    BY <2>2, <2>3, <2>4, <2>5 DEF TypeOK
<1>11. ASSUME NEW p \in Providers, PumpCloses(p)
       PROVE  TypeOK'
  BY <1>11 DEF PumpCloses, TypeOK, local, reader
<1>12. CASE StopReading \/ Cancel
  BY <1>12 DEF StopReading, Cancel, TypeOK, local, reader
<1>13. CASE UNCHANGED vars
  BY <1>13 DEF vars, TypeOK
<1> QED
  BY <1>3, <1>4, <1>5, <1>6, <1>7, <1>8, <1>9, <1>10, <1>11, <1>12, <1>13, <1>14
     DEF Next, RelayStep, PumpStep

-----------------------------------------------------------------------------
(* Steps of the relaying goroutine *)

LEMMA LeaveStep == IInv /\ Leave => IInv'
<1> SUFFICES ASSUME IInv, Leave
             PROVE  IInv'
  OBVIOUS
<1> USE FallbackAssumption
<1>1. TypeOK'
  BY TypeStep DEF IInv, Next, RelayStep
<1>2. /\ pc = "next" /\ got = <<>>
      /\ UNCHANGED <<at, committed, buffered, queue, lastErr, pump, made, reading, cancelled, got>>
      /\ (at > N /\ pc' = "last") \/ (at <= N /\ cancelled /\ pc' = "closing")
      /\ N \in Nat /\ at \in 1 .. N + 1
  BY DEF IInv, TypeOK, Holding, Leave, local, reader
<1>3. Place' /\ Errors'
  BY <1>2 DEF IInv, Place, Errors
<1>4. Untouched' /\ PassedOver'
  BY <1>2 DEF IInv, Untouched, PassedOver, ContentIn, Providers
<1>5. Streams'
  BY <1>2 DEF IInv, Streams, EndIn, ContentIn
<1>6. Holding' /\ Relaying'
  BY <1>2 DEF IInv, Holding, Relaying
<1>7. Closing'
  <2>1. CASE pc' = "last"
    BY <2>1 DEF Closing
  <2>2. CASE at <= N /\ cancelled /\ pc' = "closing"
    <3>1. at \in Providers /\ made[at] \in Seq(Events)
      BY <1>2, <2>2 DEF IInv, TypeOK, Providers
    <3>2. Len(got) = 0 /\ Len(got) <= Len(made[at]) /\ got = SubSeq(made[at], 1, Len(got))
      BY <1>2, <3>1
    <3>3. OneStreamSeen'
      BY <1>2, <3>1, <3>2 DEF OneStreamSeen
    <3> QED
      BY <1>2, <2>2, <3>3 DEF Closing
  <2> QED
    BY <1>2, <2>1, <2>2
<1> QED
  BY <1>1, <1>3, <1>4, <1>5, <1>6, <1>7 DEF IInv

LEMMA OpenStep == IInv /\ Open => IInv'
<1> SUFFICES ASSUME IInv, Open
             PROVE  IInv'
  OBVIOUS
<1> USE FallbackAssumption
<1>1. TypeOK'
  BY TypeStep DEF IInv, Next, RelayStep
<1>2. /\ pc = "next" /\ pc' = "receiving" /\ got = <<>> /\ ~cancelled
      /\ committed' = FALSE /\ buffered' = <<>>
      /\ pump' = [pump EXCEPT ![at] = "running"]
      /\ UNCHANGED <<at, queue, lastErr, made, reading, cancelled, got>>
      /\ pump \in [Providers -> {"unused", "running", "closed"}]
      /\ N \in Nat /\ at \in Providers
  BY DEF IInv, TypeOK, Holding, Open, reader, Providers
<1>3. pump[at] = "unused" /\ made[at] = <<>> /\ ~ContentIn(made[at]) /\ queue = <<>>
  BY <1>2 DEF IInv, Untouched, ContentIn, Relaying
<1>4. Place' /\ Errors' /\ Closing'
  BY <1>2 DEF IInv, Place, Errors, Closing
<1>5. Untouched' /\ PassedOver'
  BY <1>2 DEF IInv, Untouched, PassedOver, ContentIn, Providers
<1>6. Streams'
  BY <1>2 DEF IInv, Streams, EndIn, ContentIn
<1>7. Holding' /\ Relaying'
  BY <1>2, <1>3 DEF IInv, Holding, Relaying, ContentIn
<1> QED
  BY <1>1, <1>4, <1>5, <1>6, <1>7 DEF IInv

\* The loop goes on to the next provider: the one it leaves has ended without
\* content, and the reader has seen nothing.
LEMMA FailedStep ==
  ASSUME IInv, TypeOK', NEW err \in Events, err.kind = "error", Failed(err),
         at \in Providers, pump[at] # "running", ~ContentIn(made[at]), pc # "sending",
         got = <<>>, UNCHANGED <<committed, buffered, queue, pump, made, reading, cancelled, got>>
  PROVE  IInv'
<1> USE FallbackAssumption
<1>1. /\ pc' = "next" /\ at' = at + 1 /\ lastErr' = err
      /\ N \in Nat /\ at \in Nat /\ at <= N /\ queue = <<>>
  BY DEF Failed, Providers, IInv, Relaying
<1>2. Place' /\ Errors' /\ Closing'
  BY <1>1 DEF Place, Errors, Closing
<1>3. Untouched'
  BY <1>1 DEF IInv, Untouched, Providers
<1>4. PassedOver'
  BY <1>1 DEF IInv, PassedOver, ContentIn, Providers
<1>5. Streams'
  BY DEF IInv, Streams, EndIn, ContentIn
<1>6. Holding' /\ Relaying'
  BY <1>1 DEF Holding, Relaying
<1> QED
  BY <1>2, <1>3, <1>4, <1>5, <1>6 DEF IInv

LEMMA OpenFailsStep == IInv /\ OpenFails => IInv'
<1> SUFFICES ASSUME IInv, OpenFails
             PROVE  IInv'
  OBVIOUS
<1>1. TypeOK'
  BY TypeStep DEF IInv, Next, RelayStep
<1>2. /\ pc = "next" /\ at \in Providers /\ Failed(Event(at, "error")) /\ got = <<>>
      /\ UNCHANGED <<committed, buffered, queue, pump, made, reading, cancelled, got>>
  BY FallbackAssumption DEF IInv, TypeOK, Holding, OpenFails, local, reader, Providers
<1>3. pump[at] = "unused" /\ made[at] = <<>> /\ ~ContentIn(made[at])
  BY <1>2 DEF IInv, Untouched, ContentIn
<1>4. Event(at, "error") \in Events /\ Event(at, "error").kind = "error"
  BY <1>2, EventIsEvent DEF Kinds
<1> QED
  BY <1>1, <1>2, <1>3, <1>4, FailedStep

LEMMA DrainedStep == IInv /\ Drained => IInv'
<1> SUFFICES ASSUME IInv, Drained
             PROVE  IInv'
  OBVIOUS
<1>1. TypeOK'
  BY TypeStep DEF IInv, Next, RelayStep
<1>2. /\ pc = "draining" /\ at \in Providers /\ Failed(lastErr) /\ got = <<>>
      /\ pump[at] = "closed" /\ ~ContentIn(made[at])
      /\ lastErr \in Events /\ lastErr.kind = "error"
      /\ UNCHANGED <<committed, buffered, queue, pump, made, reading, cancelled, got>>
  BY DEF IInv, TypeOK, Place, Errors, Holding, Drained, local, reader
<1> QED
  BY <1>1, <1>2, FailedStep

LEMMA StreamEndsStep == IInv /\ StreamEnds => IInv'
<1> SUFFICES ASSUME IInv, StreamEnds
             PROVE  IInv'
  OBVIOUS
<1> USE FallbackAssumption
<1>1. TypeOK'
  BY TypeStep DEF IInv, Next, RelayStep
<1>2. /\ pc = "receiving" /\ at \in Providers /\ pump[at] = "closed" /\ queue = <<>>
      /\ made[at] \in Seq(Events) /\ got \in Seq(Events)
      /\ UNCHANGED <<committed, buffered, queue, pump, made, reading, cancelled, got>>
  BY DEF IInv, TypeOK, Place, Relaying, StreamEnds, local, reader
<1>3. CASE ~committed /\ ~cancelled
  <2>1. Failed(Event(at, "error")) /\ got = <<>> /\ ~ContentIn(made[at])
    BY <1>2, <1>3 DEF IInv, Holding, StreamEnds
  <2>2. Event(at, "error") \in Events /\ Event(at, "error").kind = "error"
    BY <1>2, EventIsEvent DEF Kinds
  <2> QED
    BY <1>1, <1>2, <2>1, <2>2, FailedStep
<1>4. CASE committed \/ cancelled
  <2>1. pc' = "closing" /\ UNCHANGED <<at, lastErr>>
    BY <1>4 DEF StreamEnds
  <2>2. Place' /\ Errors' /\ Holding' /\ Relaying'
    BY <1>2, <2>1 DEF IInv, Place, Errors, Holding, Relaying
  <2>3. Untouched' /\ PassedOver'
    BY <1>2, <2>1 DEF IInv, Untouched, PassedOver, ContentIn, Providers
  <2>4. Streams'
    BY <1>2 DEF IInv, Streams, EndIn, ContentIn
  <2>5. CASE committed
    <3>1. got = made[at] /\ ContentIn(made[at])
      BY <1>2, <2>5, AppendFacts DEF IInv, Relaying
    <3>2. cancelled \/ EndIn(made[at])
      BY <1>2, <3>1 DEF IInv, Streams
    <3>3. Len(got) <= Len(made[at]) /\ got = SubSeq(made[at], 1, Len(got))
      BY <1>2, <3>1
    <3>4. OneStreamSeen
      BY <1>2, <3>1, <3>3 DEF OneStreamSeen
    <3>5. cancelled \/ Whole
      BY <1>2, <3>1, <3>2 DEF Whole
    <3> QED
      BY <1>1, <1>2, <2>1, <2>2, <2>3, <2>4, <3>4, <3>5
         DEF IInv, Closing, OneStreamSeen, Whole, ContentIn, EndIn
  <2>6. CASE ~committed /\ cancelled
    <3>1. got = <<>>
      BY <1>2, <2>6 DEF IInv, Holding
    <3>2. Len(got) <= Len(made[at]) /\ got = SubSeq(made[at], 1, Len(got))
      BY <1>2, <3>1
    <3>3. OneStreamSeen'
      BY <1>2, <2>1, <3>1, <3>2 DEF OneStreamSeen
    <3> QED
      BY <1>1, <1>2, <2>2, <2>3, <2>4, <2>6, <3>3 DEF IInv, Closing
  <2> QED
    BY <1>4, <2>5, <2>6
<1> QED
  BY <1>3, <1>4

\* What a send of the goroutine does: the reader has one more event of the
\* stream, the queue one less.
LEMMA RelayFacts ==
  ASSUME IInv, Relay
  PROVE  /\ pc = "sending" /\ committed /\ at \in Providers /\ ContentIn(made[at])
         /\ got \in Seq(Events) /\ queue \in Seq(Events) /\ made[at] \in Seq(Events)
         /\ queue # <<>> /\ got \o queue = made[at]
         /\ got' = Append(got, Head(queue)) /\ queue' = Tail(queue)
         /\ got' \o queue' = made[at]
         /\ got' \in Seq(Events) /\ queue' \in Seq(Events)
         /\ pc' = (IF queue' = <<>> THEN "receiving" ELSE "sending")
         /\ UNCHANGED <<at, committed, buffered, lastErr, pump, made, reading, cancelled>>
<1>1. /\ pc = "sending" /\ committed /\ at \in Providers /\ ContentIn(made[at])
      /\ got \in Seq(Events) /\ queue \in Seq(Events) /\ made[at] \in Seq(Events)
      /\ queue # <<>> /\ got \o queue = made[at]
  BY DEF IInv, TypeOK, Place, Relaying, Relay
<1>2. got' = Append(got, Head(queue)) /\ queue' = Tail(queue)
  BY DEF Relay
<1>3. /\ got' \o queue' = made[at] /\ got' \in Seq(Events) /\ queue' \in Seq(Events)
      /\ (queue' = <<>>) <=> (Len(queue) = 1)
  BY <1>1, <1>2, MoveHead, Zenon
<1> QED
  BY <1>1, <1>2, <1>3 DEF Relay, local, reader

LEMMA RelayStepInv == IInv /\ Relay => IInv'
<1> SUFFICES ASSUME IInv, Relay
             PROVE  IInv'
  OBVIOUS
<1>1. TypeOK'
  BY TypeStep DEF IInv, Next, RelayStep
<1>2. Place' /\ Errors' /\ Closing'
  BY RelayFacts DEF IInv, Place, Errors, Closing
<1>3. Untouched' /\ PassedOver'
  BY RelayFacts DEF IInv, Untouched, PassedOver, ContentIn
<1>4. Streams'
  BY RelayFacts DEF IInv, Streams, EndIn, ContentIn
<1>5. Holding'
  BY RelayFacts DEF Holding
<1>6. Relaying'
  BY RelayFacts DEF IInv, Relaying, ContentIn
<1> QED
  BY <1>1, <1>2, <1>3, <1>4, <1>5, <1>6 DEF IInv

LEMMA AbortStep == IInv /\ RelayAborts => IInv'
<1> SUFFICES ASSUME IInv, RelayAborts
             PROVE  IInv'
  OBVIOUS
<1>1. TypeOK'
  BY TypeStep DEF IInv, Next, RelayStep
<1>2. /\ pc = "sending" /\ cancelled /\ pc' = "closing" /\ queue' = <<>>
      /\ at \in Providers /\ ContentIn(made[at]) /\ got \o queue = made[at]
      /\ got \in Seq(Events) /\ queue \in Seq(Events) /\ made[at] \in Seq(Events)
      /\ UNCHANGED <<at, committed, buffered, lastErr, pump, made, reading, cancelled, got>>
  BY DEF IInv, TypeOK, Place, Relaying, RelayAborts, local, reader
<1>3. Place' /\ Errors' /\ Holding' /\ Relaying'
  BY <1>2 DEF IInv, Place, Errors, Holding, Relaying
<1>4. Untouched' /\ PassedOver'
  BY <1>2 DEF IInv, Untouched, PassedOver, ContentIn
<1>5. Streams'
  BY <1>2 DEF IInv, Streams, EndIn, ContentIn
<1>6. Len(got) <= Len(made[at]) /\ got = SubSeq(made[at], 1, Len(got))
  BY <1>2, PrefixFacts
<1>7. OneStreamSeen
  BY <1>2, <1>6 DEF OneStreamSeen
<1>8. Closing'
  BY <1>2, <1>7 DEF Closing, OneStreamSeen, ContentIn
<1> QED
  BY <1>1, <1>3, <1>4, <1>5, <1>8 DEF IInv

LEMMA ForwardStep == IInv /\ ForwardLast => IInv'
<1> SUFFICES ASSUME IInv, ForwardLast
             PROVE  IInv'
  OBVIOUS
<1> USE FallbackAssumption
<1>1. TypeOK'
  BY TypeStep DEF IInv, Next, RelayStep
<1>2. /\ pc = "last" /\ at = N + 1 /\ N \in Nat \ {0} /\ got = <<>> /\ pc' = "closing"
      /\ lastErr \in Events /\ lastErr.kind = "error"
      /\ UNCHANGED <<at, committed, buffered, queue, lastErr, pump, made, reading, cancelled>>
  BY DEF IInv, TypeOK, Place, Errors, Holding, ForwardLast, local, reader
<1>3. Place' /\ Errors' /\ Holding' /\ Relaying'
  BY <1>2 DEF IInv, Place, Errors, Holding, Relaying
<1>4. Untouched' /\ PassedOver'
  BY <1>2 DEF IInv, Untouched, PassedOver, ContentIn
<1>5. Streams'
  BY <1>2 DEF IInv, Streams, EndIn, ContentIn
<1>6. CASE reading /\ got' = Append(got, lastErr)
  <2>1. got' = <<lastErr>>
    BY <1>2, <1>6
  <2>2. \A p \in Providers : ~ContentIn(made[p]) /\ pump[p] # "running"
    BY <1>2 DEF IInv, PassedOver, Providers
  <2>3. OneStreamSeen'
    BY <1>2, <2>1, <2>2 DEF OneStreamSeen, ContentIn
  <2>4. lastErr.from \in Providers /\ lastErr = Event(lastErr.from, "error")
    BY <1>2 DEF Events, Event
  <2>5. Whole'
    BY <2>1, <2>4 DEF Whole, Event
  <2> QED
    BY <1>1, <1>3, <1>4, <1>5, <2>3, <2>5 DEF IInv, Closing
<1>7. CASE cancelled /\ got' = got
  <2>1. 1 \in Providers /\ made[1] \in Seq(Events)
    BY <1>2 DEF IInv, TypeOK, Providers
  <2>2. Len(got) = 0 /\ Len(got) <= Len(made[1]) /\ got = SubSeq(made[1], 1, Len(got))
    BY <1>2, <2>1
  <2>3. OneStreamSeen'
    BY <1>2, <1>7, <2>1, <2>2 DEF OneStreamSeen
  <2> QED
    BY <1>1, <1>2, <1>3, <1>4, <1>5, <1>7, <2>3 DEF IInv, Closing
<1> QED
  BY <1>6, <1>7 DEF ForwardLast

LEMMA CloseStep == IInv /\ Close => IInv'
<1> SUFFICES ASSUME IInv, Close
             PROVE  IInv'
  OBVIOUS
<1>1. TypeOK'
  BY TypeStep DEF IInv, Next, RelayStep
<1>2. /\ pc = "closing" /\ pc' = "closed"
      /\ UNCHANGED <<at, committed, buffered, queue, lastErr, pump, made, reading, cancelled, got>>
  BY DEF Close, local, reader
<1>3. Place' /\ Errors' /\ Holding' /\ Relaying'
  BY <1>2 DEF IInv, Place, Errors, Holding, Relaying
<1>4. Untouched' /\ PassedOver'
  BY <1>2 DEF IInv, Untouched, PassedOver, ContentIn
<1>5. Streams' /\ Closing'
  BY <1>2 DEF IInv, Streams, Closing, OneStreamSeen, Whole, EndIn, ContentIn
<1> QED
  BY <1>1, <1>3, <1>4, <1>5 DEF IInv

-----------------------------------------------------------------------------
(* Steps of the pumps and of the reader *)

\* What an event handed over does to the stream it belongs to.
LEMMA EmitStreams ==
  ASSUME IInv, NEW p \in Providers, NEW e \in Events, e.from = p,
         pump[p] = "running", ~EndIn(made[p]),
         made' = [made EXCEPT ![p] = Append(@, e)], UNCHANGED <<pump, cancelled>>
  PROVE  /\ Streams'
         /\ made[p] \in Seq(Events) /\ made'[p] = Append(made[p], e)
         /\ made'[p] = made[p] \o <<e>>
         /\ ContentIn(made'[p]) <=> ContentIn(made[p]) \/ isContent(e)
<1>1. made \in [Providers -> Seq(Events)] /\ made[p] \in Seq(Events)
  BY DEF IInv, TypeOK
<1>2. made'[p] = Append(made[p], e) /\ \A q \in Providers : q # p => made'[q] = made[q]
  BY <1>1
<1>3. \A i \in DOMAIN made[p] : made[p][i].from = p /\ ~Ends(made[p][i])
  BY DEF IInv, Streams, EndIn
<1>4. \A i \in DOMAIN made'[p] : made'[p][i].from = p /\ (Ends(made'[p][i]) => i = Len(made'[p]))
  <2>1. Len(made'[p]) = Len(made[p]) + 1 /\ DOMAIN made'[p] = DOMAIN made[p] \cup {Len(made'[p])}
    BY <1>1, <1>2
  <2>2. /\ \A i \in DOMAIN made[p] : made'[p][i] = made[p][i]
        /\ made'[p][Len(made'[p])] = e
    BY <1>1, <1>2
  <2> QED
    BY <2>1, <2>2, <1>3
<1>5. Streams'
  BY <1>2, <1>4 DEF IInv, Streams, EndIn, ContentIn
<1> QED
  BY <1>1, <1>2, <1>5, AppendFacts

LEMMA EmitStep == ASSUME IInv, NEW p \in Providers, Emit(p) PROVE IInv'
<1>1. TypeOK'
  BY TypeStep DEF IInv, Next, PumpStep
<1>2. PICK kind \in Kinds :
        /\ made' = [made EXCEPT ![p] = Append(@, Event(p, kind))]
        /\ Receive(Event(p, kind))
  BY DEF Emit
<1> DEFINE e == Event(p, kind)
<1>3. e \in Events /\ e.from = p
  BY EventIsEvent
<1> HIDE DEF e
<1>4. /\ at = p /\ pc = "receiving" /\ pump[p] = "running" /\ ~EndIn(made[p])
      /\ queue = <<>> /\ got \in Seq(Events) /\ buffered \in Seq(Events)
      /\ UNCHANGED <<at, pump, reading, cancelled, got>>
  BY DEF Emit, reader, IInv, Relaying, TypeOK
<1>5. /\ made' = [made EXCEPT ![p] = Append(@, e)] /\ Receive(e)
      /\ made \in [Providers -> Seq(Events)]
  BY <1>2 DEF e, IInv, TypeOK
<1>6. /\ Streams'
      /\ made[p] \in Seq(Events) /\ made'[p] = Append(made[p], e)
      /\ made'[p] = made[p] \o <<e>>
      /\ ContentIn(made'[p]) <=> ContentIn(made[p]) \/ isContent(e)
  BY <1>3, <1>4, <1>5, EmitStreams
<1>7. \A q \in Providers : q # at => made'[q] = made[q]
  BY <1>4, <1>5
<1>8. at \in Nat /\ at = p /\ at' = at /\ N \in Nat
  BY <1>4, FallbackAssumption DEF Providers
<1>9. Untouched' /\ PassedOver'
  <2>1. pc' # "next"
    BY <1>4, <1>5 DEF Receive, Hold
  <2> QED
    BY <1>4, <1>7, <1>8, <2>1 DEF IInv, Untouched, PassedOver, ContentIn, Providers
<1>10. CASE committed \/ isContent(e)
  <2>1. /\ queue' = (IF committed THEN <<>> ELSE buffered) \o <<e>>
        /\ committed' = TRUE /\ pc' = "sending" /\ UNCHANGED <<buffered, lastErr>>
    BY <1>5, <1>10 DEF Receive, isContent
  <2>2. got \o queue' = made'[at] /\ queue' # <<>> /\ ContentIn(made'[at])
    <3>1. CASE committed
      <4>1. got = made[at] /\ ContentIn(made[at])
        BY <1>4, <3>1, AppendFacts DEF IInv, Relaying
      <4>2. queue' = <<e>>
        BY <1>3, <2>1, <3>1
      <4> QED
        BY <1>4, <1>6, <4>1, <4>2
    <3>2. CASE ~committed
      <4>1. got = <<>> /\ buffered = made[at]
        BY <1>4, <3>2 DEF IInv, Holding
      <4>2. queue' = made'[at]
        BY <1>4, <1>6, <2>1, <3>2, <4>1
      <4>3. made'[at] \in Seq(Events) /\ made'[at] # <<>>
        BY <1>3, <1>4, <1>6
      <4>4. <<>> \o made'[at] = made'[at]
        BY <4>3
      <4> QED
        BY <1>4, <1>6, <1>10, <3>2, <4>1, <4>2, <4>3, <4>4
    <3> QED
      BY <3>1, <3>2
  <2>3. Place' /\ Errors' /\ Holding' /\ Closing'
    BY <1>4, <2>1 DEF IInv, Place, Errors, Holding, Closing
  <2>4. Relaying'
    <3>1. got' = got /\ at' = at
      BY <1>4
    <3> QED
      BY <2>1, <2>2, <3>1 DEF Relaying, ContentIn
  <2> QED
    BY <1>1, <1>6, <1>9, <2>3, <2>4 DEF IInv
<1>11. CASE ~committed /\ ~isContent(e)
  <2>1. /\ got = <<>> /\ buffered = made[at] /\ ~ContentIn(made'[at])
    BY <1>4, <1>6, <1>11 DEF IInv, Holding
  <2>2. ~ContentIn(made[at])'
    BY <1>4, <2>1 DEF ContentIn
  <2>3. CASE e.kind = "error"
    <3>1. pc' = "draining" /\ lastErr' = e /\ UNCHANGED <<committed, buffered, queue>>
      BY <1>5, <1>11, <2>3 DEF Receive, local
    <3>2. e # None
      BY <1>3, FallbackAssumption
    <3>3. Place' /\ Errors' /\ Holding' /\ Relaying' /\ Closing'
      BY <1>4, <2>1, <2>2, <2>3, <3>1, <3>2 DEF IInv, Place, Errors, Holding, Relaying, Closing
    <3> QED
      BY <1>1, <1>6, <1>9, <3>3 DEF IInv
  <2>4. CASE e.kind # "error"
    <3>1. buffered' = Append(buffered, e) /\ UNCHANGED <<pc, committed, queue, lastErr>>
      BY <1>5, <1>11, <2>4 DEF Receive, Hold
    <3>2. buffered' = made'[at]
      BY <1>4, <1>6, <2>1, <3>1
    <3>3. Place' /\ Errors' /\ Closing'
      BY <1>4, <3>1 DEF IInv, Place, Errors, Closing
    <3>4. Holding'
      BY <1>4, <2>1, <2>2, <3>1, <3>2 DEF Holding
    <3>5. Relaying'
      BY <1>4, <1>11, <3>1 DEF Relaying
    <3> QED
      BY <1>1, <1>6, <1>9, <3>3, <3>4, <3>5 DEF IInv
  <2> QED
    BY <2>3, <2>4
<1> QED
  BY <1>10, <1>11

LEMMA PumpClosesStep == ASSUME IInv, NEW p \in Providers, PumpCloses(p) PROVE IInv'
<1>1. TypeOK'
  BY TypeStep DEF IInv, Next, PumpStep
<1>2. /\ pump[p] = "running" /\ pump' = [pump EXCEPT ![p] = "closed"]
      /\ EndIn(made[p]) \/ cancelled \/ ~ContentIn(made[p])
      /\ pump \in [Providers -> {"unused", "running", "closed"}]
      /\ UNCHANGED <<pc, at, committed, buffered, queue, lastErr, made, reading, cancelled, got>>
  BY DEF PumpCloses, local, reader, IInv, TypeOK
<1>3. Place' /\ Errors' /\ Holding' /\ Relaying'
  BY <1>2 DEF IInv, Place, Errors, Holding, Relaying, ContentIn
<1>4. Untouched' /\ PassedOver'
  BY <1>2 DEF IInv, Untouched, PassedOver, ContentIn
<1>5. Streams'
  BY <1>2 DEF IInv, Streams, EndIn, ContentIn
<1>6. OneStreamSeen => OneStreamSeen'
  BY <1>2 DEF OneStreamSeen, ContentIn
<1>7. Closing'
  BY <1>2, <1>6 DEF IInv, Closing, Whole, EndIn, ContentIn
<1> QED
  BY <1>1, <1>3, <1>4, <1>5, <1>7 DEF IInv

LEMMA ReaderStep == IInv /\ (StopReading \/ Cancel \/ UNCHANGED vars) => IInv'
<1> SUFFICES ASSUME IInv, StopReading \/ Cancel \/ UNCHANGED vars
             PROVE  IInv'
  OBVIOUS
<1>1. TypeOK'
  BY TypeStep DEF IInv, Next
<1>2. /\ UNCHANGED <<pc, at, committed, buffered, queue, lastErr, pump, made, got>>
      /\ cancelled => cancelled'
  BY DEF StopReading, Cancel, local, vars
<1>3. Place' /\ Errors' /\ Holding' /\ Relaying'
  BY <1>2 DEF IInv, Place, Errors, Holding, Relaying, ContentIn
<1>4. Untouched' /\ PassedOver'
  BY <1>2 DEF IInv, Untouched, PassedOver, ContentIn
<1>5. Streams'
  BY <1>2 DEF IInv, Streams, EndIn, ContentIn
<1>6. OneStreamSeen => OneStreamSeen'
  BY <1>2 DEF OneStreamSeen, ContentIn
<1>7. Closing'
  BY <1>2, <1>6 DEF IInv, Closing, Whole, EndIn, ContentIn
<1> QED
  BY <1>1, <1>3, <1>4, <1>5, <1>7 DEF IInv

-----------------------------------------------------------------------------
(* Theorems *)

LEMMA NextIInv == IInv /\ [Next]_vars => IInv'
BY LeaveStep, OpenStep, OpenFailsStep, DrainedStep, StreamEndsStep, RelayStepInv, AbortStep,
   ForwardStep, CloseStep, EmitStep, PumpClosesStep, ReaderStep
   DEF Next, RelayStep, PumpStep

\* Where the goroutine stands among the providers determines what each stream
\* has produced, what is held and what the reader has.
THEOREM Invariance == Spec => []IInv
<1>1. Init => IInv
  BY InitIInv
<1>2. IInv /\ [Next]_vars => IInv'
  BY NextIInv
<1> QED
  BY <1>1, <1>2, PTL DEF Spec

\* Every variable of the fallback provider keeps its type, and a provider
\* passed over leaves its error.
THEOREM Typing == Spec => []TypeOK
<1>1. IInv => TypeOK
  BY DEF IInv
<1> QED
  BY <1>1, Invariance, PTL

LEMMA SeenInv == IInv => OneStreamSeen
<1> SUFFICES ASSUME IInv
             PROVE  OneStreamSeen
  OBVIOUS
<1> USE FallbackAssumption
<1>1. CASE pc \in {"closing", "closed"}
  BY <1>1 DEF IInv, Closing
<1>2. CASE pc = "sending" \/ (pc = "receiving" /\ committed)
  <2>1. /\ at \in Providers /\ ContentIn(made[at]) /\ got \o queue = made[at]
        /\ got \in Seq(Events) /\ queue \in Seq(Events) /\ made[at] \in Seq(Events)
    BY <1>2 DEF IInv, TypeOK, Place, Relaying
  <2>2. Len(got) <= Len(made[at]) /\ got = SubSeq(made[at], 1, Len(got))
    BY <2>1, PrefixFacts
  <2> QED
    BY <2>1, <2>2 DEF OneStreamSeen
<1>3. CASE pc \in {"next", "last", "draining"} \/ (pc = "receiving" /\ ~committed)
  <2>1. got = <<>> /\ 1 \in Providers /\ made[1] \in Seq(Events)
    BY <1>3 DEF IInv, TypeOK, Holding, Providers
  <2>2. Len(got) = 0 /\ Len(got) <= Len(made[1]) /\ got = SubSeq(made[1], 1, Len(got))
    BY <2>1
  <2> QED
    BY <2>1, <2>2 DEF OneStreamSeen
<1> QED
  BY <1>1, <1>2, <1>3 DEF IInv, TypeOK

\* What the reader sees is the beginning of one provider's stream, or one
\* error after all of them failed.
THEOREM OneStream == Spec => []OneStreamSeen
BY SeenInv, Invariance, PTL

\* Once a provider has produced content, no later one is ever called.
THEOREM LateFailover == Spec => []NoLateFailover
<1>1. IInv => NoLateFailover
  <2> SUFFICES ASSUME IInv, NEW p \in Providers, NEW q \in Providers,
                      p < q, ContentIn(made[p])
               PROVE  pump[q] = "unused"
    BY DEF NoLateFailover
  <2>1. ~(p < at) /\ at \in Nat /\ p \in Nat /\ q \in Nat
    BY FallbackAssumption DEF IInv, PassedOver, TypeOK, Providers
  <2> QED
    BY <2>1 DEF IInv, Untouched
<1> QED
  BY <1>1, Invariance, PTL

\* A channel closed without a cancellation has given the whole stream of a
\* provider that produced content, or an error.
THEOREM Completeness == Spec => []ClosesComplete
<1>1. IInv => ClosesComplete
  BY DEF IInv, Closing, Whole, ClosesComplete
<1> QED
  BY <1>1, Invariance, PTL

-----------------------------------------------------------------------------
(* Refinement *)

LEMMA InitStream == Init => Stream!Init
BY DEF Init, Stream!Init

LEMMA NextStream == IInv /\ [Next]_vars => [Stream!Next]_(Stream!vars)
<1> SUFFICES ASSUME IInv, [Next]_vars
             PROVE  [Stream!Next]_(Stream!vars)
  OBVIOUS
<1> USE FallbackAssumption
<1>1. CASE Relay
  <2>1. /\ pc = "sending" /\ at \in Providers
        /\ got \in Seq(Events) /\ queue \in Seq(Events) /\ made[at] \in Seq(Events)
        /\ queue # <<>> /\ got \o queue = made[at] /\ got' = Append(got, Head(queue))
        /\ pc' # "closed" /\ UNCHANGED cancelled
    BY <1>1, RelayFacts
  <2>2. /\ \A i \in DOMAIN got : i \in DOMAIN made[at] /\ got[i] = made[at][i] /\ i # Len(made[at])
        /\ Head(queue) = made[at][Len(got) + 1] /\ Len(got) + 1 \in DOMAIN made[at]
        /\ Head(queue) \in Events
    <3>1. Len(got) < Len(made[at]) /\ Len(got) \in Nat /\ Len(made[at]) \in Nat
      BY <2>1, PrefixFacts
    <3>2. \A i \in DOMAIN got : i \in DOMAIN made[at] /\ got[i] = made[at][i] /\ i # Len(made[at])
      <4>1. \A i \in DOMAIN got : i \in DOMAIN made[at] /\ got[i] = made[at][i]
        BY <2>1, PrefixFacts
      <4>2. \A i \in DOMAIN got : i <= Len(got) /\ i \in Nat
        BY <2>1
      <4> QED
        BY <3>1, <4>1, <4>2
    <3>3. Head(queue) = made[at][Len(got) + 1]
      BY <2>1, PrefixFacts, Zenon
    <3>4. Head(queue) \in Events
      BY <2>1, MoveHead, Zenon
    <3>5. Len(got) + 1 \in DOMAIN made[at]
      BY <2>1, <3>1
    <3> QED
      BY <3>2, <3>3, <3>4, <3>5
  <2>3. \A i \in DOMAIN got : got[i].from = Head(queue).from /\ ~Stream!Ends(got[i])
    BY <2>1, <2>2 DEF IInv, Streams, Ends, Stream!Ends
  <2> QED
    BY <2>1, <2>2, <2>3 DEF Stream!Next, Stream!Deliver
<1>2. CASE ForwardLast
  <2>1. /\ pc = "last" /\ pc' = "closing" /\ got = <<>> /\ UNCHANGED cancelled
        /\ lastErr \in Events
    BY <1>2 DEF ForwardLast, IInv, Place, TypeOK, Holding, reader
  <2>2. CASE got' = Append(got, lastErr)
    BY <2>1, <2>2 DEF Stream!Next, Stream!Deliver
  <2>3. CASE got' = got
    BY <2>1, <2>3 DEF Stream!vars
  <2> QED
    BY <1>2, <2>2, <2>3 DEF ForwardLast
<1>3. CASE Close
  <2>1. pc = "closing" /\ pc' = "closed" /\ UNCHANGED <<got, cancelled>>
    BY <1>3 DEF Close, reader
  <2>2. cancelled \/ \E i \in DOMAIN got : Stream!Ends(got[i])
    <3>1. cancelled \/ Whole
      BY <2>1 DEF IInv, Closing
    <3>2. ASSUME NEW p \in Providers, got = <<Event(p, "error")>>
          PROVE  1 \in DOMAIN got /\ Stream!Ends(got[1])
      BY <3>2 DEF Stream!Ends, Event
    <3> QED
      BY <3>1, <3>2 DEF Whole, EndIn, Ends, Stream!Ends
  <2> QED
    BY <2>1, <2>2 DEF Stream!Next, Stream!Close
<1>4. CASE Cancel
  BY <1>4 DEF Cancel, Stream!Next, Stream!Cancel
<1>5. CASE StopReading \/ UNCHANGED vars
  BY <1>5 DEF StopReading, vars, Stream!vars
<1>6. CASE Leave \/ Open \/ OpenFails \/ Drained \/ StreamEnds \/ RelayAborts
  BY <1>6 DEF Leave, Open, OpenFails, Drained, StreamEnds, RelayAborts, Failed, reader, Stream!vars
<1>7. ASSUME NEW p \in Providers, PumpStep(p)
      PROVE  UNCHANGED Stream!vars
  <2>1. CASE Emit(p)
    BY <2>1 DEF Emit, Receive, Hold, reader, Stream!vars
  <2>2. CASE PumpCloses(p)
    BY <2>2 DEF PumpCloses, reader, Stream!vars
  <2> QED
    BY <1>7, <2>1, <2>2 DEF PumpStep
<1> QED
  BY <1>1, <1>2, <1>3, <1>4, <1>5, <1>6, <1>7 DEF Next, RelayStep

\* The channel the fallback provider returns keeps the contract of a
\* provider's stream, given that the inner providers keep it or end early.
THEOREM Refinement == Spec => ImplementsStream
<1>1. Init => Stream!Init
  BY InitStream
<1>2. IInv /\ [Next]_vars => [Stream!Next]_(Stream!vars)
  BY NextStream
<1> QED
  BY <1>1, <1>2, Invariance, PTL DEF Spec, ImplementsStream, Stream!Spec
=============================================================================
