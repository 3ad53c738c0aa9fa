---------------------------- MODULE MemoryStore ----------------------------
(***************************************************************************)
(* The in-memory MemoryStore (memory/store.go) and the tools a model calls *)
(* it with (memory/tools.go), used by several goroutines.  Texts and       *)
(* queries are embedded outside the lock; everything else of a call        *)
(* happens under it, in one step.  A vector is the text it was computed    *)
(* from.                                                                   *)
(***************************************************************************)
EXTENDS Naturals, Sequences, FiniteSets, SequencesExt

CONSTANTS
    Clients,      \* goroutines that call the store
    ChosenIds,    \* ids callers choose: they look like generated ones
    MaxGenerated, \* bound: generated ids
    MaxTime,      \* bound: the clock
    MaxCalls,     \* bound: calls
    Texts,        \* sequences of words
    Questions,    \* sequences of words: MemoryQuery.Query
    Scopes,       \* namespaces, users and metadata
    Limits,       \* MemoryQuery.Limit
    DefaultLimit, \* defaultRecallLimit
    Lifetimes,    \* ttl_seconds of memory_remember
    Near,         \* external: the similarity of a question and a text
    None

\* Generated ids are mem_1, mem_2, ...: here their numbers.
Ids == ChosenIds \cup 1 .. MaxGenerated
Memories == [id : ChosenIds \cup {None}, text : Texts, scope : Scopes, created : Nat, expires : Nat]
Records  == [id : Ids, text : Texts, scope : Scopes, created : Nat, expires : Nat]
Limit(l) == IF l > 0 THEN l ELSE DefaultLimit
Queries  == [words : Questions, scope : Scopes \cup {None}, expired : BOOLEAN,
             limit : {Limit(l) : l \in Limits}]

ASSUME StoreAssumption ==
    /\ ChosenIds \subseteq Nat \ {0} /\ IsFiniteSet(ChosenIds)
    /\ MaxGenerated \in Nat /\ MaxTime \in Nat \ {0} /\ MaxCalls \in Nat
    /\ Limits \subseteq Nat /\ DefaultLimit \in Nat \ {0}
    /\ Lifetimes \subseteq Nat
    /\ Texts \subseteq Seq(STRING) /\ Questions \subseteq Seq(STRING)
    /\ Near \in [Questions \X Texts -> Nat]
    /\ None \notin Ids /\ None \notin Records /\ None \notin Scopes /\ None \notin Texts

VARIABLES
    embedder,  \* Store.embedder is set
    records,   \* Store.records
    vectors,   \* Store.vectors
    nextID,    \* Store.nextID
    now,       \* the clock
    calls,     \* calls begun so far
    at,        \* where each goroutine's call is
    request,   \* what it was called with
    stamp,     \* the time of creation a Remember gives what it stores
    answer     \* what the call that has just returned returned; None, nothing or an error

store == <<records, vectors, nextID>>
vars  == <<embedder, store, now, calls, at, request, stamp, answer>>

\* The store keeps the promise of the interface.
Port == INSTANCE MemoryPort
ImplementsPort == Port!Spec

\* Types, and that a call's argument is what its place in the code takes.
TypeOK ==
    /\ embedder \in BOOLEAN
    /\ records \in [Ids -> Records \cup {None}]
    /\ vectors \in [Ids -> Texts \cup {None}]
    /\ nextID \in 0 .. MaxGenerated
    /\ now \in 1 .. MaxTime
    /\ calls \in 0 .. MaxCalls
    /\ at \in [Clients -> {"idle", "embed", "store", "ask", "semantic", "keyword", "forget"}]
    /\ request \in [Clients -> Port!Requests \cup {Port!NoRequest}]
    /\ \A c \in Clients :
         request[c].op = CASE at[c] \in {"embed", "store"} -> "remember"
                           [] at[c] \in {"ask", "semantic", "keyword"} -> "recall"
                           [] at[c] = "forget" -> "forget"
                           [] at[c] = "idle" -> "none"
    /\ stamp \in [Clients -> Nat]
    /\ answer \in Seq(Records) \cup {None}

Init ==
    /\ embedder \in BOOLEAN
    /\ records = [id \in Ids |-> None]
    /\ vectors = [id \in Ids |-> None]
    /\ nextID = 0
    /\ now = 1
    /\ calls = 0
    /\ at = [c \in Clients |-> "idle"]
    /\ request = [c \in Clients |-> Port!NoRequest]
    /\ stamp = [c \in Clients |-> 0]
    /\ answer = None

-----------------------------------------------------------------------------
(* Calls and returns *)

Call(c, place, op, of) ==
    /\ at[c] = "idle"
    /\ calls < MaxCalls
    /\ calls' = calls + 1
    /\ at' = [at EXCEPT ![c] = place]
    /\ request' = [request EXCEPT ![c] = [op |-> op, of |-> of]]
    /\ answer' = None
    /\ UNCHANGED <<embedder, store, now>>

Goes(c, from, to) ==
    /\ at[c] = from
    /\ at' = [at EXCEPT ![c] = to]
    /\ answer' = None
    /\ UNCHANGED <<embedder, store, now, calls, request>>

Return(c, from) ==
    /\ at[c] = from
    /\ at' = [at EXCEPT ![c] = "idle"]
    /\ request' = [request EXCEPT ![c] = Port!NoRequest]
    /\ stamp' = [stamp EXCEPT ![c] = 0]
    /\ UNCHANGED <<embedder, now, calls>>

\* The context has ended, a text or id is missing, a text cannot be embedded.
Fails(c) ==
    /\ \/ \E from \in {"embed", "semantic", "keyword", "forget"} : Return(c, from)
       \/ ~embedder /\ Return(c, "store")
    /\ answer' = None
    /\ UNCHANGED store

-----------------------------------------------------------------------------
(* Remember *)

Stamp(c, m) == stamp' = [stamp EXCEPT ![c] = IF m.created = 0 THEN now ELSE m.created]

Remember(c, m) ==
    \/ embedder /\ Call(c, "embed", "remember", m) /\ UNCHANGED stamp
    \/ ~embedder /\ Call(c, "store", "remember", m) /\ Stamp(c, m)

\* A caller in Go may choose the id.
RememberCalled(c) ==
    \E id \in ChosenIds \cup {None}, text \in Texts, scope \in Scopes :
        Remember(c, [id |-> id, text |-> text, scope |-> scope, created |-> 0, expires |-> 0])

\* memory_remember: the model may give a lifetime, and no id.
RememberTool(c) ==
    \E text \in Texts, scope \in Scopes, ttl \in Lifetimes :
        Remember(c, [id |-> None, text |-> text, scope |-> scope, created |-> 0,
                     expires |-> IF ttl > 0 THEN now + ttl ELSE 0])

\* Mutant of EmbedText: the vector is stored at once, not with its memory.
EmbedTextAndKeep(c) ==
    /\ at[c] = "embed"
    /\ at' = [at EXCEPT ![c] = "store"]
    /\ Stamp(c, request[c].of)
    /\ vectors' = IF request[c].of.id = None THEN vectors
                  ELSE [vectors EXCEPT ![request[c].of.id] = request[c].of.text]
    /\ answer' = None
    /\ UNCHANGED <<embedder, records, nextID, now, calls, request>>

EmbedText(c) ==
    /\ Goes(c, "embed", "store")
    /\ Stamp(c, request[c].of)

\* Under the lock: an id if there is none, the record, the vector.
Store(c) ==
    LET m  == request[c].of
        id == IF m.id = None THEN nextID + 1 ELSE m.id
        stored == [m EXCEPT !.id = id, !.created = stamp[c]]
    IN  /\ Return(c, "store")
        /\ m.id = None => nextID < MaxGenerated
        /\ nextID' = IF m.id = None THEN nextID + 1 ELSE nextID
        /\ records' = [records EXCEPT ![id] = stored]
        /\ vectors' = [vectors EXCEPT ![id] = IF embedder THEN m.text ELSE None]
        /\ answer' = <<stored>>

-----------------------------------------------------------------------------
(* Recall *)

\* Without an embedder, or without a question, keywords and recency decide.
RecallCalled(c) ==
    \E q \in Queries :
        /\ Call(c, IF embedder /\ q.words # <<>> THEN "ask" ELSE "keyword", "recall", q)
        /\ UNCHANGED stamp

\* A question that cannot be embedded is answered by keywords.
EmbedQuery(c) ==
    /\ \E place \in {"semantic", "keyword"} : Goes(c, "ask", place)
    /\ UNCHANGED stamp

Expired(m) == m.expires # 0 /\ m.expires <= now

Matches(m, q) ==
    /\ q.scope \in {m.scope, None}
    /\ q.expired \/ ~Expired(m)

Matching(q) == {id \in Ids : records[id] # None /\ Matches(records[id], q)}

\* memoryScore: the whole question counts ten, each of its words one.
Score(words, m) ==
    LET haystack == Append(m.text, m.scope)
        Phrase == \E i \in 0 .. Len(haystack) - Len(words) : SubSeq(haystack, i + 1, i + Len(words)) = words
        found == {i \in DOMAIN words : \E j \in DOMAIN haystack : haystack[j] = words[i]}
    IN  IF words = <<>> THEN 1 ELSE (IF Phrase THEN 10 ELSE 0) + Cardinality(found)

Similarity(words, id) == IF vectors[id] = None THEN 0 ELSE 1 + Near[words, vectors[id]]

\* By score, then the newest, then by id.
Before(score, i, j) ==
    \/ score[i] > score[j]
    \/ score[i] = score[j] /\ records[i].created > records[j].created
    \/ score[i] = score[j] /\ records[i].created = records[j].created /\ i < j

\* Mutant of Ranked: the oldest of equal memories come first, the worst before the best.
RankedBackwards(score) ==
    {s \in SetToSeqs(DOMAIN score) : \A i, j \in DOMAIN s : i < j => Before(score, s[j], s[i])}

\* The ids in order; the order is total, so there is one.
Ranked(score) ==
    {s \in SetToSeqs(DOMAIN score) : \A i, j \in DOMAIN s : i < j => Before(score, s[i], s[j])}

\* Mutant of Top: one memory too many.
TopAndOne(s, limit) == SubSeq(s, 1, IF Len(s) > limit THEN limit + 1 ELSE Len(s))

Top(s, limit) == SubSeq(s, 1, IF Len(s) > limit THEN limit ELSE Len(s))

Found(score, limit) ==
    \E s \in Ranked(score) :
        answer' = [i \in DOMAIN Top(s, limit) |-> records[s[i]]]

RecallSemantic(c) ==
    LET q == request[c].of
    IN  /\ Return(c, "semantic")
        /\ Found([id \in Matching(q) |-> Similarity(q.words, id)], q.limit)
        /\ UNCHANGED store

RecallKeyword(c) ==
    LET q == request[c].of
        hits == {id \in Matching(q) : Score(q.words, records[id]) > 0}
    IN  /\ Return(c, "keyword")
        /\ Found([id \in hits |-> Score(q.words, records[id])], q.limit)
        /\ UNCHANGED store

-----------------------------------------------------------------------------
(* Forget *)

ForgetCalled(c) ==
    /\ \E id \in Ids : Call(c, "forget", "forget", id)
    /\ UNCHANGED stamp

Forget(c) ==
    /\ Return(c, "forget")
    /\ records' = [records EXCEPT ![request[c].of] = None]
    /\ vectors' = [vectors EXCEPT ![request[c].of] = None]
    /\ answer' = <<>>
    /\ UNCHANGED nextID

-----------------------------------------------------------------------------

Tick ==
    /\ now < MaxTime
    /\ now' = now + 1
    /\ answer' = None
    /\ UNCHANGED <<embedder, store, calls, at, request, stamp>>

Next ==
    \/ \E c \in Clients :
         \/ RememberCalled(c) \/ RememberTool(c) \/ EmbedText(c) \/ Store(c)
         \/ RecallCalled(c) \/ EmbedQuery(c) \/ RecallSemantic(c) \/ RecallKeyword(c)
         \/ ForgetCalled(c) \/ Forget(c) \/ Fails(c)
    \/ Tick

Spec == Init /\ [][Next]_vars

-----------------------------------------------------------------------------

\* Every memory, and nothing else, has a vector, and it is that of its own
\* text, although texts are embedded outside the lock and several callers
\* may store, replace and forget the same id.
VectorsMatch ==
    \A id \in Ids :
        vectors[id] = IF embedder /\ records[id] # None THEN records[id].text ELSE None

\* A Recall that returns memories: they are there and alive, and what is left out
\* although it is alive, in scope and about the question, is left out for want of
\* room, for memories that are no older or about the question more.
BestFor(c) ==
    at[c] \in {"semantic", "keyword"} /\ at'[c] = "idle" /\ answer' # None =>
      LET q == request[c].of
          Value(m) == IF at[c] = "keyword" THEN Score(q.words, m) ELSE Near[q.words, m.text]
          all == {records[id] : id \in Ids} \ {None}
          got == {answer'[i] : i \in DOMAIN answer'}
      IN  /\ \A m \in got : m \in all /\ (q.expired \/ ~Expired(m))
          /\ \A m \in all \ got :
               Matches(m, q) /\ (at[c] = "keyword" => Value(m) > 0) =>
                 /\ Len(answer') = q.limit
                 /\ \A n \in got : \/ Value(n) > Value(m)
                                   \/ Value(n) = Value(m) /\ n.created >= m.created

\* What a Recall leaves out is older than what it returns, or less about the
\* question, although other callers store and forget while it embeds its own.
RecallsBest == [][\A c \in Clients : BestFor(c)]_vars
=============================================================================
