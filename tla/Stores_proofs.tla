---------------------------- MODULE Stores_proofs ----------------------------
(***************************************************************************)
(* Proofs about the two stores: MemoryStore, for any number of goroutines, *)
(* memories and calls, any questions and texts, and any similarity of the  *)
(* two; and Workflow, for any number of clients, requests, pausing turns   *)
(* and calls of a turn.                                                    *)
(***************************************************************************)
EXTENDS MemoryStore, Workflow, FiniteSetTheorems, FunctionTheorems, SequenceTheorems,
        WellFoundedInduction, TLAPS

-----------------------------------------------------------------------------
(* MemoryStore *)

\* A record is kept under its own id, so that a result names no memory twice;
\* and the time of creation a caller gave is the one that will be stored.
IdsMatch == \A id \in Ids : records[id] # None => records[id].id = id
StampsMatch == \A c \in Clients : at[c] = "store" => request[c].of.created \in {stamp[c], 0}

\* The inductive invariant.
IInv == TypeOK /\ VectorsMatch /\ IdsMatch /\ StampsMatch

-----------------------------------------------------------------------------
(* Types *)

\* What a call was called with, by where it is.
LEMMA RequestKinds ==
  ASSUME TypeOK, NEW c \in Clients
  PROVE  /\ at[c] \in {"embed", "store"} =>
              request[c].of \in Memories /\ request[c] = [op |-> "remember", of |-> request[c].of]
         /\ at[c] \in {"ask", "semantic", "keyword"} =>
              request[c].of \in Queries /\ request[c] = [op |-> "recall", of |-> request[c].of]
         /\ at[c] = "forget" =>
              request[c].of \in Ids /\ request[c] = [op |-> "forget", of |-> request[c].of]
         /\ at[c] = "idle" => request[c] = Port!NoRequest
         /\ at[c] # "idle" => request[c] # Port!NoRequest
<1>1. request[c] \in Port!Requests \cup {Port!NoRequest}
  BY DEF TypeOK
<1>2. /\ request[c] = Port!NoRequest => request[c].op = "none"
      /\ request[c] \in Port!Requests => request[c].op \in {"remember", "recall", "forget"}
  BY DEF Port!Requests, Port!NoRequest
<1>3. /\ at[c] \in {"embed", "store"} => request[c].op = "remember"
      /\ at[c] \in {"ask", "semantic", "keyword"} => request[c].op = "recall"
      /\ at[c] = "forget" => request[c].op = "forget"
      /\ at[c] = "idle" => request[c].op = "none"
  BY DEF TypeOK
<1>4. at[c] \in {"idle", "embed", "store", "ask", "semantic", "keyword", "forget"}
  BY DEF TypeOK
<1>5. /\ request[c].op = "remember" =>
           request[c].of \in Memories /\ request[c] = [op |-> "remember", of |-> request[c].of]
      /\ request[c].op = "recall" =>
           request[c].of \in Queries /\ request[c] = [op |-> "recall", of |-> request[c].of]
      /\ request[c].op = "forget" =>
           request[c].of \in Ids /\ request[c] = [op |-> "forget", of |-> request[c].of]
  BY <1>1, <1>2 DEF Port!Requests
<1> QED
  BY <1>1, <1>2, <1>3, <1>4, <1>5

LEMMA InitTypes == Init => IInv
<1> SUFFICES ASSUME Init PROVE IInv
  OBVIOUS
<1>1. /\ records \in [Ids -> Records \cup {None}] /\ vectors \in [Ids -> Texts \cup {None}]
      /\ nextID \in 0 .. MaxGenerated /\ now \in 1 .. MaxTime /\ calls \in 0 .. MaxCalls
      /\ stamp \in [Clients -> Nat]
      /\ answer \in Seq(Records) \cup {None}
  BY StoreAssumption DEF Init
<1>2. embedder \in BOOLEAN
  BY DEF Init
<1>3. /\ at \in [Clients -> {"idle", "embed", "store", "ask", "semantic", "keyword", "forget"}]
      /\ request \in [Clients -> Port!Requests \cup {Port!NoRequest}]
      /\ \A c \in Clients : at[c] = "idle" /\ request[c].op = "none"
  BY DEF Init, Port!NoRequest
<1>4. TypeOK
  BY <1>1, <1>2, <1>3 DEF TypeOK
<1>5. VectorsMatch /\ IdsMatch /\ StampsMatch
  BY DEF Init, VectorsMatch, IdsMatch, StampsMatch
<1> QED
  BY <1>4, <1>5 DEF IInv

\* A call: its request is one of the interface's, and fits the place it goes to.
LEMMA CallTypes ==
  ASSUME IInv, NEW c \in Clients, NEW place, NEW op, NEW of, Call(c, place, op, of),
         [op |-> op, of |-> of] \in Port!Requests,
         \/ place \in {"embed", "store"} /\ op = "remember"
         \/ place \in {"ask", "keyword"} /\ op = "recall"
         \/ place = "forget" /\ op = "forget",
         stamp' \in [Clients -> Nat], StampsMatch'
  PROVE  IInv' /\ Port!Ask(c)
<1>1. /\ at' = [at EXCEPT ![c] = place] /\ at[c] = "idle"
      /\ request' = [request EXCEPT ![c] = [op |-> op, of |-> of]]
      /\ UNCHANGED <<embedder, records, vectors, nextID, now>>
      /\ answer' = None
  BY DEF Call, store
<1>2. calls' \in 0 .. MaxCalls
  BY StoreAssumption DEF IInv, TypeOK, Call
<1>3. /\ at' \in [Clients -> {"idle", "embed", "store", "ask", "semantic", "keyword", "forget"}]
      /\ request' \in [Clients -> Port!Requests \cup {Port!NoRequest}]
  BY <1>1 DEF IInv, TypeOK
<1>4. ASSUME NEW d \in Clients
      PROVE  request'[d].op = CASE at'[d] \in {"embed", "store"} -> "remember"
                                [] at'[d] \in {"ask", "semantic", "keyword"} -> "recall"
                                [] at'[d] = "forget" -> "forget"
                                [] at'[d] = "idle" -> "none"
  <2>1. CASE d = c
    <3>1. request'[d].op = op /\ at'[d] = place
      BY <1>1, <2>1 DEF IInv, TypeOK
    <3> QED
      BY <3>1
  <2>2. CASE d # c
    <3>1. request'[d] = request[d] /\ at'[d] = at[d]
      BY <1>1, <2>2 DEF IInv, TypeOK
    <3> QED
      BY <3>1 DEF IInv, TypeOK
  <2> QED
    BY <2>1, <2>2
<1>5. TypeOK'
  BY <1>1, <1>2, <1>3, <1>4 DEF IInv, TypeOK
<1>6. VectorsMatch' /\ IdsMatch'
  BY <1>1 DEF IInv, VectorsMatch, IdsMatch
<1>7. request[c] = Port!NoRequest /\ request'[c] = [op |-> op, of |-> of]
  BY <1>1, RequestKinds DEF IInv, TypeOK
<1>8. Port!Ask(c)
  BY <1>1, <1>7 DEF Port!Ask
<1> QED
  BY <1>5, <1>6, <1>8 DEF IInv

LEMMA GoesTypes ==
  ASSUME IInv, NEW c \in Clients, NEW from, NEW to, Goes(c, from, to),
         \/ from = "embed" /\ to = "store"
         \/ from = "ask" /\ to \in {"semantic", "keyword"},
         stamp' \in [Clients -> Nat], StampsMatch'
  PROVE  IInv' /\ Port!Internal
<1>1. /\ at' = [at EXCEPT ![c] = to] /\ at[c] = from
      /\ UNCHANGED <<embedder, records, vectors, nextID, now, calls, request>>
      /\ answer' = None
  BY DEF Goes, store
<1>2. at' \in [Clients -> {"idle", "embed", "store", "ask", "semantic", "keyword", "forget"}]
  BY <1>1 DEF IInv, TypeOK
<1>3. ASSUME NEW d \in Clients
      PROVE  request'[d].op = CASE at'[d] \in {"embed", "store"} -> "remember"
                                [] at'[d] \in {"ask", "semantic", "keyword"} -> "recall"
                                [] at'[d] = "forget" -> "forget"
                                [] at'[d] = "idle" -> "none"
  BY <1>1 DEF IInv, TypeOK
<1>4. TypeOK'
  BY <1>1, <1>2, <1>3 DEF IInv, TypeOK
<1>5. VectorsMatch' /\ IdsMatch'
  BY <1>1 DEF IInv, VectorsMatch, IdsMatch
<1> QED
  BY <1>1, <1>4, <1>5 DEF IInv, Port!Internal

\* A call returns: what the store holds and the answer are typed by the caller
\* of this lemma.
LEMMA ReturnTypes ==
  ASSUME IInv, NEW c \in Clients, NEW from, from # "idle", Return(c, from),
         records' \in [Ids -> Records \cup {None}],
         vectors' \in [Ids -> Texts \cup {None}],
         nextID' \in 0 .. MaxGenerated,
         answer' \in Seq(Records) \cup {None}
  PROVE  TypeOK' /\ Port!Return(c, request[c].op) /\ request[c] # Port!NoRequest
<1>1. /\ at' = [at EXCEPT ![c] = "idle"] /\ at[c] = from
      /\ request' = [request EXCEPT ![c] = Port!NoRequest]
      /\ stamp' = [stamp EXCEPT ![c] = 0]
      /\ UNCHANGED <<embedder, now, calls>>
  BY DEF Return
<1>2. /\ at' \in [Clients -> {"idle", "embed", "store", "ask", "semantic", "keyword", "forget"}]
      /\ request' \in [Clients -> Port!Requests \cup {Port!NoRequest}]
      /\ stamp' \in [Clients -> Nat]
  BY <1>1 DEF IInv, TypeOK
<1>3. ASSUME NEW d \in Clients
      PROVE  request'[d].op = CASE at'[d] \in {"embed", "store"} -> "remember"
                                [] at'[d] \in {"ask", "semantic", "keyword"} -> "recall"
                                [] at'[d] = "forget" -> "forget"
                                [] at'[d] = "idle" -> "none"
  <2>1. CASE d = c
    <3>1. request'[d].op = "none" /\ at'[d] = "idle"
      BY <1>1, <2>1 DEF IInv, TypeOK, Port!NoRequest
    <3> QED
      BY <3>1
  <2>2. CASE d # c
    <3>1. request'[d] = request[d] /\ at'[d] = at[d]
      BY <1>1, <2>2 DEF IInv, TypeOK
    <3> QED
      BY <3>1 DEF IInv, TypeOK
  <2> QED
    BY <2>1, <2>2
<1>4. TypeOK'
  BY <1>1, <1>2, <1>3 DEF IInv, TypeOK
<1>5. request[c] # Port!NoRequest
  BY <1>1, RequestKinds DEF IInv
<1> QED
  BY <1>1, <1>4, <1>5 DEF Port!Return

-----------------------------------------------------------------------------
(* Remember *)

LEMMA RememberStep ==
  ASSUME IInv, NEW c \in Clients, NEW m \in Memories, Remember(c, m)
  PROVE  IInv' /\ Port!Ask(c)
<1>1. [op |-> "remember", of |-> m] \in Port!Requests
  BY DEF Port!Requests
<1>2. m.created \in Nat /\ now \in Nat
  BY DEF Memories, IInv, TypeOK
<1>3. CASE embedder /\ Call(c, "embed", "remember", m) /\ UNCHANGED stamp
  <2>1. StampsMatch'
    BY <1>3 DEF IInv, TypeOK, StampsMatch, Call
  <2> QED
    BY <1>1, <1>3, <2>1, CallTypes DEF IInv, TypeOK
<1>4. CASE ~embedder /\ Call(c, "store", "remember", m) /\ Stamp(c, m)
  <2>1. stamp' \in [Clients -> Nat]
    BY <1>2, <1>4 DEF IInv, TypeOK, Stamp
  <2>2. StampsMatch'
    <3> SUFFICES ASSUME NEW d \in Clients, at'[d] = "store"
                 PROVE  request'[d].of.created \in {stamp'[d], 0}
      BY DEF StampsMatch
    <3>1. CASE d = c
      <4>1. request'[d].of = m /\ stamp'[d] = IF m.created = 0 THEN now ELSE m.created
        BY <1>4, <3>1 DEF IInv, TypeOK, Call, Stamp
      <4> QED
        BY <4>1
    <3>2. CASE d # c
      <4>1. request'[d] = request[d] /\ stamp'[d] = stamp[d] /\ at'[d] = at[d]
        BY <1>4, <3>2 DEF IInv, TypeOK, Call, Stamp
      <4> QED
        BY <4>1 DEF IInv, StampsMatch
    <3> QED
      BY <3>1, <3>2
  <2> QED
    BY <1>1, <1>4, <2>1, <2>2, CallTypes
<1> QED
  BY <1>3, <1>4 DEF Remember

LEMMA RememberCalls ==
  ASSUME IInv, NEW c \in Clients, RememberCalled(c) \/ RememberTool(c)
  PROVE  IInv' /\ Port!Ask(c)
<1>1. CASE RememberCalled(c)
  <2>1. PICK id \in ChosenIds \cup {None}, text \in Texts, scope \in Scopes :
          Remember(c, [id |-> id, text |-> text, scope |-> scope, created |-> 0, expires |-> 0])
    BY <1>1 DEF RememberCalled
  <2>2. [id |-> id, text |-> text, scope |-> scope, created |-> 0, expires |-> 0] \in Memories
    BY DEF Memories
  <2> QED
    BY <2>1, <2>2, RememberStep
<1>2. CASE RememberTool(c)
  <2>1. PICK text \in Texts, scope \in Scopes, ttl \in Lifetimes :
          Remember(c, [id |-> None, text |-> text, scope |-> scope, created |-> 0,
                       expires |-> IF ttl > 0 THEN now + ttl ELSE 0])
    BY <1>2 DEF RememberTool
  <2>2. (IF ttl > 0 THEN now + ttl ELSE 0) \in Nat
    BY StoreAssumption DEF IInv, TypeOK
  <2>3. [id |-> None, text |-> text, scope |-> scope, created |-> 0,
         expires |-> IF ttl > 0 THEN now + ttl ELSE 0] \in Memories
    BY <2>2 DEF Memories
  <2> QED
    BY <2>1, <2>3, RememberStep
<1> QED
  BY <1>1, <1>2

LEMMA EmbedTextStep ==
  ASSUME IInv, NEW c \in Clients, EmbedText(c)
  PROVE  IInv' /\ Port!Internal
<1>1. request[c].of \in Memories
  BY RequestKinds DEF IInv, EmbedText, Goes
<1>2. request[c].of.created \in Nat /\ now \in Nat
  BY <1>1 DEF Memories, IInv, TypeOK
<1>3. stamp' \in [Clients -> Nat]
  BY <1>2 DEF IInv, TypeOK, EmbedText, Stamp
<1>4. StampsMatch'
  <2> SUFFICES ASSUME NEW d \in Clients, at'[d] = "store"
               PROVE  request'[d].of.created \in {stamp'[d], 0}
    BY DEF StampsMatch
  <2>1. CASE d = c
    <3>1. request' = request /\ stamp'[d] = IF request[c].of.created = 0 THEN now ELSE request[c].of.created
      BY <2>1 DEF IInv, TypeOK, EmbedText, Goes, Stamp
    <3> QED
      BY <2>1, <3>1
  <2>2. CASE d # c
    <3>1. request' = request /\ stamp'[d] = stamp[d] /\ at'[d] = at[d]
      BY <2>2 DEF IInv, TypeOK, EmbedText, Goes, Stamp
    <3> QED
      BY <3>1 DEF IInv, StampsMatch
  <2> QED
    BY <2>1, <2>2
<1> QED
  BY <1>3, <1>4, GoesTypes DEF EmbedText

\* Nothing is said of the stamps of calls that are not to store anything.
LEMMA StampsAfterReturn ==
  ASSUME IInv, NEW c \in Clients, NEW from, Return(c, from)
  PROVE  StampsMatch'
<1> SUFFICES ASSUME NEW d \in Clients, at'[d] = "store"
             PROVE  request'[d].of.created \in {stamp'[d], 0}
  BY DEF StampsMatch
<1>1. d # c
  BY DEF Return, IInv, TypeOK
<1>2. request'[d] = request[d] /\ stamp'[d] = stamp[d] /\ at'[d] = at[d]
  BY <1>1 DEF Return, IInv, TypeOK
<1> QED
  BY <1>2 DEF IInv, StampsMatch

LEMMA StoreStep ==
  ASSUME IInv, NEW c \in Clients, Store(c)
  PROVE  IInv' /\ Port!Remember(c)
<1> DEFINE m == request[c].of
           id == IF m.id = None THEN nextID + 1 ELSE m.id
           stored == [m EXCEPT !.id = id, !.created = stamp[c]]
<1>1. /\ Return(c, "store") /\ at[c] = "store"
      /\ m.id = None => nextID < MaxGenerated
      /\ nextID' = IF m.id = None THEN nextID + 1 ELSE nextID
      /\ records' = [records EXCEPT ![id] = stored]
      /\ vectors' = [vectors EXCEPT ![id] = IF embedder THEN m.text ELSE None]
      /\ answer' = <<stored>>
  BY DEF Store, Return
<1>2. m \in Memories /\ request[c].op = "remember"
  BY <1>1, RequestKinds DEF IInv, TypeOK
<1>3. nextID' \in 0 .. MaxGenerated
  BY <1>1, StoreAssumption DEF IInv, TypeOK
<1>4. id \in Ids
  BY <1>1, <1>2, StoreAssumption DEF Ids, Memories, IInv, TypeOK
<1>5. stamp[c] \in Nat
  BY DEF IInv, TypeOK
<1>6. /\ stored \in Records /\ stored.id = id /\ stored.text = m.text /\ stored.scope = m.scope
      /\ stored.expires = m.expires /\ stored.created = stamp[c]
  BY <1>2, <1>4, <1>5 DEF Memories, Records
<1>7. m.text \in Texts /\ m.text # None /\ stored # None
  BY <1>2, <1>6, StoreAssumption DEF Memories
<1>8. embedder \in BOOLEAN
  BY DEF IInv, TypeOK
<1> HIDE DEF stored, id
<1>9. records' \in [Ids -> Records \cup {None}] /\ vectors' \in [Ids -> Texts \cup {None}]
  BY <1>1, <1>4, <1>6, <1>7 DEF IInv, TypeOK
<1>10. answer' \in Seq(Records)
  BY <1>1, <1>6
<1>11. TypeOK' /\ Port!Return(c, "remember")
  BY <1>1, <1>2, <1>3, <1>9, <1>10, ReturnTypes
<1>12. /\ records'[id] = stored /\ vectors'[id] = IF embedder THEN m.text ELSE None
       /\ \A i \in Ids \ {id} : records'[i] = records[i] /\ vectors'[i] = vectors[i]
       /\ UNCHANGED embedder
  BY <1>1, <1>4 DEF IInv, TypeOK, Return
<1>13. VectorsMatch' /\ IdsMatch'
  BY <1>6, <1>7, <1>12 DEF IInv, VectorsMatch, IdsMatch
<1>14. m.created \in {stored.created, 0}
  BY <1>1, <1>6 DEF IInv, StampsMatch
<1>15. m.id \in {id, None}
  BY DEF id
<1>16. records' = [records EXCEPT ![id] = records'[id]] /\ answer' = <<records'[id]>>
  BY <1>1, <1>12
<1>17. Port!Completes(m, id, records'[id])
  BY <1>6, <1>12, <1>14, <1>15 DEF Port!Completes
<1>18. Port!Remember(c)
  BY <1>4, <1>7, <1>11, <1>12, <1>16, <1>17 DEF Port!Remember
<1> QED
  BY <1>1, <1>11, <1>13, <1>18, StampsAfterReturn DEF IInv

-----------------------------------------------------------------------------
(* Recall *)

LEMMA FiniteIds == IsFiniteSet(Ids)
<1>1. IsFiniteSet(1 .. MaxGenerated)
  BY FS_Interval, StoreAssumption
<1> QED
  BY <1>1, FS_Union, StoreAssumption DEF Ids

\* The first of a ranking are different elements, and no more than wanted.
LEMMA TopOfSeq ==
  ASSUME NEW S, IsFiniteSet(S), NEW s \in SetToSeqs(S), NEW limit \in Nat
  PROVE  /\ Len(Top(s, limit)) \in Nat /\ Len(Top(s, limit)) <= limit
         /\ \A i \in 1 .. Len(Top(s, limit)) : Top(s, limit)[i] \in S
         /\ \A i, j \in 1 .. Len(Top(s, limit)) : Top(s, limit)[i] = Top(s, limit)[j] => i = j
         /\ DOMAIN Top(s, limit) = 1 .. Len(Top(s, limit))
         /\ \A i \in 1 .. Len(Top(s, limit)) : Top(s, limit)[i] = s[i]
<1> DEFINE n == IF Len(s) > limit THEN limit ELSE Len(s)
<1>1. Cardinality(S) \in Nat
  BY FS_CardinalityType
<1>2. /\ s \in [1 .. Cardinality(S) -> S]
      /\ \A i, j \in 1 .. Cardinality(S) : i # j => s[i] # s[j]
  BY DEF SetToSeqs
<1>3. s \in Seq(S) /\ Len(s) = Cardinality(S)
  BY <1>1, <1>2, IsASeq, LenProperties
<1>4. n \in Nat /\ n <= limit /\ n <= Cardinality(S)
  BY <1>1, <1>3
<1>5. Top(s, limit) = SubSeq(s, 1, n)
  BY DEF Top
<1> HIDE DEF n
<1>6. \A i \in 1 .. n : s[i] \in S
  BY <1>1, <1>2, <1>4
<1>7. /\ SubSeq(s, 1, n) \in Seq(S)
      /\ Len(SubSeq(s, 1, n)) = IF 1 <= n THEN n - 1 + 1 ELSE 0
      /\ \A i \in 1 .. n - 1 + 1 : SubSeq(s, 1, n)[i] = s[1 + i - 1]
  BY <1>4, <1>6, SubSeqProperties
<1>8. Len(SubSeq(s, 1, n)) = n /\ \A i \in 1 .. n : SubSeq(s, 1, n)[i] = s[i]
  BY <1>4, <1>7
<1>9. \A i, j \in 1 .. n : s[i] = s[j] => i = j
  BY <1>1, <1>2, <1>4
<1>10. DOMAIN SubSeq(s, 1, n) = 1 .. n
  BY <1>7, <1>8, LenProperties
<1> QED
  BY <1>4, <1>5, <1>6, <1>8, <1>9, <1>10

LEMMA RecallStep ==
  ASSUME IInv, NEW c \in Clients, NEW from \in {"semantic", "keyword"}, Return(c, from),
         NEW score, DOMAIN score \subseteq Matching(request[c].of),
         Found(score, request[c].of.limit), UNCHANGED store
  PROVE  IInv' /\ Port!Recall(c)
<1> DEFINE q == request[c].of
           Held == {records[id] : id \in Ids} \ {None}
<1>1. q \in Queries /\ request[c].op = "recall" /\ at[c] = from
  BY RequestKinds DEF IInv, TypeOK, Return
<1>2. q.limit \in Nat
  BY <1>1, StoreAssumption DEF Queries, Limit
<1>3. PICK s \in Ranked(score) : answer' = [i \in DOMAIN Top(s, q.limit) |-> records[s[i]]]
  BY DEF Found
<1>4. s \in SetToSeqs(DOMAIN score)
  BY DEF Ranked
<1>5. IsFiniteSet(DOMAIN score) /\ DOMAIN score \subseteq Ids
  BY FiniteIds, FS_Subset DEF Matching
<1>6. \A id \in DOMAIN score : /\ records[id] \in Held /\ records[id].id = id
                               /\ Port!InScope(records[id], q)
  BY <1>5 DEF Matching, Matches, Port!InScope, IInv, IdsMatch
<1> DEFINE n == Len(Top(s, q.limit))
<1>7. /\ n \in Nat /\ n <= q.limit
      /\ \A i \in 1 .. n : s[i] \in DOMAIN score
      /\ \A i, j \in 1 .. n : s[i] = s[j] => i = j
      /\ DOMAIN Top(s, q.limit) = 1 .. n
  <2>1. /\ n \in Nat /\ n <= q.limit
        /\ \A i \in 1 .. n : Top(s, q.limit)[i] \in DOMAIN score
        /\ \A i, j \in 1 .. n : Top(s, q.limit)[i] = Top(s, q.limit)[j] => i = j
        /\ DOMAIN Top(s, q.limit) = 1 .. n
        /\ \A i \in 1 .. n : Top(s, q.limit)[i] = s[i]
    BY <1>2, <1>4, <1>5, TopOfSeq
  <2> QED
    BY <2>1
<1> HIDE DEF n
<1>8. answer' = [i \in 1 .. n |-> records[s[i]]]
  BY <1>3, <1>7
<1>9. answer' \in Seq(Held) /\ Len(answer') = n /\ DOMAIN answer' = 1 .. n
  <2>1. answer' \in [1 .. n -> Held]
    BY <1>6, <1>7, <1>8
  <2> QED
    BY <1>7, <2>1, IsASeq, LenProperties
<1>10. \A i, j \in 1 .. n : answer'[i] = answer'[j] => i = j
  BY <1>6, <1>7, <1>8
<1>11. \A i \in 1 .. n : Port!InScope(answer'[i], q)
  BY <1>6, <1>7, <1>8
<1>12. answer' \in Seq(Records)
  <2>1. Held \subseteq Records
    BY DEF IInv, TypeOK
  <2>2. answer' \in [1 .. n -> Records]
    BY <1>6, <1>7, <1>8, <2>1
  <2> QED
    BY <1>7, <2>2, IsASeq
<1>13. UNCHANGED <<records, vectors, nextID, embedder>>
  BY DEF store, Return
<1>14. TypeOK' /\ Port!Return(c, "recall")
  BY <1>1, <1>12, <1>13, ReturnTypes DEF IInv, TypeOK
<1>15. VectorsMatch' /\ IdsMatch'
  BY <1>13 DEF IInv, VectorsMatch, IdsMatch
<1>16. Port!Recall(c)
  BY <1>7, <1>9, <1>10, <1>11, <1>13, <1>14 DEF Port!Recall
<1> QED
  BY <1>14, <1>15, <1>16, StampsAfterReturn DEF IInv

LEMMA RecallReturns ==
  ASSUME IInv, NEW c \in Clients, RecallSemantic(c) \/ RecallKeyword(c)
  PROVE  IInv' /\ Port!Recall(c)
<1> DEFINE q == request[c].of
           hits == {id \in Matching(q) : Score(q.words, records[id]) > 0}
<1>1. CASE RecallSemantic(c)
  <2>1. DOMAIN [id \in Matching(q) |-> Similarity(q.words, id)] \subseteq Matching(q)
    OBVIOUS
  <2> QED
    BY <1>1, <2>1, RecallStep DEF RecallSemantic
<1>2. CASE RecallKeyword(c)
  <2>1. DOMAIN [id \in hits |-> Score(q.words, records[id])] \subseteq Matching(q)
    OBVIOUS
  <2> QED
    BY <1>2, <2>1, RecallStep DEF RecallKeyword
<1> QED
  BY <1>1, <1>2

-----------------------------------------------------------------------------
(* The other steps *)

LEMMA RecallCalls ==
  ASSUME IInv, NEW c \in Clients, RecallCalled(c)
  PROVE  IInv' /\ Port!Ask(c)
<1>1. PICK q \in Queries :
         /\ Call(c, IF embedder /\ q.words # <<>> THEN "ask" ELSE "keyword", "recall", q)
         /\ UNCHANGED stamp
  BY DEF RecallCalled
<1>2. [op |-> "recall", of |-> q] \in Port!Requests
  BY DEF Port!Requests
<1>3. StampsMatch'
  BY <1>1 DEF IInv, TypeOK, StampsMatch, Call
<1> QED
  BY <1>1, <1>2, <1>3, CallTypes DEF IInv, TypeOK

LEMMA ForgetCalls ==
  ASSUME IInv, NEW c \in Clients, ForgetCalled(c)
  PROVE  IInv' /\ Port!Ask(c)
<1>1. PICK id \in Ids : Call(c, "forget", "forget", id)
  BY DEF ForgetCalled
<1>2. [op |-> "forget", of |-> id] \in Port!Requests
  BY DEF Port!Requests
<1>3. StampsMatch'
  BY <1>1 DEF IInv, TypeOK, StampsMatch, Call, ForgetCalled
<1> QED
  BY <1>1, <1>2, <1>3, CallTypes DEF IInv, TypeOK, ForgetCalled

LEMMA EmbedQueryStep ==
  ASSUME IInv, NEW c \in Clients, EmbedQuery(c)
  PROVE  IInv' /\ Port!Internal
<1>1. PICK place \in {"semantic", "keyword"} : Goes(c, "ask", place)
  BY DEF EmbedQuery
<1>2. StampsMatch' /\ stamp' \in [Clients -> Nat]
  BY <1>1 DEF IInv, TypeOK, StampsMatch, Goes, EmbedQuery
<1> QED
  BY <1>1, <1>2, GoesTypes

LEMMA ForgetStep ==
  ASSUME IInv, NEW c \in Clients, Forget(c)
  PROVE  IInv' /\ Port!Forget(c)
<1>1. request[c].of \in Ids /\ request[c].op = "forget"
  BY RequestKinds DEF IInv, TypeOK, Forget, Return
<1>2. /\ records' \in [Ids -> Records \cup {None}] /\ vectors' \in [Ids -> Texts \cup {None}]
      /\ nextID' \in 0 .. MaxGenerated
  BY DEF IInv, TypeOK, Forget
<1>3. answer' = <<>> /\ answer' \in Seq(Records)
  BY DEF Forget
<1>4. TypeOK' /\ Port!Return(c, "forget")
  BY <1>1, <1>2, <1>3, ReturnTypes DEF Forget
<1>5. VectorsMatch' /\ IdsMatch'
  BY <1>1 DEF IInv, TypeOK, VectorsMatch, IdsMatch, Forget, Return
<1>6. Port!Forget(c)
  BY <1>3, <1>4 DEF Port!Forget, Forget
<1> QED
  BY <1>4, <1>5, <1>6, StampsAfterReturn DEF IInv, Forget

LEMMA FailStep ==
  ASSUME IInv, NEW c \in Clients, Fails(c)
  PROVE  IInv' /\ Port!Fail(c)
<1>1. PICK from \in {"embed", "semantic", "keyword", "forget", "store"} : Return(c, from)
  BY DEF Fails
<1>2. UNCHANGED <<records, vectors, nextID, embedder>> /\ answer' = None
  BY <1>1 DEF Fails, store, Return
<1>3. TypeOK' /\ Port!Return(c, request[c].op) /\ request[c] # Port!NoRequest
  BY <1>1, <1>2, ReturnTypes DEF IInv, TypeOK
<1>4. VectorsMatch' /\ IdsMatch'
  BY <1>2 DEF IInv, VectorsMatch, IdsMatch
<1>5. Port!Fail(c)
  BY <1>2, <1>3 DEF Port!Fail
<1> QED
  BY <1>1, <1>3, <1>4, <1>5, StampsAfterReturn DEF IInv

LEMMA TickStep ==
  ASSUME IInv, Tick
  PROVE  IInv' /\ Port!Internal
<1>1. now' \in 1 .. MaxTime
  BY StoreAssumption DEF IInv, TypeOK, Tick
<1>2. TypeOK'
  BY <1>1 DEF IInv, TypeOK, Tick, store
<1> QED
  BY <1>2 DEF IInv, VectorsMatch, IdsMatch, StampsMatch, Tick, store, Port!Internal

LEMMA IdleStep == IInv /\ UNCHANGED vars => IInv'
BY DEF IInv, TypeOK, VectorsMatch, IdsMatch, StampsMatch, vars, store

LEMMA Step ==
  IInv /\ [Next]_vars => IInv' /\ [Port!Next \/ Port!Internal]_(Port!vars)
<1> SUFFICES ASSUME IInv, [Next]_vars
             PROVE  IInv' /\ [Port!Next \/ Port!Internal]_(Port!vars)
  OBVIOUS
<1>1. ASSUME NEW c \in Clients,
             RememberCalled(c) \/ RememberTool(c) \/ RecallCalled(c) \/ ForgetCalled(c)
      PROVE  IInv' /\ Port!Next
  BY <1>1, RememberCalls, RecallCalls, ForgetCalls DEF Port!Next
<1>2. ASSUME NEW c \in Clients, EmbedText(c) \/ EmbedQuery(c)
      PROVE  IInv' /\ Port!Internal
  BY <1>2, EmbedTextStep, EmbedQueryStep
<1>3. ASSUME NEW c \in Clients,
             Store(c) \/ RecallSemantic(c) \/ RecallKeyword(c) \/ Forget(c) \/ Fails(c)
      PROVE  IInv' /\ Port!Next
  BY <1>3, StoreStep, RecallReturns, ForgetStep, FailStep DEF Port!Next
<1>4. CASE Tick
  BY <1>4, TickStep
<1>5. CASE UNCHANGED vars
  <2>1. UNCHANGED Port!vars
    BY <1>5 DEF vars, store, Port!vars
  <2> QED
    BY <1>5, <2>1, IdleStep
<1> QED
  BY <1>1, <1>2, <1>3, <1>4, <1>5 DEF Next

-----------------------------------------------------------------------------
(* The best memories *)

\* A ranking of a finite set: it names every element, those it keeps first.
LEMMA RankedSeq ==
  ASSUME NEW S, IsFiniteSet(S), NEW s \in SetToSeqs(S), NEW limit \in Nat
  PROVE  /\ \A e \in S : \E k \in 1 .. Cardinality(S) : s[k] = e
         /\ DOMAIN s = 1 .. Cardinality(S) /\ Cardinality(S) \in Nat
         /\ Len(Top(s, limit)) = IF Cardinality(S) > limit THEN limit ELSE Cardinality(S)
<1> DEFINE D == 1 .. Cardinality(S)
<1>1. Cardinality(S) \in Nat
  BY FS_CardinalityType
<1>2. IsFiniteSet(D) /\ Cardinality(D) = Cardinality(S)
  BY <1>1, FS_Interval
<1>3. s \in [D -> S] /\ \A i, j \in D : i # j => s[i] # s[j]
  BY DEF SetToSeqs
<1>4. s \in Injection(D, S)
  BY <1>3, Fun_IsInj
<1>5. \A e \in S : \E k \in D : s[k] = e
  <2> HIDE DEF D
  <2>1. Cardinality(D) = Cardinality(S) <=> s \in Surjection(D, S)
    BY <1>4, FS_Injection
  <2>2. s \in Surjection(D, S)
    BY <1>2, <2>1
  <2> QED
    BY <2>2, Fun_SurjectionProperties
<1>6. \A e \in S : \E k \in D : s[k] = e
  BY <1>5
<1>7. s \in Seq(S) /\ Len(s) = Cardinality(S)
  BY <1>1, <1>3, IsASeq, LenProperties
<1> DEFINE n == IF Len(s) > limit THEN limit ELSE Len(s)
<1>8. n \in Nat /\ n <= Len(s)
  BY <1>1, <1>7
<1>9. \A i \in 1 .. n : s[i] \in S
  BY <1>1, <1>3, <1>7, <1>8
<1>10. Top(s, limit) = SubSeq(s, 1, n)
  BY DEF Top
<1> HIDE DEF n
<1>11. Len(SubSeq(s, 1, n)) = IF 1 <= n THEN n - 1 + 1 ELSE 0
  BY <1>8, <1>9, SubSeqProperties
<1>12. Len(Top(s, limit)) = n
  BY <1>8, <1>10, <1>11
<1> QED
  BY <1>1, <1>3, <1>6, <1>7, <1>12 DEF n

\* What a ranking of memories leaves out comes after all that it returns.
LEMMA LeftOut ==
  ASSUME NEW score, DOMAIN score \subseteq Ids, NEW limit \in Nat, Found(score, limit)
  PROVE  /\ \A n \in {answer'[i] : i \in DOMAIN answer'} : \E i \in DOMAIN score : n = records[i]
         /\ \A j \in DOMAIN score :
              \/ \E i \in DOMAIN answer' : answer'[i] = records[j]
              \/ /\ Len(answer') = limit
                 /\ \A n \in {answer'[i] : i \in DOMAIN answer'} :
                      \E i \in DOMAIN score : n = records[i] /\ Before(score, i, j)
<1> DEFINE S == DOMAIN score
<1>1. IsFiniteSet(S)
  BY FiniteIds, FS_Subset
<1>2. PICK s \in Ranked(score) : answer' = [i \in DOMAIN Top(s, limit) |-> records[s[i]]]
  BY DEF Found
<1>3. s \in SetToSeqs(S) /\ \A i, j \in DOMAIN s : i < j => Before(score, s[i], s[j])
  BY <1>2 DEF Ranked
<1> HIDE DEF S
<1> DEFINE n == Len(Top(s, limit))
<1>4. /\ \A e \in S : \E k \in 1 .. Cardinality(S) : s[k] = e
      /\ DOMAIN s = 1 .. Cardinality(S) /\ Cardinality(S) \in Nat
      /\ n = IF Cardinality(S) > limit THEN limit ELSE Cardinality(S)
  BY <1>1, <1>3, RankedSeq
<1>5. /\ n \in Nat /\ DOMAIN Top(s, limit) = 1 .. n
      /\ \A i \in 1 .. n : Top(s, limit)[i] \in S /\ Top(s, limit)[i] = s[i]
  BY <1>1, <1>3, TopOfSeq
<1> HIDE DEF n
<1>6. \A i \in 1 .. n : s[i] \in S
  BY <1>5
<1>7. answer' = [i \in 1 .. n |-> records[s[i]]]
  BY <1>2, <1>5
<1>8. DOMAIN answer' = 1 .. n /\ \A i \in 1 .. n : answer'[i] = records[s[i]]
  BY <1>7
<1>9. Len(answer') = n
  BY <1>5, <1>8, LenProperties, <1>7
<1>10. ASSUME NEW j \in S, ~ \E i \in DOMAIN answer' : answer'[i] = records[j]
       PROVE  Len(answer') = limit /\ \A i \in 1 .. n : Before(score, s[i], j)
  <2>1. PICK k \in 1 .. Cardinality(S) : s[k] = j
    BY <1>4
  <2>2. k \notin 1 .. n
    BY <1>8, <1>10, <2>1
  <2>3. k > n /\ n = limit
    BY <1>4, <1>5, <2>1, <2>2
  <2>4. \A i \in 1 .. n : i < k /\ i \in DOMAIN s
    BY <1>4, <1>5, <2>3
  <2> QED
    BY <1>3, <1>4, <1>9, <2>1, <2>3, <2>4
<1> QED
  BY <1>6, <1>8, <1>10 DEF S

\* Only a store with an embedder embeds questions.
Embedded == \A c \in Clients : at[c] \in {"ask", "semantic"} => embedder

LEMMA EmbeddedNext == IInv /\ Embedded /\ [Next]_vars => Embedded'
<1> SUFFICES ASSUME IInv, Embedded, [Next]_vars PROVE Embedded'
  OBVIOUS
<1>1. at \in [Clients -> {"idle", "embed", "store", "ask", "semantic", "keyword", "forget"}]
  BY DEF IInv, TypeOK
<1>2. ASSUME NEW c \in Clients, NEW place, at' = [at EXCEPT ![c] = place], embedder' = embedder,
             place \in {"ask", "semantic"} => at[c] \in {"ask", "semantic"} \/ embedder
      PROVE  Embedded'
  BY <1>1, <1>2 DEF Embedded
<1>3. ASSUME NEW c \in Clients, RememberCalled(c) \/ RememberTool(c)
      PROVE  Embedded'
  BY <1>2, <1>3 DEF RememberCalled, RememberTool, Remember, Call
<1>4. ASSUME NEW c \in Clients, RecallCalled(c)
      PROVE  Embedded'
  BY <1>2, <1>4 DEF RecallCalled, Call
<1>5. ASSUME NEW c \in Clients, ForgetCalled(c)
      PROVE  Embedded'
  BY <1>2, <1>5 DEF ForgetCalled, Call
<1>6. ASSUME NEW c \in Clients, EmbedText(c) \/ EmbedQuery(c)
      PROVE  Embedded'
  BY <1>2, <1>6 DEF EmbedText, EmbedQuery, Goes
<1>7. ASSUME NEW c \in Clients, Store(c) \/ RecallSemantic(c) \/ RecallKeyword(c) \/ Forget(c) \/ Fails(c)
      PROVE  Embedded'
  BY <1>2, <1>7 DEF Store, RecallSemantic, RecallKeyword, Forget, Fails, Return
<1>8. CASE Tick \/ UNCHANGED vars
  BY <1>8 DEF Tick, vars, Embedded
<1> QED
  BY <1>3, <1>4, <1>5, <1>6, <1>7, <1>8 DEF Next

\* What the store holds is a memory.
LEMMA HeldTyped ==
  ASSUME IInv, NEW i \in Ids, records[i] # None
  PROVE  records[i] \in Records /\ records[i].created \in Nat /\ records[i].text \in Texts
BY DEF IInv, TypeOK, Records

\* What is returned is there and alive; what is left out ranks after it.
LEMMA BestOf ==
  ASSUME IInv, NEW c \in Clients, NEW from \in {"semantic", "keyword"}, Return(c, from),
         NEW score, DOMAIN score \subseteq Matching(request[c].of),
         Found(score, request[c].of.limit)
  PROVE  LET q == request[c].of
             all == {records[id] : id \in Ids} \ {None}
             got == {answer'[i] : i \in DOMAIN answer'}
         IN  /\ \A m \in got : m \in all /\ (q.expired \/ ~Expired(m))
             /\ \A j \in DOMAIN score : records[j] \in all \ got =>
                  /\ Len(answer') = q.limit
                  /\ \A n \in got : \E i \in DOMAIN score :
                       /\ n = records[i]
                       /\ \/ score[i] > score[j]
                          \/ score[i] = score[j] /\ n.created >= records[j].created
<1> DEFINE q == request[c].of
           all == {records[id] : id \in Ids} \ {None}
           got == {answer'[i] : i \in DOMAIN answer'}
<1>1. q \in Queries /\ at[c] = from
  BY RequestKinds DEF IInv, TypeOK, Return
<1>2. q.limit \in Nat
  BY <1>1, StoreAssumption DEF Queries, Limit
<1>3. \A i \in DOMAIN score : /\ i \in Ids /\ records[i] # None /\ Matches(records[i], q)
                              /\ records[i].created \in Nat
  BY HeldTyped DEF Matching
<1>4. /\ \A n \in got : \E i \in DOMAIN score : n = records[i]
      /\ \A j \in DOMAIN score :
           \/ \E i \in DOMAIN answer' : answer'[i] = records[j]
           \/ /\ Len(answer') = q.limit
              /\ \A n \in got : \E i \in DOMAIN score : n = records[i] /\ Before(score, i, j)
  BY <1>2, <1>3, LeftOut
<1>5. \A i, j \in DOMAIN score :
        Before(score, i, j) => \/ score[i] > score[j]
                               \/ score[i] = score[j] /\ records[i].created >= records[j].created
  BY <1>3 DEF Before
<1>6. \A m \in got : m \in all /\ (q.expired \/ ~Expired(m))
  BY <1>3, <1>4 DEF Matches
<1>7. ASSUME NEW j \in DOMAIN score, records[j] \in all \ got
      PROVE  /\ Len(answer') = q.limit
             /\ \A n \in got : \E i \in DOMAIN score :
                  /\ n = records[i]
                  /\ \/ score[i] > score[j]
                     \/ score[i] = score[j] /\ n.created >= records[j].created
  <2>1. ~ \E i \in DOMAIN answer' : answer'[i] = records[j]
    BY <1>7
  <2> HIDE DEF got
  <2>2. Len(answer') = q.limit /\ \A n \in got : \E i \in DOMAIN score : n = records[i] /\ Before(score, i, j)
    BY <1>4, <2>1
  <2> QED
    BY <1>5, <2>2
<1> QED
  BY <1>6, <1>7

\* A client's recall is the best, by similarity where a question is embedded ...
LEMMA SemanticBest ==
  ASSUME IInv, Embedded, NEW c \in Clients, RecallSemantic(c)
  PROVE  BestFor(c)
<1> DEFINE q == request[c].of
           all == {records[id] : id \in Ids} \ {None}
           got == {answer'[i] : i \in DOMAIN answer'}
           score == [id \in Matching(q) |-> Similarity(q.words, id)]
<1>1. /\ Return(c, "semantic") /\ Found(score, q.limit) /\ DOMAIN score = Matching(q)
      /\ at[c] = "semantic"
  BY DEF RecallSemantic, Return
<1>2. q \in Queries /\ q.words \in Questions
  BY <1>1, RequestKinds DEF IInv, TypeOK, Queries
<1>3. embedder
  BY <1>1 DEF Embedded
<1>4. ASSUME NEW i \in Matching(q)
      PROVE  score[i] = 1 + Near[q.words, records[i].text] /\ Near[q.words, records[i].text] \in Nat
  <2>1. i \in Ids /\ records[i] # None
    BY <1>4 DEF Matching
  <2>2. vectors[i] = records[i].text /\ records[i].text \in Texts /\ None \notin Texts
    BY <1>3, <2>1, HeldTyped, StoreAssumption DEF IInv, VectorsMatch
  <2>3. score[i] = 1 + Near[q.words, records[i].text]
    BY <1>4, <2>2 DEF Similarity
  <2>4. Near[q.words, records[i].text] \in Nat
    BY <1>2, <2>2, StoreAssumption
  <2> QED
    BY <2>3, <2>4
<1> HIDE DEF score
<1>5. /\ \A m \in got : m \in all /\ (q.expired \/ ~Expired(m))
      /\ \A j \in DOMAIN score : records[j] \in all \ got =>
           /\ Len(answer') = q.limit
           /\ \A n \in got : \E i \in DOMAIN score :
                /\ n = records[i]
                /\ \/ score[i] > score[j]
                   \/ score[i] = score[j] /\ n.created >= records[j].created
  BY <1>1, BestOf
<1> DEFINE Value(m) == Near[q.words, m.text]
<1>6. ASSUME NEW m \in all \ got, Matches(m, q)
      PROVE  /\ Len(answer') = q.limit
             /\ \A n \in got : Value(n) > Value(m) \/ (Value(n) = Value(m) /\ n.created >= m.created)
  <2>1. PICK j \in Ids : m = records[j] /\ records[j] # None
    OBVIOUS
  <2>2. j \in Matching(q)
    BY <1>6, <2>1 DEF Matching
  <2>3. ASSUME NEW n \in got
        PROVE  Value(n) > Value(m) \/ (Value(n) = Value(m) /\ n.created >= m.created)
    <3>1. PICK i \in Matching(q) :
            /\ n = records[i]
            /\ score[i] > score[j] \/ (score[i] = score[j] /\ n.created >= records[j].created)
      BY <1>1, <1>5, <2>1, <2>2
    <3>2. /\ score[i] = 1 + Value(n) /\ Value(n) \in Nat
          /\ score[j] = 1 + Value(m) /\ Value(m) \in Nat
      BY <1>4, <2>1, <2>2, <3>1
    <3> HIDE DEF Value
    <3> QED
      BY <2>1, <3>1, <3>2
  <2> QED
    BY <1>1, <1>5, <2>1, <2>2, <2>3
<1> QED
  BY <1>1, <1>5, <1>6 DEF BestFor

\* ... and else by its words.
LEMMA KeywordBest ==
  ASSUME IInv, NEW c \in Clients, RecallKeyword(c)
  PROVE  BestFor(c)
<1> DEFINE q == request[c].of
           all == {records[id] : id \in Ids} \ {None}
           got == {answer'[i] : i \in DOMAIN answer'}
           hits == {id \in Matching(q) : Score(q.words, records[id]) > 0}
           score == [id \in hits |-> Score(q.words, records[id])]
<1>1. /\ Return(c, "keyword") /\ Found(score, q.limit) /\ DOMAIN score = hits /\ hits \subseteq Matching(q)
      /\ at[c] = "keyword"
  BY DEF RecallKeyword, Return
<1>2. \A i \in hits : score[i] = Score(q.words, records[i])
  OBVIOUS
<1> HIDE DEF score
<1>3. /\ \A m \in got : m \in all /\ (q.expired \/ ~Expired(m))
      /\ \A j \in DOMAIN score : records[j] \in all \ got =>
           /\ Len(answer') = q.limit
           /\ \A n \in got : \E i \in DOMAIN score :
                /\ n = records[i]
                /\ \/ score[i] > score[j]
                   \/ score[i] = score[j] /\ n.created >= records[j].created
  BY <1>1, BestOf
<1>4. ASSUME NEW m \in all \ got, Matches(m, q), Score(q.words, m) > 0
      PROVE  /\ Len(answer') = q.limit
             /\ \A n \in got : \/ Score(q.words, n) > Score(q.words, m)
                               \/ Score(q.words, n) = Score(q.words, m) /\ n.created >= m.created
  <2>1. PICK j \in Ids : m = records[j] /\ records[j] # None
    OBVIOUS
  <2>2. j \in hits
    BY <1>4, <2>1 DEF Matching
  <2> HIDE DEF hits
  <2>3. ASSUME NEW n \in got
        PROVE  \/ Score(q.words, n) > Score(q.words, m)
               \/ Score(q.words, n) = Score(q.words, m) /\ n.created >= m.created
    <3>1. PICK i \in hits :
            /\ n = records[i]
            /\ score[i] > score[j] \/ (score[i] = score[j] /\ n.created >= records[j].created)
      BY <1>1, <1>3, <2>1, <2>2
    <3>2. score[i] = Score(q.words, n) /\ score[j] = Score(q.words, m)
      BY <1>2, <2>1, <2>2, <3>1
    <3> QED
      BY <2>1, <3>1, <3>2
  <2> QED
    BY <1>1, <1>3, <2>1, <2>2, <2>3
<1> QED
  BY <1>1, <1>3, <1>4 DEF BestFor

\* No other step returns memories from a recall.
LEMMA BestStep ==
  ASSUME IInv, Embedded, [Next]_vars, NEW c \in Clients
  PROVE  BestFor(c)
<1> SUFFICES ASSUME at[c] \in {"semantic", "keyword"}, at'[c] = "idle", answer' # None
             PROVE  BestFor(c)
  BY DEF BestFor
<1>1. at \in [Clients -> {"idle", "embed", "store", "ask", "semantic", "keyword", "forget"}]
  BY DEF IInv, TypeOK
<1>2. ~UNCHANGED vars /\ ~Tick
  BY DEF vars, Tick
<1>3. ASSUME NEW d \in Clients, RememberCalled(d) \/ RememberTool(d)
      PROVE  FALSE
  BY <1>3 DEF RememberCalled, RememberTool, Remember, Call
<1>4. ASSUME NEW d \in Clients, RecallCalled(d) \/ ForgetCalled(d) \/ EmbedText(d) \/ EmbedQuery(d) \/ Fails(d)
      PROVE  FALSE
  BY <1>4 DEF RecallCalled, ForgetCalled, EmbedText, EmbedQuery, Fails, Call, Goes
<1>5. ASSUME NEW d \in Clients, Store(d) \/ Forget(d)
      PROVE  FALSE
  BY <1>1, <1>5 DEF Store, Forget, Return
<1>6. ASSUME NEW d \in Clients, RecallSemantic(d) \/ RecallKeyword(d)
      PROVE  d = c
  BY <1>1, <1>6 DEF RecallSemantic, RecallKeyword, Return
<1> QED
  BY <1>2, <1>3, <1>4, <1>5, <1>6, SemanticBest, KeywordBest DEF Next

-----------------------------------------------------------------------------
(* Theorems *)

\* Every variable keeps its type, and a call's request is what the place it is at
\* in the code takes.
THEOREM Typing == Spec => []TypeOK
<1>1. IInv => TypeOK
  BY DEF IInv
<1> QED
  BY <1>1, InitTypes, Step, PTL DEF Spec

\* Every memory, and nothing else, has a vector, that of its own text, whichever
\* callers embed outside the lock while others store, replace and forget the same
\* id (store.go:54-94, 207-220).
THEOREM VectorsOfTheirTexts == Spec => []VectorsMatch
<1>1. IInv => VectorsMatch
  BY DEF IInv
<1> QED
  BY <1>1, InitTypes, Step, PTL DEF Spec

\* The store implements the interface: each call takes effect at one moment, or
\* fails without any (memory.go:35-46).
THEOREM Refinement == Spec => ImplementsPort
<1>1. Init => Port!Init
  BY DEF Init, Port!Init
<1> QED
  BY <1>1, InitTypes, Step, PTL DEF Spec, ImplementsPort, Port!Spec

\* A recall returns what is alive, and of that the best: what it leaves out is
\* left out for want of room, for memories more about the question or no older,
\* for any number of memories and whatever happens while the question is embedded
\* (store.go:96-205).
THEOREM TheBestAreRecalled == Spec => RecallsBest
<1>1. Init => Embedded
  BY DEF Init, Embedded
<1>2. IInv /\ Embedded /\ [Next]_vars => [\A c \in Clients : BestFor(c)]_vars
  BY BestStep
<1> QED
  BY <1>1, <1>2, InitTypes, Step, EmbeddedNext, PTL DEF Spec, RecallsBest

-----------------------------------------------------------------------------
(* Workflow *)

\* Client c's outcome is being stored.
Saves(c) == pc[c] \in {"saving", "writing"}

\* The types; who saves has a session to save, and the session file was saved;
\* a client that resumes nothing has nothing to execute.
TypesInv ==
    /\ RunnerTypeOK
    /\ \A c \in Callers : Saves(c) => outcome[c] \in Sessions
    /\ file \in saved \cup {Nil}
    /\ \A c \in Callers : pc[c] # "idle" /\ work[c].batch = 0 =>
         work[c].results = Calls /\ work[c].todo = {}

\* Some smallest call is left, so that Execute's choice is one of them.
LEMMA Least ==
  ASSUME NEW S \in SUBSET Calls, S # {}
  PROVE  \E k \in S : \A j \in S : k <= j
<1>1. S \subseteq Nat
  BY WorkflowAssumption DEF Calls
<1>2. PICK x \in S : \A y \in S : ~ (<<y, x>> \in OpToRel(<, Nat))
  BY <1>1, NatLessThanWellFounded, WFMin
<1>3. \A y \in S : ~ (y < x)
  BY <1>1, <1>2 DEF OpToRel
<1> QED
  BY <1>1, <1>3

\* What is lost is counted: nothing is ever taken back, and a client that loses
\* a resume adds to it.
LEMMA Losses ==
  ASSUME RunnerTypeOK, NEW cs \in SUBSET Callers, Lose(cs)
  PROVE  /\ lost' \in [Batches -> Nat]
         /\ \A b \in Batches : lost[b] <= lost'[b]
         /\ \A b \in Batches, c \in cs :
              work[c] # Nil /\ work[c].batch = b => lost[b] + 1 <= lost'[b]
<1> DEFINE Losing(b) == {c \in cs : work[c] # Nil /\ work[c].batch = b}
<1>1. ASSUME NEW b \in Batches
      PROVE  Cardinality(Losing(b)) \in Nat /\ (Losing(b) # {} => Cardinality(Losing(b)) >= 1)
  <2>1. IsFiniteSet(Losing(b))
    BY FS_Subset, WorkflowAssumption
  <2>2. Cardinality(Losing(b)) \in Nat /\ (Cardinality(Losing(b)) = 0 <=> Losing(b) = {})
    BY <2>1, FS_CardinalityType, FS_EmptySet
  <2> HIDE DEF Losing
  <2> QED
    BY <2>2
<1>2. lost' = [b \in Batches |-> lost[b] + Cardinality(Losing(b))]
  BY DEF Lose
<1>3. \A b \in Batches : lost[b] \in Nat
  BY DEF RunnerTypeOK
<1>4. \A b \in Batches, c \in cs : work[c] # Nil /\ work[c].batch = b => Losing(b) # {}
  OBVIOUS
<1> HIDE DEF Losing
<1>5. \A b \in Batches : lost'[b] = lost[b] + Cardinality(Losing(b))
  BY <1>2
<1> QED
  BY <1>1, <1>2, <1>3, <1>4, <1>5

LEMMA RunnerInitTypes == RunnerInit => TypesInv
<1> SUFFICES ASSUME RunnerInit PROVE TypesInv
  OBVIOUS
<1>1. RunnerTypeOK
  BY WorkflowAssumption DEF RunnerInit, RunnerTypeOK
<1> QED
  BY <1>1 DEF RunnerInit, TypesInv, Saves

\* What a work and a session are made of.
LEMMA WorkFields ==
  ASSUME RunnerTypeOK, NEW c \in Callers, pc[c] # "idle"
  PROVE  /\ work[c] \in Works /\ work[c] # Nil
         /\ work[c].messages \in History
         /\ work[c].batch \in Batches \cup {0}
         /\ work[c].results \subseteq Calls /\ work[c].todo \subseteq Calls
         /\ work[c].cut \subseteq 1 .. MaxRequests
<1>1. work[c] \in Works
  BY DEF RunnerTypeOK
<1>2. work[c] # Nil
  BY DEF RunnerTypeOK
<1> QED
  BY <1>1, <1>2 DEF Works

LEMMA SessionFields ==
  ASSUME NEW s \in Sessions \cup {Nil}
  PROVE  /\ s # Nil => s \in Sessions /\ s.messages \in History
         /\ Messages(s) \in History
         /\ Paused(s) => /\ s \in Sessions
                         /\ s.checkpoint \in Checkpoints
                         /\ s.checkpoint.batch \in Batches
                         /\ s.checkpoint.messages \in History
                         /\ s.checkpoint.results \subseteq Calls
<1>1. <<>> \in History
  BY DEF History
<1>2. s # Nil => s \in Sessions /\ s.messages \in History /\ s.checkpoint \in Checkpoints \cup {Nil}
  BY DEF Sessions
<1>3. \A cp \in Checkpoints : cp.batch \in Batches /\ cp.messages \in History /\ cp.results \subseteq Calls
  BY DEF Checkpoints
<1> QED
  BY <1>1, <1>2, <1>3 DEF Messages, Paused

LEMMA RunTypes ==
  ASSUME TypesInv, NEW c \in Callers, Run(c)
  PROVE  TypesInv'
<1> USE DEF TypesInv, RunnerTypeOK
<1>1. PICK session \in Loads :
        work' = [work EXCEPT ![c] = [messages |-> Append(Messages(session), requests'),
                                     batch |-> 0, results |-> Calls, todo |-> {}, cut |-> {}]]
  BY DEF Run
<1>2. session \in Sessions \cup {Nil}
  BY DEF Loads, OnLoadError
<1>3. requests' \in 1 .. MaxRequests
  BY WorkflowAssumption DEF Run, MayRequest
<1>4. Append(Messages(session), requests') \in History
  BY <1>2, <1>3, SessionFields, AppendProperties DEF History
<1> DEFINE w == [messages |-> Append(Messages(session), requests'),
                 batch |-> 0, results |-> Calls, todo |-> {}, cut |-> {}]
<1>5. w \in Works
  BY <1>4 DEF Works
<1>6. w # Nil
  BY <1>5, WorkflowAssumption
<1>7. work' = [work EXCEPT ![c] = w] /\ w.results = Calls /\ w.todo = {}
  BY <1>1
<1> HIDE DEF w
<1>8. /\ pc' = [pc EXCEPT ![c] = "running"]
      /\ outcome' = [outcome EXCEPT ![c] = Nil]
      /\ UNCHANGED <<serial, file, mu, ran, lost, saved>>
  BY DEF Run
<1>9. work' \in [Callers -> Works \cup {Nil}] /\ \A d \in Callers : work'[d] = Nil <=> pc'[d] = "idle"
  BY <1>5, <1>6, <1>7, <1>8
<1>10. \A d \in Callers : pc'[d] # "idle" /\ work'[d].batch = 0 =>
         work'[d].results = Calls /\ work'[d].todo = {}
  BY <1>7, <1>8
<1>11. requests' \in 0 .. MaxRequests
  BY <1>3, WorkflowAssumption
<1> QED
  BY <1>8, <1>9, <1>10, <1>11 DEF Saves

LEMMA ResumeTypes ==
  ASSUME TypesInv, NEW c \in Callers, NEW approved \in SUBSET Calls, Resume(c, approved)
  PROVE  TypesInv'
<1> USE DEF TypesInv, RunnerTypeOK
<1> DEFINE w == [messages |-> file.checkpoint.messages, batch |-> file.checkpoint.batch,
                 results |-> file.checkpoint.results, todo |-> approved, cut |-> {}]
<1>1. w \in Works
  BY SessionFields DEF Resume, Works
<1>2. w # Nil
  BY <1>1, WorkflowAssumption
<1>3. work' = [work EXCEPT ![c] = w] /\ w.batch # 0
  BY WorkflowAssumption, SessionFields DEF Resume, Batches
<1> HIDE DEF w
<1>4. requests' \in 0 .. MaxRequests
  BY WorkflowAssumption DEF Resume, MayRequest
<1>5. /\ pc' = [pc EXCEPT ![c] = "running"]
      /\ outcome' = [outcome EXCEPT ![c] = Nil]
      /\ UNCHANGED <<serial, file, mu, ran, lost, saved>>
  BY DEF Resume
<1>6. work' \in [Callers -> Works \cup {Nil}] /\ \A d \in Callers : work'[d] = Nil <=> pc'[d] = "idle"
  BY <1>1, <1>2, <1>3, <1>5
<1>7. \A d \in Callers : pc'[d] # "idle" /\ work'[d].batch = 0 =>
         work'[d].results = Calls /\ work'[d].todo = {}
  BY <1>3, <1>5
<1> QED
  BY <1>4, <1>5, <1>6, <1>7 DEF Saves

\* A request ends: with nothing, or with a session.
LEMMA EndTypes ==
  ASSUME TypesInv, NEW c \in Callers, NEW a \in Sessions \cup {Nil}, EndRequest(c, a)
  PROVE  /\ pc' \in [Callers -> {"idle", "running", "saving", "writing"}]
         /\ work' \in [Callers -> Works \cup {Nil}]
         /\ \A d \in Callers : work'[d] = Nil <=> pc'[d] = "idle"
         /\ outcome' \in [Callers -> Sessions \cup {Nil}]
         /\ \A d \in Callers : Saves(d)' => outcome'[d] \in Sessions
         /\ \A d \in Callers : pc'[d] # "idle" /\ work'[d].batch = 0 =>
              work'[d].results = Calls /\ work'[d].todo = {}
BY DEF TypesInv, RunnerTypeOK, EndRequest, Saves

LEMMA RefusedTypes ==
  ASSUME TypesInv, NEW c \in Callers, Refused(c)
  PROVE  TypesInv'
<1>1. requests' \in 0 .. MaxRequests
  BY WorkflowAssumption DEF Refused, MayRequest, TypesInv, RunnerTypeOK
<1> QED
  BY <1>1, EndTypes DEF Refused, TypesInv, RunnerTypeOK

\* The call executed next, and what its execution changes.
LEMMA Executed ==
  ASSUME RunnerTypeOK, NEW c \in Callers, Execute(c)
  PROVE  \E k \in work[c].todo :
           /\ k \in Calls
           /\ ran' = [ran EXCEPT ![<<work[c].batch, k>>] = @ + 1]
           /\ work' = [work EXCEPT ![c].todo = @ \ {k}, ![c].results = @ \cup {k}]
<1>1. work[c].todo \in SUBSET Calls /\ work[c].todo # {}
  BY WorkFields DEF Execute
<1>2. PICK k \in work[c].todo :
        k = (CHOOSE i \in work[c].todo : \A j \in work[c].todo : i <= j)
  BY <1>1, Least
<1> QED
  BY <1>1, <1>2 DEF Execute

LEMMA ExecuteTypes ==
  ASSUME TypesInv, NEW c \in Callers, Execute(c)
  PROVE  TypesInv'
<1>1. PICK k \in Calls :
        /\ ran' = [ran EXCEPT ![<<work[c].batch, k>>] = @ + 1]
        /\ work' = [work EXCEPT ![c].todo = @ \ {k}, ![c].results = @ \cup {k}]
  BY Executed DEF TypesInv
<1>2. work[c].batch \in Batches
  BY WorkFields DEF TypesInv, Execute, Batches
<1>3. work[c] \in Works /\ pc[c] # "idle"
  BY WorkFields DEF TypesInv, Execute
<1> DEFINE w == [work[c] EXCEPT !.todo = @ \ {k}, !.results = @ \cup {k}]
<1>4. w \in Works
  BY <1>3 DEF Works
<1>5. w # Nil
  BY <1>4, WorkflowAssumption
<1>6. work' = [work EXCEPT ![c] = w]
  BY <1>1 DEF TypesInv, RunnerTypeOK
<1>10. w.batch # 0
  BY <1>2, <1>3, WorkflowAssumption DEF Works, Batches
<1> HIDE DEF w
<1>7. ran' \in [Batches \X Calls -> Nat]
  BY <1>1, <1>2 DEF TypesInv, RunnerTypeOK
<1>8. /\ work' \in [Callers -> Works \cup {Nil}]
      /\ \A d \in Callers : work'[d] = Nil <=> pc[d] = "idle"
  BY <1>3, <1>4, <1>5, <1>6 DEF TypesInv, RunnerTypeOK
<1>9. UNCHANGED <<serial, file, mu, pc, outcome, requests, lost, saved>>
  BY DEF Execute
<1>11. \A d \in Callers : pc[d] # "idle" /\ work'[d].batch = 0 =>
         work'[d].results = Calls /\ work'[d].todo = {}
  BY <1>6, <1>10 DEF TypesInv, RunnerTypeOK
<1> QED
  BY <1>7, <1>8, <1>9, <1>11 DEF TypesInv, RunnerTypeOK, Saves

\* A conversation cut at k: its first message and those from k on.
LEMMA CutMessages ==
  ASSUME NEW msgs \in History, NEW k \in 3 .. Len(msgs) + 1,
         NEW new, new = <<msgs[1]>> \o SubSeq(msgs, k, Len(msgs))
  PROVE  /\ Len(msgs) \in Nat \ {0, 1}
         /\ new \in History /\ Len(new) = Len(msgs) - k + 2
         /\ new[1] = msgs[1]
         /\ \A i \in k .. Len(msgs) : new[i - k + 2] = msgs[i]
<1>0. msgs \in Seq(1 .. MaxRequests) /\ Len(msgs) \in Nat
  BY LenProperties DEF History
<1>1. Len(msgs) \in Nat /\ k \in Int /\ 3 <= k /\ k <= Len(msgs) + 1
  BY <1>0
<1>2. \A i \in 1 .. Len(msgs) : msgs[i] \in 1 .. MaxRequests
  BY <1>0, ElementOfSeq
<1>3. PICK n \in Nat : n = Len(msgs)
  BY <1>1
<1>4. PICK tail : tail = SubSeq(msgs, k, n)
  OBVIOUS
<1>5. /\ tail \in Seq(1 .. MaxRequests) /\ Len(tail) = n - k + 1
      /\ \A i \in 1 .. n - k + 1 : tail[i] = msgs[k + i - 1]
  <2>1. \A i \in k .. n : msgs[i] \in 1 .. MaxRequests
    BY <1>1, <1>2, <1>3
  <2>2. /\ tail \in Seq(1 .. MaxRequests) /\ Len(tail) = IF k <= n THEN n - k + 1 ELSE 0
        /\ \A i \in 1 .. n - k + 1 : tail[i] = msgs[k + i - 1]
    BY <1>1, <1>3, <1>4, <2>1, SubSeqProperties
  <2> QED
    BY <1>1, <1>3, <2>2
<1>6. PICK head : head = <<msgs[1]>>
  OBVIOUS
<1>12. head \in Seq(1 .. MaxRequests) /\ Len(head) = 1 /\ head[1] = msgs[1]
  <2>1. msgs[1] \in 1 .. MaxRequests
    BY <1>1, <1>2
  <2> QED
    BY <1>6, <2>1
<1>7. new = head \o tail
  BY <1>3, <1>4, <1>6
<1>8. /\ new \in Seq(1 .. MaxRequests) /\ Len(new) = 1 + Len(tail)
      /\ \A i \in 1 .. 1 + Len(tail) : new[i] = IF i <= 1 THEN head[i] ELSE tail[i - 1]
  <2>1. /\ head \o tail \in Seq(1 .. MaxRequests) /\ Len(head \o tail) = Len(head) + Len(tail)
        /\ \A i \in 1 .. Len(head) + Len(tail) :
             (head \o tail)[i] = IF i <= Len(head) THEN head[i] ELSE tail[i - Len(head)]
    BY <1>5, <1>12, ConcatProperties
  <2>2. Len(head) = 1
    BY <1>12
  <2> QED
    BY <1>7, <2>1, <2>2
<1>9. ASSUME NEW i \in k .. n PROVE new[i - k + 2] = msgs[i]
  <2>1. i - k + 2 \in 1 .. 1 + Len(tail) /\ ~ (i - k + 2 <= 1) /\ (i - k + 2) - 1 \in 1 .. n - k + 1
    BY <1>1, <1>3, <1>5
  <2>2. k + ((i - k + 2) - 1) - 1 = i
    BY <1>1, <1>3
  <2> QED
    BY <1>5, <1>8, <2>1, <2>2
<1>10. 1 \in 1 .. 1 + Len(tail) /\ 1 + Len(tail) = n - k + 2
  BY <1>1, <1>3, <1>5
<1>11. new[1] = msgs[1] /\ Len(new) = n - k + 2
  <2>1. new[1] = head[1]
    BY <1>8, <1>10
  <2> QED
    BY <1>8, <1>10, <1>12, <2>1
<1>13. new \in History
  BY <1>8 DEF History
<1>14. Len(msgs) \in Nat \ {0, 1}
  BY <1>1
<1> QED
  BY <1>3, <1>9, <1>11, <1>13, <1>14

\* A compaction changes the conversation at work and what was cut from it.
LEMMA Compacted ==
  ASSUME RunnerTypeOK, NEW c \in Callers, NEW k \in 3 .. MaxRequests + 1, Compacts(c, k)
  PROVE  /\ pc[c] = "running"
         /\ UNCHANGED <<serial, file, mu, pc, outcome, requests, ran, lost, saved>>
         /\ \A d \in Callers : d # c => work'[d] = work[d]
         /\ work'[c].batch = work[c].batch /\ work'[c].results = work[c].results
         /\ work'[c].todo = work[c].todo
         /\ work'[c] \in Works /\ work' \in [Callers -> Works \cup {Nil}]
         /\ k \in 3 .. Len(work[c].messages) + 1
         /\ work'[c].messages = <<work[c].messages[1]>>
                                   \o SubSeq(work[c].messages, k, Len(work[c].messages))
         /\ work'[c].cut = work[c].cut \cup {work[c].messages[i] : i \in 2 .. k - 1}
<1>1. pc[c] = "running" /\ k \in 3 .. Len(work[c].messages) + 1
  BY DEF Compacts, TurnComplete
<1>2. work[c] \in Works /\ work \in [Callers -> Works \cup {Nil}] /\ work[c].messages \in History
  BY <1>1, WorkFields DEF RunnerTypeOK
<1>3. PICK new : new = <<work[c].messages[1]>> \o SubSeq(work[c].messages, k, Len(work[c].messages))
  OBVIOUS
<1>4. new \in History /\ Len(work[c].messages) \in Nat
  BY <1>1, <1>2, <1>3, CutMessages
<1>5. PICK gone : gone = {work[c].messages[i] : i \in 2 .. k - 1}
  OBVIOUS
<1>6. gone \subseteq 1 .. MaxRequests
  <2> SUFFICES ASSUME NEW i \in 2 .. k - 1 PROVE work[c].messages[i] \in 1 .. MaxRequests
    BY <1>5
  <2>1. i \in 1 .. Len(work[c].messages)
    BY <1>1, <1>4
  <2> QED
    BY <1>2, <2>1, ElementOfSeq DEF History
<1>7. work' = [work EXCEPT ![c].messages = new, ![c].cut = @ \cup gone]
  BY <1>3, <1>5 DEF Compacts
<1> DEFINE w == [work[c] EXCEPT !.messages = new, !.cut = @ \cup gone]
<1>8. /\ w \in Works /\ w.batch = work[c].batch /\ w.results = work[c].results
      /\ w.todo = work[c].todo /\ w.messages = new /\ w.cut = work[c].cut \cup gone
  BY <1>2, <1>4, <1>6 DEF Works
<1>9. work' = [work EXCEPT ![c] = w]
  BY <1>2, <1>7
<1> HIDE DEF w
<1>10. work'[c] = w /\ work' \in [Callers -> Works \cup {Nil}] /\ \A d \in Callers : d # c => work'[d] = work[d]
  BY <1>2, <1>8, <1>9
<1>11. UNCHANGED <<serial, file, mu, pc, outcome, requests, ran, lost, saved>>
  BY DEF Compacts
<1> QED
  BY <1>1, <1>3, <1>5, <1>8, <1>10, <1>11

LEMMA CompactsTypes ==
  ASSUME TypesInv, NEW c \in Callers, NEW k \in 3 .. MaxRequests + 1, Compacts(c, k)
  PROVE  TypesInv'
<1>1. /\ pc[c] = "running"
      /\ UNCHANGED <<serial, file, mu, pc, outcome, requests, ran, lost, saved>>
      /\ \A d \in Callers : d # c => work'[d] = work[d]
      /\ work'[c].batch = work[c].batch /\ work'[c].results = work[c].results
      /\ work'[c].todo = work[c].todo
      /\ work'[c] \in Works /\ work' \in [Callers -> Works \cup {Nil}]
  BY Compacted DEF TypesInv
<1>2. \A d \in Callers : work'[d] = Nil <=> pc'[d] = "idle"
  BY <1>1, WorkflowAssumption DEF TypesInv, RunnerTypeOK
<1> QED
  BY <1>1, <1>2 DEF TypesInv, RunnerTypeOK, Saves

LEMMA AgentFailsTypes ==
  ASSUME TypesInv, NEW c \in Callers, AgentFails(c)
  PROVE  TypesInv'
<1>1. lost' \in [Batches -> Nat]
  BY Losses DEF AgentFails, TypesInv
<1> QED
  BY <1>1, EndTypes DEF AgentFails, TypesInv, RunnerTypeOK

\* An agent's outcome is a session.
LEMMA PersistTypes ==
  ASSUME TypesInv, NEW c \in Callers, NEW s \in Sessions, Persist(c, s), pc[c] = "running",
         UNCHANGED <<serial, file, mu, work, requests, lost, saved>>, ran' \in [Batches \X Calls -> Nat]
  PROVE  TypesInv'
BY DEF TypesInv, RunnerTypeOK, Persist, Saves

LEMMA SessionTyped ==
  ASSUME NEW msgs \in History, NEW cp \in Checkpoints \cup {Nil}
  PROVE  Session(msgs, cp) \in Sessions
BY DEF Session, Sessions

LEMMA CheckpointTyped ==
  ASSUME NEW msgs \in History, NEW b \in Batches, NEW done \in SUBSET Calls
  PROVE  Checkpoint(b, msgs, done) \in Checkpoints
BY DEF Checkpoint, Checkpoints

LEMMA StaysPausedTypes ==
  ASSUME TypesInv, NEW c \in Callers, StaysPaused(c)
  PROVE  TypesInv'
<1>1. work[c].messages \in History /\ work[c].batch \in Batches /\ Merged(c) \in SUBSET Calls
  BY WorkFields DEF StaysPaused, TypesInv, Merged
<1>2. Session(work[c].messages, Checkpoint(work[c].batch, work[c].messages, Merged(c))) \in Sessions
  BY <1>1, SessionTyped, CheckpointTyped
<1> QED
  BY <1>2, PersistTypes DEF StaysPaused, TypesInv, RunnerTypeOK

LEMMA PausesTypes ==
  ASSUME TypesInv, NEW c \in Callers, NEW b \in Batches, NEW done \in SUBSET Calls, Pauses(c, b, done)
  PROVE  TypesInv'
<1>1. work[c].messages \in History
  BY WorkFields DEF Pauses, TurnComplete, TypesInv
<1>2. Session(work[c].messages, Checkpoint(b, work[c].messages, done)) \in Sessions
  BY <1>1, SessionTyped, CheckpointTyped
<1>3. ran' \in [Batches \X Calls -> Nat]
  BY DEF Pauses, TypesInv, RunnerTypeOK
<1> QED
  BY <1>2, <1>3, PersistTypes DEF Pauses, TurnComplete

LEMMA FinishesTypes ==
  ASSUME TypesInv, NEW c \in Callers, Finishes(c)
  PROVE  TypesInv'
<1>1. work[c].messages \in History
  BY WorkFields DEF Finishes, TurnComplete, TypesInv
<1>2. Session(work[c].messages, Nil) \in Sessions
  BY <1>1, SessionTyped
<1> QED
  BY <1>2, PersistTypes DEF Finishes, TurnComplete, TypesInv, RunnerTypeOK

LEMMA LockTypes ==
  ASSUME TypesInv, NEW c \in Callers, LockStore(c)
  PROVE  TypesInv'
BY DEF LockStore, TypesInv, RunnerTypeOK, Saves

LEMMA SaveFailsTypes ==
  ASSUME TypesInv, NEW c \in Callers, SaveFails(c)
  PROVE  TypesInv'
<1>1. lost' \in [Batches -> Nat]
  BY Losses DEF SaveFails, TypesInv
<1> QED
  BY <1>1, EndTypes DEF SaveFails, TypesInv, RunnerTypeOK

LEMMA RenameTypes ==
  ASSUME TypesInv, NEW c \in Callers, Rename(c)
  PROVE  TypesInv'
<1>1. outcome[c] \in Sessions
  BY DEF Rename, TypesInv, Saves
<1> QED
  BY <1>1, EndTypes DEF Rename, TypesInv, RunnerTypeOK

LEMMA CrashTypes ==
  ASSUME TypesInv, Crash
  PROVE  TypesInv'
<1>1. lost' \in [Batches -> Nat]
  BY Losses DEF Crash, TypesInv
<1> QED
  BY <1>1 DEF Crash, TypesInv, RunnerTypeOK, Saves

LEMMA TypesStep == TypesInv /\ [RunnerNext]_runnerVars => TypesInv'
<1> SUFFICES ASSUME TypesInv, [RunnerNext]_runnerVars PROVE TypesInv'
  OBVIOUS
<1>1. CASE UNCHANGED runnerVars
  BY <1>1 DEF runnerVars, TypesInv, RunnerTypeOK, Saves
<1>2. CASE Crash
  BY <1>2, CrashTypes
<1>3. ASSUME NEW c \in Callers,
             \/ Run(c) \/ Refused(c) \/ \E approved \in SUBSET Calls : Resume(c, approved)
             \/ Execute(c) \/ AgentFails(c) \/ StaysPaused(c) \/ Finishes(c)
             \/ \E k \in 3 .. MaxRequests + 1 : Compacts(c, k)
             \/ \E b \in Batches, done \in SUBSET Calls : Pauses(c, b, done)
             \/ LockStore(c) \/ SaveFails(c) \/ Rename(c)
      PROVE  TypesInv'
  BY <1>3, RunTypes, RefusedTypes, ResumeTypes, ExecuteTypes, AgentFailsTypes, StaysPausedTypes,
     CompactsTypes, FinishesTypes, PausesTypes, LockTypes, SaveFailsTypes, RenameTypes
<1> QED
  BY <1>1, <1>2, <1>3 DEF RunnerNext

\* What is returned was saved.
LEMMA SavedStep == TypesInv /\ ReturnedIsSaved /\ [RunnerNext]_runnerVars => ReturnedIsSaved'
<1> SUFFICES ASSUME TypesInv, ReturnedIsSaved, [RunnerNext]_runnerVars PROVE ReturnedIsSaved'
  OBVIOUS
<1> USE DEF TypesInv, RunnerTypeOK, ReturnedIsSaved
<1>1. CASE UNCHANGED runnerVars
  BY <1>1 DEF runnerVars
<1>2. CASE Crash
  BY <1>2 DEF Crash
<1>3. ASSUME NEW c \in Callers, NEW a, EndRequest(c, a), a # Nil => a \in saved', saved \subseteq saved'
      PROVE  ReturnedIsSaved'
  BY <1>3 DEF EndRequest
<1>4. ASSUME NEW c \in Callers, pc' = [pc EXCEPT ![c] = "running"],
             outcome' = [outcome EXCEPT ![c] = Nil], saved' = saved
      PROVE  ReturnedIsSaved'
  BY <1>4
<1>5. ASSUME NEW c \in Callers, NEW s, Persist(c, s), saved' = saved
      PROVE  ReturnedIsSaved'
  BY <1>5 DEF Persist
<1>6. ASSUME NEW c \in Callers,
             \/ Run(c) \/ Refused(c) \/ \E approved \in SUBSET Calls : Resume(c, approved)
             \/ Execute(c) \/ AgentFails(c) \/ StaysPaused(c) \/ Finishes(c)
             \/ \E k \in 3 .. MaxRequests + 1 : Compacts(c, k)
             \/ \E b \in Batches, done \in SUBSET Calls : Pauses(c, b, done)
             \/ LockStore(c) \/ SaveFails(c) \/ Rename(c)
      PROVE  ReturnedIsSaved'
  <2>1. CASE Run(c) \/ \E approved \in SUBSET Calls : Resume(c, approved)
    BY <1>4, <2>1 DEF Run, Resume
  <2>2. CASE Refused(c) \/ AgentFails(c) \/ SaveFails(c)
    BY <1>3, <2>2 DEF Refused, AgentFails, SaveFails
  <2>3. CASE Rename(c)
    BY <1>3, <2>3 DEF Rename
  <2>4. CASE StaysPaused(c) \/ Finishes(c) \/ \E b \in Batches, done \in SUBSET Calls : Pauses(c, b, done)
    BY <1>5, <2>4 DEF StaysPaused, Finishes, Pauses
  <2>5. CASE Execute(c) \/ \E k \in 3 .. MaxRequests + 1 : Compacts(c, k)
    BY <2>5 DEF Execute, Compacts
  <2>6. CASE LockStore(c)
    BY <2>6 DEF LockStore
  <2> QED
    BY <1>6, <2>1, <2>2, <2>3, <2>4, <2>5, <2>6
<1> QED
  BY <1>1, <1>2, <1>6 DEF RunnerNext

-----------------------------------------------------------------------------
(* One request at a time *)

\* Of msgs, new keeps the first message and what was not cut.
Keeps(msgs, new, cut) ==
    /\ Len(msgs) > 0 => Len(new) > 0 /\ new[1] = msgs[1]
    /\ \A i \in 1 .. Len(msgs) : msgs[i] \in cut \/ \E j \in 1 .. Len(new) : new[j] = msgs[i]

\* At most one request is under way.
Alone == \A c, d \in Callers : pc[c] # "idle" /\ pc[d] # "idle" => c = d

\* A paused session and its checkpoint hold the same conversation.
SameMessages(s) == Paused(s) => s.checkpoint.messages = s.messages

\* An agent works on the session file as it is now: it goes on with its
\* conversation, but for what its compactor cut, and with its batch if it is
\* paused; what it has left to do has no result.
WorkOf(c) ==
    /\ Keeps(Messages(file), work[c].messages, work[c].cut)
    /\ Paused(file) => /\ work[c].batch = file.checkpoint.batch
                       /\ file.checkpoint.results \subseteq work[c].results
    /\ ~Paused(file) => work[c].batch = 0
    /\ work[c].todo \cap work[c].results = {}

\* What is to be saved is the conversation of the work; a call without a result
\* in it was executed at most as often as its batch was lost.
SavedOf(c) ==
    /\ outcome[c].messages = work[c].messages
    /\ SameMessages(outcome[c])
    /\ Paused(outcome[c]) =>
         \A k \in Calls \ outcome[c].checkpoint.results :
           ran[<<outcome[c].checkpoint.batch, k>>] <= lost[outcome[c].checkpoint.batch]

\* So it is of a call without a result in the session file, unless the agent at
\* work has one.
Undone ==
    Paused(file) =>
      \A k \in Calls \ file.checkpoint.results :
        (\A c \in Callers : pc[c] # "idle" => k \notin work[c].results)
          => ran[<<file.checkpoint.batch, k>>] <= lost[file.checkpoint.batch]

Bounded == \A b \in Batches, k \in Calls : ran[<<b, k>>] <= 1 + lost[b]

SerialInv ==
    /\ Alone
    /\ SameMessages(file)
    /\ \A c \in Callers : pc[c] # "idle" => WorkOf(c)
    /\ \A c \in Callers : Saves(c) => SavedOf(c)
    /\ Undone
    /\ Bounded

RunnerInv == TypesInv /\ (serial => SerialInv)

LEMMA KeepsSelf ==
  ASSUME NEW s \in History, NEW cut
  PROVE  Keeps(s, s, cut)
BY DEF Keeps

LEMMA KeepsAppend ==
  ASSUME NEW s \in History, NEW e \in 1 .. MaxRequests, NEW cut
  PROVE  Keeps(s, Append(s, e), cut)
<1>1. /\ Len(Append(s, e)) = Len(s) + 1 /\ Len(s) \in Nat
      /\ \A i \in 1 .. Len(s) : Append(s, e)[i] = s[i]
  BY AppendProperties, LenProperties DEF History
<1>2. PICK t : t = Append(s, e)
  OBVIOUS
<1>3. Keeps(s, t, cut)
  BY <1>1, <1>2 DEF Keeps
<1> QED
  BY <1>2, <1>3

\* What is cut of a conversation that keeps msgs is noted.
LEMMA KeepsCut ==
  ASSUME NEW msgs \in History, NEW old \in History, NEW cut, Keeps(msgs, old, cut),
         NEW k \in 3 .. Len(old) + 1,
         NEW new, new = <<old[1]>> \o SubSeq(old, k, Len(old)),
         NEW gone, gone = cut \cup {old[i] : i \in 2 .. k - 1}
  PROVE  Keeps(msgs, new, gone)
<1>1. /\ Len(old) \in Nat \ {0, 1} /\ Len(new) = Len(old) - k + 2 /\ new[1] = old[1]
      /\ \A i \in k .. Len(old) : new[i - k + 2] = old[i]
  BY CutMessages
<1>2. k \in Int /\ 3 <= k /\ k <= Len(old) + 1
  BY <1>1
<1>3. Len(msgs) > 0 => Len(new) > 0 /\ new[1] = msgs[1]
  BY <1>1, <1>2 DEF Keeps
<1>4. ASSUME NEW i \in 1 .. Len(msgs)
      PROVE  msgs[i] \in gone \/ \E j \in 1 .. Len(new) : new[j] = msgs[i]
  <2>1. CASE msgs[i] \in cut
    BY <2>1
  <2>2. ASSUME NEW j \in 1 .. Len(old), old[j] = msgs[i]
        PROVE  msgs[i] \in gone \/ \E m \in 1 .. Len(new) : new[m] = msgs[i]
    <3>1. CASE j = 1
      <4>1. 1 \in 1 .. Len(new) /\ new[1] = msgs[i]
        BY <1>1, <1>2, <2>2, <3>1
      <4> QED
        BY <4>1
    <3>2. CASE j \in 2 .. k - 1
      BY <2>2, <3>2
    <3>3. CASE j \in k .. Len(old)
      <4>1. j - k + 2 \in 1 .. Len(new) /\ new[j - k + 2] = msgs[i]
        BY <1>1, <1>2, <2>2, <3>3
      <4> QED
        BY <4>1
    <3>4. j = 1 \/ j \in 2 .. k - 1 \/ j \in k .. Len(old)
      BY <1>1, <1>2
    <3> QED
      BY <3>1, <3>2, <3>3, <3>4
  <2> QED
    BY <2>1, <2>2 DEF Keeps
<1> QED
  BY <1>3, <1>4 DEF Keeps

LEMMA RanTyped ==
  ASSUME RunnerTypeOK, NEW b \in Batches, NEW k \in Calls
  PROVE  ran[<<b, k>>] \in Nat /\ lost[b] \in Nat
BY DEF RunnerTypeOK

LEMMA InitSerial == RunnerInit => SerialInv
<1> SUFFICES ASSUME RunnerInit PROVE SerialInv
  OBVIOUS
<1>1. \A b \in Batches, k \in Calls : ran[<<b, k>>] = 0 /\ lost[b] = 0
  BY DEF RunnerInit
<1>2. Bounded
  BY <1>1, 0 <= 1 + 0 DEF Bounded
<1> QED
  BY <1>2 DEF RunnerInit, SerialInv, Alone, SameMessages, Paused, Saves, Undone

LEMMA RunSerial ==
  ASSUME TypesInv, SerialInv, serial, NEW c \in Callers, Run(c)
  PROVE  SerialInv'
<1>1. /\ \A d \in Callers : pc'[d] = IF d = c THEN "running" ELSE "idle"
      /\ UNCHANGED <<file, ran, lost>>
  BY DEF Run, MayRequest, TypesInv, RunnerTypeOK
<1>2. /\ ~Paused(file)
      /\ work'[c].messages = Append(Messages(file), requests')
      /\ work'[c].batch = 0 /\ work'[c].todo = {}
  BY DEF Run, Loads, OnLoadError, TypesInv, RunnerTypeOK
<1>3. requests' \in 1 .. MaxRequests
  BY WorkflowAssumption DEF Run, MayRequest, TypesInv, RunnerTypeOK
<1>4. Messages(file) \in History
  BY SessionFields DEF TypesInv, RunnerTypeOK
<1>5. Keeps(Messages(file), work'[c].messages, work'[c].cut)
  BY <1>2, <1>3, <1>4, KeepsAppend
<1>6. WorkOf(c)'
  BY <1>1, <1>2, <1>5 DEF WorkOf, Messages, Paused
<1>7. Alone' /\ SameMessages(file)' /\ Undone' /\ Bounded'
  BY <1>1, <1>2 DEF SerialInv, Alone, SameMessages, Paused, Undone, Bounded
<1> QED
  BY <1>1, <1>6, <1>7 DEF SerialInv, Saves

LEMMA ResumeSerial ==
  ASSUME TypesInv, SerialInv, serial, NEW c \in Callers, NEW approved \in SUBSET Calls,
         Resume(c, approved)
  PROVE  SerialInv'
<1>1. /\ \A d \in Callers : pc'[d] = IF d = c THEN "running" ELSE "idle"
      /\ \A d \in Callers : pc[d] = "idle"
      /\ UNCHANGED <<file, ran, lost>>
  BY DEF Resume, MayRequest, TypesInv, RunnerTypeOK
<1>2. /\ Paused(file)
      /\ work'[c].messages = file.checkpoint.messages
      /\ work'[c].batch = file.checkpoint.batch
      /\ work'[c].results = file.checkpoint.results
      /\ work'[c].todo = approved
      /\ approved \subseteq Calls \ file.checkpoint.results
  BY DEF Resume, TypesInv, RunnerTypeOK
<1>3. work'[c].messages = Messages(file) /\ Messages(file) \in History
  BY <1>2, SessionFields DEF TypesInv, RunnerTypeOK, SerialInv, SameMessages, Messages, Paused
<1>4. Keeps(Messages(file), work'[c].messages, work'[c].cut)
  BY <1>3, KeepsSelf
<1>5. WorkOf(c)'
  BY <1>1, <1>2, <1>4 DEF WorkOf, Messages, Paused
<1>6. Alone' /\ SameMessages(file)' /\ Bounded'
  BY <1>1 DEF SerialInv, Alone, SameMessages, Paused, Bounded
<1>7. Undone'
  BY <1>1 DEF SerialInv, Undone, Paused
<1> QED
  BY <1>1, <1>5, <1>6, <1>7 DEF SerialInv, Saves

LEMMA RefusedSerial ==
  ASSUME TypesInv, SerialInv, serial, NEW c \in Callers, Refused(c)
  PROVE  SerialInv'
<1>1. /\ \A d \in Callers : pc'[d] = "idle" /\ pc[d] = "idle"
      /\ UNCHANGED <<file, ran, lost>>
  BY DEF Refused, MayRequest, EndRequest, TypesInv, RunnerTypeOK
<1> QED
  BY <1>1 DEF SerialInv, Alone, SameMessages, Undone, Bounded, Paused, Saves

LEMMA ExecuteSerial ==
  ASSUME TypesInv, SerialInv, serial, NEW c \in Callers, Execute(c)
  PROVE  SerialInv'
<1>1. PICK k \in work[c].todo :
        /\ k \in Calls
        /\ ran' = [ran EXCEPT ![<<work[c].batch, k>>] = @ + 1]
        /\ work' = [work EXCEPT ![c].todo = @ \ {k}, ![c].results = @ \cup {k}]
  BY Executed DEF TypesInv
<1>2. pc[c] = "running" /\ UNCHANGED <<file, pc, outcome, lost>>
  BY DEF Execute
<1>3. /\ work[c] \in Works /\ work[c].batch \in Batches
      /\ \A d \in Callers : pc[d] # "idle" => d = c
  BY <1>1, <1>2, WorkFields DEF TypesInv, SerialInv, Alone
<1>4. /\ work'[c].messages = work[c].messages /\ work'[c].batch = work[c].batch
      /\ work'[c].cut = work[c].cut
      /\ work'[c].todo = work[c].todo \ {k} /\ work'[c].results = work[c].results \cup {k}
  BY <1>1, <1>3 DEF TypesInv, RunnerTypeOK, Works
<1>5. WorkOf(c)
  BY <1>2 DEF SerialInv
<1>6. /\ Paused(file) /\ work[c].batch = file.checkpoint.batch
      /\ file.checkpoint.results \subseteq work[c].results /\ k \notin work[c].results
  BY <1>1, <1>3, <1>5, WorkflowAssumption DEF WorkOf, Batches
<1> DEFINE b == work[c].batch
<1>7. ran[<<b, k>>] <= lost[b]
  BY <1>1, <1>3, <1>6 DEF SerialInv, Undone
<1>8. \A x \in Batches, j \in Calls :
        ran'[<<x, j>>] = IF x = b /\ j = k THEN ran[<<x, j>>] + 1 ELSE ran[<<x, j>>]
  BY <1>1, <1>3 DEF TypesInv, RunnerTypeOK
<1>9. Bounded'
  <2> SUFFICES ASSUME NEW x \in Batches, NEW j \in Calls PROVE ran'[<<x, j>>] <= 1 + lost[x]
    BY <1>2 DEF Bounded
  <2>1. ran[<<x, j>>] \in Nat /\ lost[x] \in Nat /\ ran[<<x, j>>] <= 1 + lost[x]
    BY RanTyped DEF TypesInv, SerialInv, Bounded
  <2> QED
    BY <1>7, <1>8, <2>1
<1>10. WorkOf(c)'
  BY <1>2, <1>4, <1>5 DEF WorkOf, Messages, Paused
<1>11. Undone'
  <2> SUFFICES ASSUME NEW j \in Calls \ file.checkpoint.results, j \notin work'[c].results
               PROVE  ran'[<<file.checkpoint.batch, j>>] <= lost[file.checkpoint.batch]
    BY <1>2, <1>6 DEF Undone, Paused
  <2>1. j # k /\ j \notin work[c].results
    BY <1>4
  <2>2. ran[<<file.checkpoint.batch, j>>] <= lost[file.checkpoint.batch]
    BY <1>3, <1>6, <2>1 DEF SerialInv, Undone
  <2> QED
    BY <1>3, <1>6, <1>8, <2>1, <2>2
<1>12. Alone' /\ SameMessages(file)'
  BY <1>2 DEF SerialInv, Alone, SameMessages, Paused
<1> QED
  BY <1>2, <1>3, <1>9, <1>10, <1>11, <1>12 DEF SerialInv, Saves

\* A compaction leaves the executions and the file what they are.
LEMMA CompactsSerial ==
  ASSUME TypesInv, SerialInv, NEW c \in Callers, NEW k \in 3 .. MaxRequests + 1, Compacts(c, k)
  PROVE  SerialInv'
<1>1. /\ pc[c] = "running"
      /\ UNCHANGED <<serial, file, mu, pc, outcome, requests, ran, lost, saved>>
      /\ work'[c].batch = work[c].batch /\ work'[c].results = work[c].results
      /\ work'[c].todo = work[c].todo
      /\ k \in 3 .. Len(work[c].messages) + 1
      /\ work'[c].messages = <<work[c].messages[1]>>
                                \o SubSeq(work[c].messages, k, Len(work[c].messages))
      /\ work'[c].cut = work[c].cut \cup {work[c].messages[i] : i \in 2 .. k - 1}
  BY Compacted DEF TypesInv
<1>2. /\ \A d \in Callers : pc[d] # "idle" => d = c
      /\ WorkOf(c) /\ work[c].messages \in History /\ Messages(file) \in History
  BY <1>1, WorkFields, SessionFields DEF SerialInv, Alone, TypesInv, RunnerTypeOK
<1>3. Keeps(Messages(file), work[c].messages, work[c].cut)
  BY <1>2 DEF WorkOf
<1>4. Keeps(Messages(file), work'[c].messages, work'[c].cut)
  BY <1>1, <1>2, <1>3, KeepsCut
<1>5. WorkOf(c)'
  BY <1>1, <1>2, <1>4 DEF WorkOf, Messages, Paused
<1>6. \A d \in Callers : ~ Saves(d)'
  BY <1>1, <1>2 DEF Saves
<1>7. Alone' /\ SameMessages(file)' /\ Bounded' /\ Undone'
  BY <1>1, <1>2 DEF SerialInv, Alone, SameMessages, Bounded, Undone, Paused
<1> QED
  BY <1>1, <1>2, <1>5, <1>6, <1>7 DEF SerialInv

\* The request under way ends without a session: its batch is lost once more.
LEMMA LostSerial ==
  ASSUME TypesInv, SerialInv, NEW c \in Callers, pc[c] # "idle",
         NEW cs \in SUBSET Callers, c \in cs, Lose(cs),
         \A d \in Callers : pc'[d] = "idle", UNCHANGED <<file, ran>>
  PROVE  SerialInv'
<1>1. /\ \A x \in Batches : lost'[x] \in Nat /\ lost[x] <= lost'[x]
      /\ work[c].batch \in Batches => lost[work[c].batch] + 1 <= lost'[work[c].batch]
  BY Losses, WorkFields DEF TypesInv
<1>2. WorkOf(c) /\ \A d \in Callers : pc[d] # "idle" => d = c
  BY DEF SerialInv, Alone
<1>3. Bounded'
  <2> SUFFICES ASSUME NEW x \in Batches, NEW j \in Calls PROVE ran[<<x, j>>] <= 1 + lost'[x]
    BY DEF Bounded
  <2>1. ran[<<x, j>>] \in Nat /\ lost[x] \in Nat /\ ran[<<x, j>>] <= 1 + lost[x]
    BY RanTyped DEF TypesInv, SerialInv, Bounded
  <2> QED
    BY <1>1, <2>1
<1>4. Undone'
  <2> SUFFICES ASSUME Paused(file), NEW j \in Calls \ file.checkpoint.results
               PROVE  ran[<<file.checkpoint.batch, j>>] <= lost'[file.checkpoint.batch]
    BY DEF Undone, Paused
  <2>1. PICK x \in Batches : x = file.checkpoint.batch /\ work[c].batch = x
    BY <1>2, SessionFields DEF WorkOf, TypesInv, RunnerTypeOK
  <2>2. ran[<<x, j>>] \in Nat /\ lost[x] \in Nat /\ ran[<<x, j>>] <= 1 + lost[x]
    BY RanTyped DEF TypesInv, SerialInv, Bounded
  <2>3. lost'[x] \in Nat /\ lost[x] + 1 <= lost'[x]
    BY <1>1, <2>1
  <2> QED
    BY <2>1, <2>2, <2>3
<1> QED
  BY <1>3, <1>4 DEF SerialInv, Alone, SameMessages, Paused, Saves

LEMMA EndSerial ==
  ASSUME TypesInv, SerialInv, NEW c \in Callers, AgentFails(c) \/ SaveFails(c)
  PROVE  SerialInv'
<1>1. \A d \in Callers : pc'[d] = "idle"
  BY DEF AgentFails, SaveFails, EndRequest, TypesInv, RunnerTypeOK, SerialInv, Alone
<1> QED
  BY <1>1, LostSerial DEF AgentFails, SaveFails

LEMMA CrashSerial ==
  ASSUME TypesInv, SerialInv, Crash
  PROVE  SerialInv'
<1>1. PICK c \in Callers : pc[c] # "idle"
  BY DEF Crash
<1>2. \A d \in Callers : pc'[d] = "idle"
  BY DEF Crash
<1> QED
  BY <1>1, <1>2, LostSerial DEF Crash

\* The agent at work has an outcome.
LEMMA PersistSerial ==
  ASSUME TypesInv, SerialInv, NEW c \in Callers, NEW s, pc[c] = "running", Persist(c, s),
         UNCHANGED <<file, work, lost>>, s.messages = work[c].messages, SameMessages(s),
         Paused(s) => \A k \in Calls \ s.checkpoint.results :
                        ran'[<<s.checkpoint.batch, k>>] <= lost[s.checkpoint.batch],
         Undone', Bounded'
  PROVE  SerialInv'
<1>1. \A d \in Callers : pc[d] # "idle" => d = c
  BY DEF SerialInv, Alone
<1>2. outcome'[c] = s /\ \A d \in Callers : pc'[d] = IF d = c THEN "saving" ELSE "idle"
  BY <1>1 DEF Persist, TypesInv, RunnerTypeOK
<1>3. WorkOf(c)'
  BY DEF SerialInv, WorkOf, Messages, Paused
<1>4. SavedOf(c)'
  BY <1>2 DEF SavedOf, SameMessages, Paused
<1>5. Alone' /\ SameMessages(file)'
  BY <1>2 DEF SerialInv, Alone, SameMessages, Paused
<1> QED
  BY <1>2, <1>3, <1>4, <1>5 DEF SerialInv, Saves

LEMMA StaysPausedSerial ==
  ASSUME TypesInv, SerialInv, NEW c \in Callers, StaysPaused(c)
  PROVE  SerialInv'
<1>1. \A d \in Callers : pc[d] # "idle" => d = c
  BY DEF SerialInv, Alone, StaysPaused
<1>2. WorkOf(c) /\ work[c].batch \in Batches /\ Paused(file)
  BY WorkFields, WorkflowAssumption DEF SerialInv, StaysPaused, TypesInv, WorkOf, Batches
<1> DEFINE s == Session(work[c].messages, Checkpoint(work[c].batch, work[c].messages, Merged(c)))
<1>3. /\ s.messages = work[c].messages /\ s.checkpoint.messages = s.messages
      /\ s.checkpoint.batch = work[c].batch /\ s.checkpoint.results = work[c].results
  BY DEF Session, Checkpoint, Merged
<1> HIDE DEF s
<1>4. \A k \in Calls \ work[c].results : ran[<<work[c].batch, k>>] <= lost[work[c].batch]
  BY <1>1, <1>2 DEF SerialInv, Undone, WorkOf
<1>6. Undone' /\ Bounded'
  BY <1>1 DEF SerialInv, Undone, Bounded, Paused, StaysPaused, Persist, TypesInv, RunnerTypeOK
<1>7. pc[c] = "running" /\ Persist(c, s) /\ UNCHANGED <<file, work, lost, ran>>
  BY DEF StaysPaused, s
<1> QED
  BY <1>3, <1>4, <1>6, <1>7, PersistSerial DEF SameMessages

LEMMA FinishesSerial ==
  ASSUME TypesInv, SerialInv, NEW c \in Callers, Finishes(c)
  PROVE  SerialInv'
<1> DEFINE s == Session(work[c].messages, Nil)
<1>1. s.messages = work[c].messages /\ ~Paused(s)
  BY DEF Session, Paused
<1> HIDE DEF s
<1>2. Undone' /\ Bounded'
  BY DEF SerialInv, Undone, Bounded, Paused, Finishes, TurnComplete, Persist, TypesInv, RunnerTypeOK
<1>3. pc[c] = "running" /\ Persist(c, s) /\ UNCHANGED <<file, work, lost, ran>>
  BY DEF Finishes, TurnComplete, s
<1> QED
  BY <1>1, <1>2, <1>3, PersistSerial DEF SameMessages

\* A turn pauses that nothing saved has paused on: its calls start from nothing.
LEMMA PausesSerial ==
  ASSUME TypesInv, SerialInv, NEW c \in Callers, NEW b \in Batches, NEW done \in SUBSET Calls,
         Pauses(c, b, done)
  PROVE  SerialInv'
<1> DEFINE s == Session(work[c].messages, Checkpoint(b, work[c].messages, done))
<1>1. /\ s.messages = work[c].messages /\ s.checkpoint.messages = s.messages
      /\ s.checkpoint.batch = b /\ s.checkpoint.results = done
  BY DEF Session, Checkpoint
<1> HIDE DEF s
<1>2. \A x \in Batches, k \in Calls :
        ran'[<<x, k>>] = IF x = b THEN IF k \in done THEN 1 ELSE 0 ELSE ran[<<x, k>>]
  BY DEF Pauses, TypesInv, RunnerTypeOK
<1>3. \A x \in Batches, k \in Calls :
        ran[<<x, k>>] \in Nat /\ lost[x] \in Nat /\ ran[<<x, k>>] <= 1 + lost[x]
  BY RanTyped DEF TypesInv, SerialInv, Bounded
<1>4. pc[c] = "running" /\ Persist(c, s) /\ UNCHANGED <<file, work, lost>>
  BY DEF Pauses, TurnComplete, s
<1>5. Bounded'
  <2> SUFFICES ASSUME NEW x \in Batches, NEW k \in Calls PROVE ran'[<<x, k>>] <= 1 + lost[x]
    BY <1>4 DEF Bounded
  <2>1. ran'[<<x, k>>] \in {0, 1, ran[<<x, k>>]}
    BY <1>2
  <2> QED
    BY <1>3, <2>1
<1>6. Paused(file) => file.checkpoint.batch # b
  BY DEF Pauses, TypesInv, Paused
<1>7. Undone'
  <2> SUFFICES ASSUME Paused(file), NEW k \in Calls \ file.checkpoint.results,
                      \A d \in Callers : pc'[d] # "idle" => k \notin work[d].results
               PROVE  ran'[<<file.checkpoint.batch, k>>] <= lost[file.checkpoint.batch]
    BY <1>4 DEF Undone, Paused
  <2>1. \A d \in Callers : pc[d] # "idle" => pc'[d] # "idle"
    BY <1>4 DEF Persist, TypesInv, RunnerTypeOK
  <2>2. ran[<<file.checkpoint.batch, k>>] <= lost[file.checkpoint.batch]
    BY <2>1 DEF SerialInv, Undone
  <2>3. file.checkpoint.batch \in Batches
    BY SessionFields DEF TypesInv, RunnerTypeOK
  <2> QED
    BY <1>2, <1>6, <2>2, <2>3
<1>8. \A k \in Calls \ done : ran'[<<b, k>>] <= lost[b]
  BY <1>2, <1>3
<1> QED
  BY <1>1, <1>4, <1>5, <1>7, <1>8, PersistSerial DEF SameMessages

LEMMA LockSerial ==
  ASSUME TypesInv, SerialInv, NEW c \in Callers, LockStore(c)
  PROVE  SerialInv'
<1>1. /\ pc[c] = "saving" /\ UNCHANGED <<file, work, outcome, ran, lost>>
      /\ \A d \in Callers : pc'[d] = IF d = c THEN "writing" ELSE pc[d]
  BY DEF LockStore, TypesInv, RunnerTypeOK
<1>2. \A d \in Callers : (pc'[d] = "idle" <=> pc[d] = "idle") /\ (Saves(d)' <=> Saves(d))
  BY <1>1 DEF Saves
<1>3. /\ Alone' /\ SameMessages(file)' /\ Undone' /\ Bounded'
      /\ \A d \in Callers : WorkOf(d)' <=> WorkOf(d)
      /\ \A d \in Callers : SavedOf(d)' <=> SavedOf(d)
  BY <1>1, <1>2 DEF SerialInv, Alone, SameMessages, Undone, Bounded, WorkOf, SavedOf, Messages, Paused
<1> QED
  BY <1>2, <1>3 DEF SerialInv

LEMMA RenameSerial ==
  ASSUME TypesInv, SerialInv, NEW c \in Callers, Rename(c)
  PROVE  SerialInv'
<1>1. /\ \A d \in Callers : pc'[d] = "idle"
      /\ file' = outcome[c] /\ UNCHANGED <<ran, lost>>
  BY DEF Rename, EndRequest, TypesInv, RunnerTypeOK, SerialInv, Alone
<1>2. SavedOf(c)
  BY DEF SerialInv, Rename, Saves
<1> QED
  BY <1>1, <1>2 DEF SerialInv, Alone, SameMessages, Undone, Bounded, SavedOf, Paused, Saves

LEMMA SerialStep == RunnerInv /\ [RunnerNext]_runnerVars => RunnerInv'
<1> SUFFICES ASSUME RunnerInv, [RunnerNext]_runnerVars PROVE RunnerInv'
  OBVIOUS
<1>1. TypesInv' /\ TypesInv
  BY TypesStep DEF RunnerInv
<1>2. serial' = serial
  BY DEF RunnerNext, runnerVars, Run, Resume, Refused, Execute, AgentFails, StaysPaused, Finishes,
     Compacts, Pauses, LockStore, SaveFails, Rename, Crash
<1> SUFFICES ASSUME serial PROVE SerialInv'
  BY <1>1, <1>2 DEF RunnerInv
<1>3. SerialInv
  BY DEF RunnerInv
<1>4. CASE UNCHANGED runnerVars
  BY <1>3, <1>4 DEF runnerVars, SerialInv, Alone, SameMessages, WorkOf, SavedOf, Undone, Bounded,
     Messages, Paused, Saves
<1>5. CASE Crash
  BY <1>1, <1>3, <1>5, CrashSerial
<1>6. ASSUME NEW c \in Callers,
             \/ Run(c) \/ Refused(c) \/ \E approved \in SUBSET Calls : Resume(c, approved)
             \/ Execute(c) \/ AgentFails(c) \/ StaysPaused(c) \/ Finishes(c)
             \/ \E k \in 3 .. MaxRequests + 1 : Compacts(c, k)
             \/ \E b \in Batches, done \in SUBSET Calls : Pauses(c, b, done)
             \/ LockStore(c) \/ SaveFails(c) \/ Rename(c)
      PROVE  SerialInv'
  BY <1>1, <1>3, <1>6, RunSerial, RefusedSerial, ResumeSerial, ExecuteSerial, EndSerial,
     CompactsSerial, StaysPausedSerial, FinishesSerial, PausesSerial, LockSerial, RenameSerial
<1> QED
  BY <1>4, <1>5, <1>6 DEF RunnerNext

\* Only a rename changes the file, and the session it stores keeps what the
\* compactor of its request left.
LEMMA KeepsStep ==
  ASSUME RunnerInv, [RunnerNext]_runnerVars, serial
  PROVE  Keeps(Messages(file), Messages(file'), Cut)
<1>1. CASE file' = file
  <2>1. Messages(file) \in History
    BY SessionFields DEF RunnerInv, TypesInv, RunnerTypeOK
  <2> QED
    BY <1>1, <2>1, KeepsSelf
<1>2. ASSUME NEW c \in Callers, Rename(c)
      PROVE  Keeps(Messages(file), Messages(file'), Cut)
  <2>1. pc[c] = "writing" /\ file' = outcome[c] /\ SavedOf(c) /\ WorkOf(c)
    BY <1>2 DEF Rename, RunnerInv, SerialInv, Saves
  <2>2. outcome[c] # Nil
    BY <2>1, WorkflowAssumption DEF RunnerInv, TypesInv, Saves
  <2>3. Keeps(Messages(file), Messages(file'), work[c].cut)
    BY <2>1, <2>2 DEF SavedOf, WorkOf, Messages
  <2>4. work[c].cut \subseteq Cut
    BY <2>1 DEF Cut, RunnerInv, TypesInv, RunnerTypeOK
  <2> QED
    BY <2>3, <2>4 DEF Keeps
<1>3. file' = file \/ \E c \in Callers : Rename(c)
  BY DEF RunnerNext, runnerVars, Run, Resume, Refused, Execute, AgentFails, StaysPaused, Finishes,
     Compacts, Pauses, LockStore, SaveFails, Crash
<1> QED
  BY <1>1, <1>2, <1>3

\* What the property says is what Keeps says.
LEMMA HistoryStep ==
  RunnerInv /\ [RunnerNext]_runnerVars =>
    (serial => /\ Messages(file) # <<>> => /\ Messages(file') # <<>>
                                           /\ Messages(file')[1] = Messages(file)[1]
               /\ Requests(file) \subseteq Requests(file') \cup Cut)
<1> SUFFICES ASSUME RunnerInv, [RunnerNext]_runnerVars, serial
             PROVE  /\ Messages(file) # <<>> => /\ Messages(file') # <<>>
                                                /\ Messages(file')[1] = Messages(file)[1]
                    /\ Requests(file) \subseteq Requests(file') \cup Cut
  OBVIOUS
<1>1. Keeps(Messages(file), Messages(file'), Cut)
  BY KeepsStep
<1>2. RunnerInv'
  BY SerialStep
<1>3. Messages(file) \in History /\ Messages(file') \in History
  BY <1>2, SessionFields DEF RunnerInv, TypesInv, RunnerTypeOK
<1>4. PICK old \in History : old = Messages(file)
  BY <1>3
<1>5. PICK new \in History : new = Messages(file')
  BY <1>3
<1>6. Keeps(old, new, Cut)
  BY <1>1, <1>4, <1>5
<1>7. /\ Len(old) \in Nat /\ (Len(old) = 0 <=> old = <<>>) /\ DOMAIN old = 1 .. Len(old)
      /\ Len(new) \in Nat /\ (Len(new) = 0 <=> new = <<>>) /\ DOMAIN new = 1 .. Len(new)
  BY LenProperties DEF History
<1>8. old # <<>> => new # <<>> /\ new[1] = old[1]
  BY <1>6, <1>7 DEF Keeps
<1>9. {old[i] : i \in DOMAIN old} \subseteq {new[i] : i \in DOMAIN new} \cup Cut
  BY <1>6, <1>7 DEF Keeps
<1> QED
  BY <1>4, <1>5, <1>8, <1>9 DEF Requests

LEMMA RunnerInvHolds == RunnerSpec => []RunnerInv
<1>1. RunnerInit => RunnerInv
  BY RunnerInitTypes, InitSerial DEF RunnerInv
<1> QED
  BY <1>1, SerialStep, PTL DEF RunnerSpec

-----------------------------------------------------------------------------
(* The Runner's theorems *)

\* The state of the runner is well-formed at all times, and a caller has work
\* exactly while its request runs or is saved.
THEOREM RunnerTyping == RunnerSpec => []RunnerTypeOK
<1>1. RunnerInv => RunnerTypeOK
  BY DEF RunnerInv, TypesInv
<1> QED
  BY <1>1, RunnerInvHolds, PTL

\* A checkpoint or a result that Run or Resume returned is one that SaveSession
\* stored, whatever failed, crashed or overlapped.
THEOREM OutcomesAreSaved == RunnerSpec => []ReturnedIsSaved
<1>1. RunnerInit => ReturnedIsSaved
  BY DEF RunnerInit, ReturnedIsSaved
<1>2. RunnerInv => TypesInv
  BY DEF RunnerInv
<1> QED
  BY <1>1, <1>2, SavedStep, RunnerInvHolds, PTL DEF RunnerSpec

\* Requests that do not overlap execute a call again only after a resume of its
\* turn failed, could not be saved or crashed.
THEOREM RepeatsAreLosses == RunnerSpec => []RepeatedOnlyAfterLoss
<1>1. RunnerInv => RepeatedOnlyAfterLoss
  BY DEF RunnerInv, SerialInv, Bounded, RepeatedOnlyAfterLoss
<1> QED
  BY <1>1, RunnerInvHolds, PTL

\* Of requests that do not overlap, none takes a part of the stored conversation
\* away, but for what the compactor of the run it saves has cut, and none takes the
\* first message.
THEOREM ConversationKept == RunnerSpec => HistoryKept
<1>1. RunnerInv /\ [RunnerNext]_runnerVars =>
        [serial => /\ Messages(file) # <<>> => /\ Messages(file') # <<>>
                                               /\ Messages(file')[1] = Messages(file)[1]
                   /\ Requests(file) \subseteq Requests(file') \cup Cut]_runnerVars
  BY HistoryStep
<1> QED
  BY <1>1, RunnerInvHolds, PTL DEF RunnerSpec, HistoryKept
=============================================================================
