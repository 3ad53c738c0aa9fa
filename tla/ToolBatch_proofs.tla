--------------------------- MODULE ToolBatch_proofs ---------------------------
(***************************************************************************)
(* Proofs about ToolBatch, for every number of calls and every limit.       *)
(***************************************************************************)
EXTENDS ToolBatch, FiniteSetTheorems, SequenceTheorems, TLAPS

-----------------------------------------------------------------------------
(* Types *)

LEMMA TypeInit == Init => TypeOK
<1> SUFFICES ASSUME Init PROVE TypeOK
  OBVIOUS
<1>1. <<>> \in Seq(Calls)
  OBVIOUS
<1>2. next \in 0 .. N + 1
  BY BatchAssumption DEF Init
<1>3. /\ pc \in [Calls -> Labels]
      /\ slots \in [Calls -> Hows \cup {None}]
      /\ tool \in [Calls -> {"idle", "running", "finished"}]
  BY DEF Init, Labels
<1> QED
  BY <1>1, <1>2, <1>3 DEF Init, TypeOK

\* A step of the code handling call k keeps the types.
LEMMA TypeHandle ==
  ASSUME TypeOK, NEW k \in Calls, Handle(k) \/ Send(k) \/ ToolReturns(k)
  PROVE  TypeOK'
<1> USE DEF TypeOK, Labels, Hows, Goto, HasResult, calls, gathered, contexts
<1>1. CASE Acquire(k)
  BY <1>1 DEF Acquire
<1>2. CASE Forced(k)
  BY <1>2 DEF Forced
<1>3. CASE Ask(k)
  BY <1>3 DEF Ask
<1>4. CASE Refused(k)
  BY <1>4 DEF Refused
<1>5. CASE Pending(k)
  BY <1>5 DEF Pending
<1>6. CASE Allowed(k)
  BY <1>6 DEF Allowed
<1>7. CASE TakeOutcome(k)
  BY <1>7 DEF TakeOutcome
<1>8. CASE TimedOut(k)
  BY <1>8 DEF TimedOut
<1>9. CASE Lock(k)
  BY <1>9 DEF Lock
<1>10. CASE SendFails(k)
  BY <1>10 DEF SendFails
<1>11. CASE Leave(k)
  BY <1>11 DEF Leave
<1>12. CASE Send(k)
  <2>1. streamed' \in Seq(Calls)
    BY <1>12, AppendProperties DEF Send
  <2> QED
    BY <2>1, <1>12 DEF Send
<1>13. CASE ToolReturns(k)
  BY <1>13 DEF ToolReturns
<1> QED
  BY <1>1, <1>2, <1>3, <1>4, <1>5, <1>6, <1>7, <1>8, <1>9, <1>10, <1>11,
     <1>12, <1>13 DEF Handle

LEMMA TypeNext == TypeOK /\ [Next]_vars => TypeOK'
<1> SUFFICES ASSUME TypeOK, [Next]_vars PROVE TypeOK'
  OBVIOUS
<1> USE BatchAssumption
<1>1. CASE \E k \in Calls : Handle(k) \/ Send(k) \/ ToolReturns(k)
  BY <1>1, TypeHandle
<1>2. CASE StartGathering
  BY <1>2 DEF TypeOK, StartGathering, calls, contexts
<1>3. CASE Gather
  <2>1. next' \in 0 .. N + 1
    BY <1>3 DEF TypeOK, Gather, Calls
  <2>2. results' \in Seq(Calls) /\ pending' \in Seq(Calls)
    <3>1. next \in Calls /\ results \in Seq(Calls) /\ pending \in Seq(Calls)
      BY <1>3 DEF TypeOK, Gather
    <3>2. Append(results, next) \in Seq(Calls) /\ Append(pending, next) \in Seq(Calls)
      BY <3>1, AppendProperties
    <3> QED
      BY <1>3, <3>1, <3>2 DEF Gather
  <2> QED
    BY <1>3, <2>1, <2>2 DEF TypeOK, Gather, calls, contexts
<1>6. CASE ReturnComplete
  BY <1>6 DEF TypeOK, Returns, ReturnComplete, calls, contexts
<1>7. CASE ReturnNotOK
  <2>1. <<>> \in Seq(Calls)
    OBVIOUS
  <2> QED
    BY <1>7, <2>1 DEF TypeOK, Returns, ReturnNotOK, calls, contexts
<1>4. CASE Expire \/ Cancel \/ CancelReachesRun
  BY <1>4 DEF TypeOK, Expire, Cancel, CancelReachesRun, calls, gathered
<1>5. CASE UNCHANGED vars
  BY <1>5 DEF TypeOK, vars, calls, gathered, contexts
<1> QED
  BY <1>1, <1>2, <1>3, <1>4, <1>5, <1>6, <1>7 DEF Next

\* Every variable of the batch always has its type.
THEOREM Typing == Spec => []TypeOK
<1>1. Init => TypeOK
  BY TypeInit
<1>2. TypeOK /\ [Next]_vars => TypeOK'
  BY TypeNext
<1> QED
  BY <1>1, <1>2, PTL DEF Spec

-----------------------------------------------------------------------------
(* Sequences of calls *)

LEMMA AppendFacts ==
  ASSUME NEW s \in Seq(Calls), NEW n \in Calls
  PROVE  /\ Append(s, n) \in Seq(Calls)
         /\ Len(s) \in Nat
         /\ DOMAIN s = 1 .. Len(s)
         /\ DOMAIN Append(s, n) = 1 .. Len(s) + 1
         /\ \A i \in 1 .. Len(s) : s[i] \in Calls /\ Append(s, n)[i] = s[i]
         /\ Append(s, n)[Len(s) + 1] = n
<1>1. /\ Append(s, n) \in Seq(Calls)
      /\ Len(Append(s, n)) = Len(s) + 1
      /\ \A i \in 1 .. Len(s) : Append(s, n)[i] = s[i]
      /\ Append(s, n)[Len(s) + 1] = n
  BY AppendProperties
<1>2. Len(s) \in Nat /\ DOMAIN s = 1 .. Len(s)
  BY LenProperties
<1>3. DOMAIN Append(s, n) = 1 .. Len(Append(s, n))
  BY <1>1, LenProperties
<1>4. \A i \in 1 .. Len(s) : s[i] \in Calls
  BY ElementOfSeq
<1> QED
  BY <1>1, <1>2, <1>3, <1>4

\* A call that is larger than all that are listed may be appended.
LEMMA ListsAppend ==
  ASSUME NEW s \in Seq(Calls), NEW S, Lists(s, S),
         NEW n \in Calls, \A x \in S : x < n
  PROVE  Lists(Append(s, n), S \cup {n})
<1> DEFINE t == Append(s, n)
           L == Len(s)
<1>1. /\ L \in Nat
      /\ DOMAIN s = 1 .. L
      /\ DOMAIN t = 1 .. L + 1
      /\ \A i \in 1 .. L : s[i] \in Calls /\ t[i] = s[i]
      /\ t[L + 1] = n
  BY AppendFacts
<1>2. /\ \A i, j \in 1 .. L : i < j => s[i] < s[j]
      /\ {s[i] : i \in 1 .. L} = S
  BY <1>1 DEF Lists
<1>3. \A i \in 1 .. L : s[i] < n
  BY <1>2
<1> HIDE DEF t, L
<1>4. \A i, j \in 1 .. L + 1 : i < j => t[i] < t[j]
  <2> SUFFICES ASSUME NEW i \in 1 .. L + 1, NEW j \in 1 .. L + 1, i < j
               PROVE  t[i] < t[j]
    OBVIOUS
  <2>1. i \in 1 .. L
    BY <1>1
  <2>2. CASE j = L + 1
    BY <2>1, <2>2, <1>1, <1>3
  <2>3. CASE j # L + 1
    <3>1. j \in 1 .. L
      BY <2>3, <1>1
    <3> QED
      BY <2>1, <3>1, <1>1, <1>2
  <2> QED
    BY <2>2, <2>3
<1>5. {t[i] : i \in 1 .. L + 1} = S \cup {n}
  <2>1. 1 .. L + 1 = (1 .. L) \cup {L + 1}
    BY <1>1
  <2>2. {t[i] : i \in 1 .. L} = S
    BY <1>1, <1>2
  <2> QED
    BY <2>1, <2>2, <1>1
<1> QED
  BY <1>1, <1>4, <1>5 DEF Lists, t

\* What has been delivered, after a delivery.
LEMMA StreamedBySend ==
  ASSUME TypeOK, NEW k \in Calls, Send(k), NEW j \in Calls
  PROVE  Streamed(j)' <=> Streamed(j) \/ j = k
<1> DEFINE L == Len(streamed)
<1>1. streamed' = Append(streamed, k) /\ streamed \in Seq(Calls)
  BY DEF TypeOK, Send
<1>2. /\ L \in Nat
      /\ DOMAIN streamed = 1 .. L
      /\ DOMAIN streamed' = 1 .. L + 1
      /\ \A i \in 1 .. L : streamed'[i] = streamed[i]
      /\ streamed'[L + 1] = k
  BY <1>1, AppendFacts
<1> HIDE DEF L
<1>3. 1 .. L + 1 = (1 .. L) \cup {L + 1}
  BY <1>2
<1> QED
  BY <1>2, <1>3 DEF Streamed

-----------------------------------------------------------------------------
(* The steps of one call leave the others alone *)

LEMMA Others ==
  ASSUME TypeOK, NEW k \in Calls, Handle(k) \/ Send(k) \/ ToolReturns(k),
         NEW j \in Calls, j # k
  PROVE  /\ pc'[j] = pc[j]
         /\ slots'[j] = slots[j]
         /\ tool'[j] = tool[j]
         /\ j \in pendingIdx' <=> j \in pendingIdx
         /\ Streamed(j)' <=> Streamed(j)
<1>1. /\ pc'[j] = pc[j]
      /\ slots'[j] = slots[j]
      /\ tool'[j] = tool[j]
      /\ j \in pendingIdx' <=> j \in pendingIdx
  BY DEF TypeOK, Handle, Acquire, Forced, Ask, Refused, Pending, Allowed,
     TakeOutcome, TimedOut, Lock, Send, SendFails, Leave, ToolReturns, Goto,
     HasResult
<1>2. CASE Send(k)
  BY <1>1, <1>2, StreamedBySend
<1>3. CASE ~Send(k)
  <2>1. streamed' = streamed
    BY <1>3 DEF Handle, Acquire, Forced, Ask, Refused, Pending, Allowed,
       TakeOutcome, TimedOut, Lock, SendFails, Leave, ToolReturns
  <2> QED
    BY <1>1, <2>1 DEF Streamed
<1> QED
  BY <1>2, <1>3

\* What such a step leaves alone altogether.
LEMMA Shared ==
  ASSUME TypeOK, NEW k \in Calls, Handle(k) \/ Send(k) \/ ToolReturns(k)
  PROVE  /\ UNCHANGED <<limit, next, results, pending, ret, runDone, sendDone>>
         /\ cancelled' = cancelled \/ (cancelled' = TRUE /\ sendDone)
<1>1. UNCHANGED <<limit, next, results, pending, ret, runDone, sendDone>>
  BY DEF Handle, Acquire, Forced, Ask, Refused, Pending, Allowed, TakeOutcome,
     TimedOut, Lock, Send, SendFails, Leave, ToolReturns, gathered, contexts
<1>2. cancelled' = cancelled \/ (cancelled' = TRUE /\ sendDone)
  BY DEF Handle, Acquire, Forced, Ask, Refused, Pending, Allowed, TakeOutcome,
     TimedOut, Lock, Send, SendFails, Leave, ToolReturns
<1> QED
  BY <1>1, <1>2

-----------------------------------------------------------------------------
(* CallInv *)

\* Nothing that CallInv(j) speaks of changes for the worse.
LEMMA CallInvFrame ==
  ASSUME NEW j \in Calls, CallInv(j),
         pc'[j] = pc[j], slots'[j] = slots[j], tool'[j] = tool[j],
         j \in pendingIdx' <=> j \in pendingIdx,
         Streamed(j)' <=> Streamed(j),
         cancelled => cancelled',
         ret' = ret
  PROVE  CallInv(j)'
BY DEF CallInv, Busy

\* The steps of call k keep what is known of it.
LEMMA CallInvOwn ==
  ASSUME TypeOK, NEW k \in Calls, CallInv(k),
         Handle(k) \/ Send(k) \/ ToolReturns(k)
  PROVE  CallInv(k)'
<1> USE BatchAssumption DEF TypeOK, Labels, Hows, Goto, HasResult, Busy,
        CallInv, gathered, contexts
<1> DEFINE Same == streamed' = streamed
<1>0. Same => (Streamed(k)' <=> Streamed(k))
  BY DEF Streamed
<1> HIDE DEF Same
<1>1. CASE Acquire(k)
  BY <1>0, <1>1 DEF Acquire, Same
<1>2. CASE Forced(k)
  BY <1>0, <1>2 DEF Forced, Same
<1>3. CASE Ask(k)
  BY <1>0, <1>3 DEF Ask, Same
<1>4. CASE Refused(k)
  BY <1>0, <1>4 DEF Refused, Same
<1>5. CASE Pending(k)
  BY <1>0, <1>5 DEF Pending, Same
<1>6. CASE Allowed(k)
  BY <1>0, <1>6 DEF Allowed, Same
<1>7. CASE TakeOutcome(k)
  BY <1>0, <1>7 DEF TakeOutcome, Same
<1>8. CASE TimedOut(k)
  BY <1>0, <1>8 DEF TimedOut, Same
<1>9. CASE Lock(k)
  BY <1>0, <1>9 DEF Lock, Same
<1>10. CASE SendFails(k)
  BY <1>0, <1>10 DEF SendFails, Same
<1>11. CASE Leave(k)
  BY <1>0, <1>11 DEF Leave, Same
<1>12. CASE Send(k)
  <2>1. Streamed(k)'
    BY <1>12, StreamedBySend
  <2> QED
    BY <2>1, <1>12 DEF Send
<1>13. CASE ToolReturns(k)
  BY <1>0, <1>13 DEF ToolReturns, Same
<1> QED
  BY <1>1, <1>2, <1>3, <1>4, <1>5, <1>6, <1>7, <1>8, <1>9, <1>10, <1>11,
     <1>12, <1>13 DEF Handle

-----------------------------------------------------------------------------
(* WorkersInv *)

LEMMA BusyFinite == IsFiniteSet(Calls) /\ IsFiniteSet(Busy)
<1>1. IsFiniteSet(Calls)
  BY BatchAssumption, FS_Interval DEF Calls
<1>2. Busy \subseteq Calls
  BY DEF Busy
<1> QED
  BY <1>1, <1>2, FS_Subset

\* The steps of call k keep the sequential loop in order.
LEMMA InOrderHandle ==
  ASSUME TypeOK, WorkersInv, Sequential,
         NEW k \in Calls, Handle(k) \/ Send(k) \/ ToolReturns(k)
  PROVE  \A i, j \in Calls : i < j /\ pc'[j] # "spawned" => pc'[i] = "exited"
<1> SUFFICES ASSUME NEW i \in Calls, NEW j \in Calls, i < j, pc'[j] # "spawned"
             PROVE  pc'[i] = "exited"
  OBVIOUS
<1>0. i \in Nat /\ j \in Nat /\ i # j
  BY BatchAssumption DEF Calls
<1>1. CASE ToolReturns(k)
  BY <1>1 DEF ToolReturns, WorkersInv, Exited
<1>2. CASE ~ToolReturns(k) /\ k = j
  <2>1. i # k /\ pc'[i] = pc[i]
    BY <1>0, <1>2, Others
  <2>2. CASE Acquire(k)
    <3>1. i \in 1 .. k - 1
      BY <1>0, <1>2 DEF Calls
    <3> QED
      BY <2>1, <2>2, <3>1 DEF Acquire, Exited
  <2>3. CASE ~Acquire(k)
    <3>1. pc[k] # "spawned"
      BY <1>2, <2>3 DEF Handle, Forced, Ask, Refused, Pending, Allowed,
         TakeOutcome, TimedOut, Lock, Send, SendFails, Leave
    <3> QED
      BY <1>2, <2>1, <3>1 DEF WorkersInv, Exited
  <2> QED
    BY <2>2, <2>3
<1>3. CASE ~ToolReturns(k) /\ k # j
  <2>1. pc'[j] = pc[j]
    BY <1>3, Others
  <2>2. pc[i] = "exited"
    BY <2>1 DEF WorkersInv, Exited
  <2>3. k # i
    BY <1>3, <2>2 DEF Handle, Acquire, Forced, Ask, Refused, Pending, Allowed,
       TakeOutcome, TimedOut, Lock, Send, SendFails, Leave
  <2> QED
    BY <2>2, <2>3, Others
<1> QED
  BY <1>1, <1>2, <1>3

\* The steps of call k keep the semaphore and the busy workers equal.
LEMMA SemHandle ==
  ASSUME TypeOK, WorkersInv, ~Sequential,
         NEW k \in Calls, Handle(k) \/ Send(k) \/ ToolReturns(k)
  PROVE  sem' = Busy' /\ Cardinality(sem') <= limit
<1>0. /\ sem = Busy /\ Cardinality(sem) <= limit
      /\ IsFiniteSet(sem) /\ Cardinality(sem) \in Nat
      /\ limit \in Nat
  BY BusyFinite, FS_CardinalityType, BatchAssumption DEF WorkersInv, TypeOK
<1>1. CASE Acquire(k)
  <2>1. sem' = sem \cup {k} /\ Cardinality(sem) < limit
    BY <1>1 DEF Acquire
  <2>2. Busy' = Busy \cup {k}
    BY <1>1 DEF Acquire, Goto, Busy, TypeOK
  <2>3. Cardinality(sem') <= Cardinality(sem) + 1
    BY <1>0, <2>1, FS_AddElement
  <2>4. Cardinality(sem') \in Nat
    BY <1>0, <2>1, FS_AddElement, FS_CardinalityType
  <2> QED
    BY <1>0, <2>1, <2>2, <2>3, <2>4
<1>2. CASE Leave(k)
  <2>1. sem' = sem \ {k}
    BY <1>2 DEF Leave
  <2>2. Busy' = Busy \ {k}
    BY <1>2 DEF Leave, Goto, Busy, TypeOK
  <2>3. IsFiniteSet(sem') /\ Cardinality(sem') <= Cardinality(sem)
    BY <1>0, <2>1, FS_Subset
  <2>4. Cardinality(sem') \in Nat
    BY <2>3, FS_CardinalityType
  <2> QED
    BY <1>0, <2>1, <2>2, <2>3, <2>4
<1>3. CASE ~Acquire(k) /\ ~Leave(k)
  <2>1. sem' = sem
    BY <1>3 DEF Handle, Forced, Ask, Refused, Pending, Allowed, TakeOutcome,
       TimedOut, Lock, Send, SendFails, ToolReturns
  <2>2. Busy' = Busy
    BY <1>3 DEF Handle, Forced, Ask, Refused, Pending, Allowed, TakeOutcome,
       TimedOut, Lock, Send, SendFails, ToolReturns, Goto, HasResult, Busy, TypeOK
  <2> QED
    BY <1>0, <2>1, <2>2
<1> QED
  BY <1>1, <1>2, <1>3

LEMMA WorkersHandle ==
  ASSUME TypeOK, WorkersInv,
         NEW k \in Calls, Handle(k) \/ Send(k) \/ ToolReturns(k)
  PROVE  WorkersInv'
<1>1. limit' = limit
  BY Shared
<1>2. Sequential' <=> Sequential
  BY <1>1 DEF Sequential
<1>3. CASE Sequential
  BY <1>2, <1>3, InOrderHandle DEF WorkersInv, Exited
<1>4. CASE ~Sequential
  BY <1>1, <1>2, <1>4, SemHandle DEF WorkersInv
<1> QED
  BY <1>3, <1>4

-----------------------------------------------------------------------------
(* GatherInv *)

\* The steps of call k come before the final loop, those of its tool apart.
LEMMA GatherHandle ==
  ASSUME TypeOK, GatherInv,
         NEW k \in Calls, Handle(k) \/ Send(k) \/ ToolReturns(k)
  PROVE  GatherInv'
<1>1. /\ UNCHANGED <<next, results, pending, sendDone>>
      /\ cancelled' = cancelled \/ (cancelled' = TRUE /\ sendDone)
  BY Shared
<1>2. CASE ToolReturns(k)
  BY <1>2 DEF GatherInv, ToolReturns, Lists, Exited, gathered, contexts
<1>3. CASE ~ToolReturns(k)
  <2>1. pc[k] # "exited"
    BY <1>3 DEF Handle, Acquire, Forced, Ask, Refused, Pending, Allowed,
       TakeOutcome, TimedOut, Lock, Send, SendFails, Leave
  <2>2. next = 0 /\ next' = 0
    BY <1>1, <2>1 DEF GatherInv, Exited
  <2>3. \A j \in Calls : ~(j < next) /\ ~(j < next')
    BY <2>2, BatchAssumption DEF Calls
  <2>4. /\ {j \in Calls : j < next /\ slots[j] # None} = {}
        /\ {j \in Calls : j < next /\ j \in pendingIdx} = {}
        /\ {j \in Calls : j < next' /\ slots'[j] # None} = {}
        /\ {j \in Calls : j < next' /\ j \in pendingIdx'} = {}
    BY <2>3
  <2>5. Lists(results, {}) /\ Lists(pending, {})
    BY <2>4 DEF GatherInv
  <2>6. Lists(results, {})' /\ Lists(pending, {})'
    BY <2>5, <1>1 DEF Lists
  <2>7. cancelled' => sendDone'
    BY <1>1 DEF GatherInv
  <2> QED
    BY <2>2, <2>4, <2>6, <2>7 DEF GatherInv, Lists
<1> QED
  BY <1>2, <1>3

-----------------------------------------------------------------------------
(* The inductive invariant *)

LEMMA InvInit == Init => IInv
<1> SUFFICES ASSUME Init PROVE IInv
  OBVIOUS
<1>1. TypeOK
  BY TypeInit
<1>2. DOMAIN streamed = {} /\ DOMAIN results = {} /\ DOMAIN pending = {}
  BY DEF Init
<1>3. \A k \in Calls : CallInv(k)
  BY <1>2, BatchAssumption DEF Init, CallInv, Streamed, Busy, Hows
<1>4. WorkersInv
  <2>1. Busy = {} /\ Cardinality({}) = 0
    BY FS_EmptySet DEF Init, Busy
  <2>2. limit \in Nat
    BY BatchAssumption DEF Init
  <2> QED
    BY <2>1, <2>2 DEF Init, WorkersInv
<1>5. GatherInv
  <2>1. \A k \in Calls : ~(k < next)
    BY BatchAssumption DEF Init, Calls
  <2>2. /\ {k \in Calls : k < next /\ slots[k] # None} = {}
        /\ {k \in Calls : k < next /\ k \in pendingIdx} = {}
    BY <2>1
  <2>3. Lists(results, {}) /\ Lists(pending, {})
    BY <1>2 DEF Lists
  <2> QED
    BY <2>2, <2>3 DEF Init, GatherInv
<1> QED
  BY <1>1, <1>3, <1>4, <1>5 DEF IInv

\* A step of the code handling call k.
LEMMA InvHandle ==
  ASSUME IInv, NEW k \in Calls, Handle(k) \/ Send(k) \/ ToolReturns(k)
  PROVE  IInv'
<1>1. TypeOK'
  BY TypeHandle DEF IInv
<1>2. ASSUME NEW j \in Calls PROVE CallInv(j)'
  <2>1. CASE j = k
    BY <2>1, CallInvOwn DEF IInv
  <2>2. CASE j # k
    <3>1. CallInv(j) /\ TypeOK
      BY DEF IInv
    <3>2. ret' = ret /\ (cancelled => cancelled')
      BY <3>1, Shared
    <3>3. /\ pc'[j] = pc[j]
          /\ slots'[j] = slots[j]
          /\ tool'[j] = tool[j]
          /\ j \in pendingIdx' <=> j \in pendingIdx
          /\ Streamed(j)' <=> Streamed(j)
      BY <2>2, <3>1, Others
    <3> QED
      BY <3>1, <3>2, <3>3, CallInvFrame
  <2> QED
    BY <2>1, <2>2
<1>3. WorkersInv'
  BY WorkersHandle DEF IInv
<1>4. GatherInv'
  BY GatherHandle DEF IInv
<1> QED
  BY <1>1, <1>2, <1>3, <1>4 DEF IInv

\* CallInv and WorkersInv speak of the calls' variables, limit and ret only.
LEMMA CallsFrame ==
  ASSUME IInv, UNCHANGED <<limit, calls>>,
         \/ ret' = ret
         \/ Busy = {}
  PROVE  (\A k \in Calls : CallInv(k)') /\ WorkersInv'
<1>1. Busy' = Busy /\ (Sequential' <=> Sequential)
  BY DEF Busy, Sequential, calls
<1>2. WorkersInv'
  BY <1>1 DEF IInv, WorkersInv, Exited, calls
<1>3. ASSUME NEW k \in Calls PROVE CallInv(k)'
  <2>1. CallInv(k) /\ (Streamed(k)' <=> Streamed(k))
    BY DEF IInv, Streamed, calls
  <2> QED
    BY <1>1, <2>1 DEF CallInv, calls
<1> QED
  BY <1>2, <1>3

\* The final loop goes on by one call.
LEMMA InvGather ==
  ASSUME IInv, Gather
  PROVE  GatherInv'
<1> DEFINE R == {k \in Calls : k < next /\ slots[k] # None}
           P == {k \in Calls : k < next /\ k \in pendingIdx}
<1>1. /\ next \in Calls /\ next # 0
      /\ results \in Seq(Calls) /\ pending \in Seq(Calls)
      /\ Lists(results, R) /\ Lists(pending, P)
      /\ ~cancelled /\ \A k \in Calls : Exited(k)
  BY BatchAssumption DEF IInv, TypeOK, GatherInv, Gather, Calls
<1>2. /\ next' = next + 1
      /\ UNCHANGED <<pc, slots, pendingIdx, cancelled, sendDone>>
  BY DEF Gather, calls, contexts
<1>3. slots[next] = None <=> next \in pendingIdx
  BY <1>1 DEF IInv, CallInv, Exited
<1>4. \A k \in Calls : k < next' <=> k < next \/ k = next
  BY <1>1, <1>2, BatchAssumption DEF Calls
<1>5. (\A x \in R : x < next) /\ (\A x \in P : x < next)
  OBVIOUS
<1>6. /\ {k \in Calls : k < next' /\ slots'[k] # None}
           = IF slots[next] # None THEN R \cup {next} ELSE R
      /\ {k \in Calls : k < next' /\ k \in pendingIdx'}
           = IF next \in pendingIdx THEN P \cup {next} ELSE P
  BY <1>1, <1>2, <1>4
<1> HIDE DEF R, P
<1>7. CASE next \in pendingIdx
  <2>1. results' = results /\ pending' = Append(pending, next)
    BY <1>7 DEF Gather
  <2>2. Lists(pending', P \cup {next})
    BY <1>1, <1>5, <2>1, ListsAppend
  <2>3. Lists(results', R)
    BY <1>1, <2>1
  <2> QED
    BY <1>1, <1>2, <1>3, <1>6, <1>7, <2>2, <2>3 DEF GatherInv, Exited, Lists
<1>8. CASE next \notin pendingIdx
  <2>1. results' = Append(results, next) /\ pending' = pending
    BY <1>3, <1>8 DEF Gather
  <2>2. Lists(results', R \cup {next})
    BY <1>1, <1>5, <2>1, ListsAppend
  <2>3. Lists(pending', P)
    BY <1>1, <2>1
  <2> QED
    BY <1>1, <1>2, <1>3, <1>6, <1>8, <2>2, <2>3 DEF GatherInv, Exited, Lists
<1> QED
  BY <1>7, <1>8

\* execTools returns when no call is being handled.
LEMMA IdleAtReturn ==
  ASSUME IInv, ReturnComplete \/ ReturnNotOK
  PROVE  Busy = {}
<1>1. CASE ReturnComplete
  <2>1. next # 0
    BY <1>1, BatchAssumption DEF ReturnComplete
  <2> QED
    BY <2>1 DEF IInv, GatherInv, Busy, Exited
<1>2. CASE ReturnNotOK
  BY <1>2 DEF ReturnNotOK, Stopping, Busy, Exited
<1> QED
  BY <1>1, <1>2

LEMMA InvNext == IInv /\ [Next]_vars => IInv'
<1> SUFFICES ASSUME IInv, [Next]_vars PROVE IInv'
  OBVIOUS
<1>t. TypeOK'
  BY TypeNext DEF IInv
<1>1. CASE \E k \in Calls : Handle(k) \/ Send(k) \/ ToolReturns(k)
  BY <1>1, InvHandle
<1>2. CASE StartGathering
  <2>1. UNCHANGED <<limit, calls, ret, results, pending, contexts>>
    BY <1>2 DEF StartGathering
  <2>2. /\ next = 0 /\ next' = 1
        /\ ~cancelled /\ \A k \in Calls : Exited(k)
    BY <1>2 DEF StartGathering
  <2>3. \A k \in Calls : ~(k < 0) /\ ~(k < 1)
    BY BatchAssumption DEF Calls
  <2>4. /\ {k \in Calls : k < next' /\ slots'[k] # None}
             = {k \in Calls : k < next /\ slots[k] # None}
        /\ {k \in Calls : k < next' /\ k \in pendingIdx'}
             = {k \in Calls : k < next /\ k \in pendingIdx}
    BY <2>2, <2>3
  <2>5. GatherInv'
    BY <2>1, <2>2, <2>4 DEF IInv, GatherInv, Lists, Exited, calls, contexts
  <2> QED
    BY <1>t, <2>1, <2>5, CallsFrame DEF IInv
<1>3. CASE Gather
  BY <1>t, <1>3, InvGather, CallsFrame DEF IInv, Gather
<1>4. CASE ReturnComplete \/ ReturnNotOK
  <2>1. UNCHANGED <<limit, calls, next, results, pending, contexts>>
    BY <1>4 DEF ReturnComplete, ReturnNotOK
  <2>2. GatherInv'
    BY <2>1 DEF IInv, GatherInv, Lists, Exited, calls, contexts
  <2> QED
    BY <1>t, <1>4, <2>1, <2>2, IdleAtReturn, CallsFrame DEF IInv
<1>5. CASE Expire \/ Cancel \/ CancelReachesRun \/ UNCHANGED vars
  <2>1. /\ UNCHANGED <<limit, calls, gathered>>
        /\ sendDone => sendDone'
    BY <1>5 DEF Expire, Cancel, CancelReachesRun, vars, contexts
  <2>2. GatherInv'
    BY <2>1 DEF IInv, GatherInv, Lists, Exited, calls, gathered
  <2> QED
    BY <1>t, <2>1, <2>2, CallsFrame DEF IInv, gathered
<1> QED
  BY <1>1, <1>2, <1>3, <1>4, <1>5 DEF Next

\* The inductive invariant holds in every reachable state.
THEOREM Invariance == Spec => []IInv
<1>1. Init => IInv
  BY InvInit
<1>2. IInv /\ [Next]_vars => IInv'
  BY InvNext
<1> QED
  BY <1>1, <1>2, PTL DEF Spec

-----------------------------------------------------------------------------
(* What follows from it *)

\* At most MaxParallelTools calls are handled at a time, and one at a time if
\* MaxParallelTools is 0 or 1 or there is only one call.
THEOREM Concurrency == Spec => []ConcurrencyBound
<1>1. IInv => ConcurrencyBound
  <2> SUFFICES ASSUME IInv PROVE ConcurrencyBound
    OBVIOUS
  <2>1. CASE ~Sequential
    BY <2>1 DEF IInv, WorkersInv, ConcurrencyBound
  <2>2. CASE Sequential
    <3>1. ASSUME NEW j \in Busy, NEW k \in Busy PROVE j = k
      <4>1. j \in Nat /\ k \in Nat /\ j \in Calls /\ k \in Calls
        BY BatchAssumption DEF Busy, Calls
      <4>2. \A a, b \in Calls : a < b /\ a \in Busy => b \notin Busy
        BY <2>2 DEF IInv, WorkersInv, Busy, Exited
      <4> QED
        BY <4>1, <4>2
    <3>2. CASE Busy = {}
      BY <2>2, <3>2, FS_EmptySet DEF ConcurrencyBound
    <3>3. CASE Busy # {}
      <4>1. PICK k \in Busy : TRUE
        BY <3>3
      <4>2. Busy = {k}
        BY <3>1
      <4>3. Cardinality(Busy) = 1
        BY <4>2, FS_Singleton
      <4> QED
        BY <2>2, <4>3 DEF ConcurrencyBound
    <3> QED
      BY <3>2, <3>3
  <2> QED
    BY <2>1, <2>2
<1> QED
  BY <1>1, Invariance, PTL

\* What the model is told of a call agrees with what was done with it.
THEOREM Reports == Spec => []ReportsAreTrue
<1>1. IInv => ReportsAreTrue
  BY BatchAssumption DEF IInv, TypeOK, CallInv, ReportsAreTrue, Hows, Labels
<1> QED
  BY <1>1, Invariance, PTL

-----------------------------------------------------------------------------
(* Refinement *)

\* A call gets its result.
LEMMA SettleResult ==
  ASSUME IInv, NEW k \in Calls,
         Forced(k) \/ Refused(k) \/ TakeOutcome(k) \/ TimedOut(k)
  PROVE  Contract!Settle(k, "result")
<1>1. /\ pc[k] \in {"begin", "asking", "executing"}
      /\ UNCHANGED <<pendingIdx, streamed, ret, runDone, sendDone>>
  BY DEF Forced, Refused, TakeOutcome, TimedOut, gathered, contexts
<1>2. slots[k] = None /\ k \notin pendingIdx /\ ret = None
  BY <1>1 DEF IInv, CallInv, Busy
<1>3. \E how \in Hows : slots' = [slots EXCEPT ![k] = how]
  BY DEF Forced, Refused, TakeOutcome, TimedOut, HasResult, Hows
<1>4. /\ slots'[k] # None
      /\ \A j \in Calls : j # k => slots'[j] = slots[j]
  BY <1>3, BatchAssumption DEF IInv, TypeOK
<1>5. Outcome' = [Outcome EXCEPT ![k] = "result"]
  BY <1>1, <1>2, <1>4 DEF Outcome
<1>6. Outcome[k] = "open"
  BY <1>2 DEF Outcome
<1> QED
  BY <1>1, <1>2, <1>5, <1>6 DEF Contract!Settle

\* A call's approval is pending.
LEMMA SettlePending ==
  ASSUME IInv, NEW k \in Calls, Pending(k)
  PROVE  Contract!Settle(k, "pending")
<1>1. /\ pc[k] = "asking"
      /\ pendingIdx' = pendingIdx \cup {k}
      /\ UNCHANGED <<slots, streamed, ret, runDone, sendDone>>
  BY DEF Pending, gathered, contexts
<1>2. slots[k] = None /\ k \notin pendingIdx /\ ret = None
  BY <1>1 DEF IInv, CallInv, Busy
<1>3. Outcome' = [Outcome EXCEPT ![k] = "pending"]
  BY <1>1 DEF Outcome
<1>4. Outcome[k] = "open"
  BY <1>2 DEF Outcome
<1> QED
  BY <1>1, <1>2, <1>3, <1>4 DEF Contract!Settle

\* A result is delivered.
LEMMA StreamResult ==
  ASSUME IInv, NEW k \in Calls, Send(k)
  PROVE  Contract!Stream(k)
<1>1. /\ pc[k] = "sending"
      /\ streamed' = Append(streamed, k)
      /\ UNCHANGED <<slots, pendingIdx, ret, runDone, sendDone>>
  BY DEF Send, gathered, contexts
<1>2. slots[k] # None /\ k \notin pendingIdx /\ ret = None /\ ~Streamed(k)
  BY <1>1 DEF IInv, CallInv, Busy
<1>3. Outcome[k] = "result" /\ Outcome' = Outcome
  BY <1>1, <1>2 DEF Outcome
<1> QED
  BY <1>1, <1>2, <1>3 DEF Contract!Stream, Contract!Streamed, Streamed

\* The batch returns complete.
LEMMA ReturnsOK ==
  ASSUME IInv, ReturnComplete
  PROVE  Contract!ReturnOK
<1>1. /\ ret = None /\ next = N + 1
      /\ ret' = [ok |-> TRUE, results |-> results, pending |-> pending]
      /\ UNCHANGED <<slots, pendingIdx, streamed, runDone, sendDone>>
  BY DEF ReturnComplete, calls, contexts
<1>2. ~cancelled /\ \A k \in Calls : Exited(k)
  BY <1>1, BatchAssumption DEF IInv, GatherInv
<1>3. \A k \in Calls : /\ k < next
                       /\ slots[k] = None <=> k \in pendingIdx
                       /\ slots[k] # None => Streamed(k)
  BY <1>1, <1>2, BatchAssumption DEF IInv, CallInv, Exited, Calls
<1>4. /\ {k \in Calls : k < next /\ slots[k] # None} = {k \in Calls : Outcome[k] = "result"}
      /\ {k \in Calls : k < next /\ k \in pendingIdx} = {k \in Calls : Outcome[k] = "pending"}
  BY <1>3 DEF Outcome
<1>5. /\ Lists(results, {k \in Calls : Outcome[k] = "result"})
      /\ Lists(pending, {k \in Calls : Outcome[k] = "pending"})
  BY <1>4 DEF IInv, GatherInv
<1>6. ret'.ok /\ ret'.results = results /\ ret'.pending = pending
  BY <1>1
<1>7. ret' # None
  <2>1. ret' \in Returns
    BY <1>1 DEF IInv, TypeOK, Returns
  <2> QED
    BY <2>1, BatchAssumption
<1>8. Contract!InCallOrder(ret'.results, "result") /\ Contract!InCallOrder(ret'.pending, "pending")
  BY <1>5, <1>6 DEF Contract!InCallOrder, Lists
<1>9. \A k \in Calls : Outcome[k] = "pending" \/ (Outcome[k] = "result" /\ Contract!Streamed(k))
  BY <1>3 DEF Outcome, Contract!Streamed, Streamed
<1>10. Outcome' = Outcome
  BY <1>1 DEF Outcome
<1> QED
  BY <1>1, <1>6, <1>7, <1>8, <1>9, <1>10 DEF Contract!ReturnOK

\* The batch returns not ok.
LEMMA ReturnsFailed ==
  ASSUME IInv, ReturnNotOK
  PROVE  Contract!ReturnFailed
<1>1. /\ ret = None
      /\ ret' = [ok |-> FALSE, results |-> <<>>, pending |-> <<>>]
      /\ UNCHANGED <<slots, pendingIdx, streamed, runDone, sendDone>>
      /\ cancelled \/ runDone
  BY DEF ReturnNotOK, Stopping, calls, contexts
<1>2. runDone \/ sendDone
  BY <1>1 DEF IInv, GatherInv
<1>3. Outcome' = Outcome
  BY <1>1 DEF Outcome
<1> QED
  BY <1>1, <1>2, <1>3 DEF Contract!ReturnFailed

LEMMA ContractStep ==
  ASSUME IInv, [Next]_vars
  PROVE  [Contract!Next]_(Contract!vars)
<1>1. ASSUME NEW k \in Calls, Handle(k) \/ Send(k) \/ ToolReturns(k)
      PROVE  [Contract!Next]_(Contract!vars)
  <2>1. CASE Forced(k) \/ Refused(k) \/ TakeOutcome(k) \/ TimedOut(k)
    BY <2>1, SettleResult DEF Contract!Next
  <2>2. CASE Pending(k)
    BY <2>2, SettlePending DEF Contract!Next
  <2>3. CASE Send(k)
    BY <2>3, StreamResult DEF Contract!Next
  <2>4. CASE \/ Acquire(k) \/ Ask(k) \/ Allowed(k) \/ Lock(k)
             \/ SendFails(k) \/ Leave(k) \/ ToolReturns(k)
    <3>1. UNCHANGED <<slots, pendingIdx, streamed, ret, runDone, sendDone>>
      BY <2>4 DEF Acquire, Ask, Allowed, Lock, SendFails, Leave, ToolReturns,
         gathered, contexts
    <3> QED
      BY <3>1 DEF Contract!vars, Outcome
  <2> QED
    BY <1>1, <2>1, <2>2, <2>3, <2>4 DEF Handle
<1>2. CASE ReturnComplete
  BY <1>2, ReturnsOK DEF Contract!Next
<1>3. CASE ReturnNotOK
  BY <1>3, ReturnsFailed DEF Contract!Next
<1>4. CASE StartGathering \/ Gather \/ UNCHANGED vars
  <2>1. UNCHANGED <<slots, pendingIdx, streamed, ret, runDone, sendDone>>
    BY <1>4 DEF StartGathering, Gather, vars, calls, gathered, contexts
  <2> QED
    BY <2>1 DEF Contract!vars, Outcome
<1>5. CASE Expire \/ Cancel \/ CancelReachesRun
  <2>1. UNCHANGED <<slots, pendingIdx, streamed, ret>>
    BY <1>5 DEF Expire, Cancel, CancelReachesRun, calls, gathered
  <2>2. (runDone \/ sendDone)' = TRUE
    BY <1>5 DEF Expire, Cancel, CancelReachesRun
  <2>3. Contract!Stop
    BY <2>1, <2>2 DEF Contract!Stop, Outcome
  <2> QED
    BY <2>3 DEF Contract!Next
<1> QED
  BY <1>1, <1>2, <1>3, <1>4, <1>5 DEF Next

\* The goroutines implement the contract that runLoop relies on: each call is
\* settled once, results are streamed once, and a complete return lists all of
\* them in call order.
THEOREM Refinement == Spec => ImplementsContract
<1>1. Init => Contract!Init
  BY DEF Init, Contract!Init, Outcome
<1>2. IInv /\ [Next]_vars => [Contract!Next]_(Contract!vars)
  BY ContractStep
<1> QED
  BY <1>1, <1>2, Invariance, PTL DEF Spec, ImplementsContract, Contract!Spec
=============================================================================
