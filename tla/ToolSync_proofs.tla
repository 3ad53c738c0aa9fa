-------------------------- MODULE ToolSync_proofs --------------------------
(***************************************************************************)
(* Proofs about ToolSync, for any tools, versions, goroutines and numbers  *)
(* of changes and failures.                                                *)
(***************************************************************************)
EXTENDS ToolSync, TLAPS

-----------------------------------------------------------------------------
(* The inductive invariant *)

\* Who reconciles holds syncMu, and nobody else does; Register neither waits
\* for it nor drops anything.
Exclusion ==
    /\ \A p \in Syncers : pc[p] \in {"list", "look", "drop", "add"} <=> syncMu = p
    /\ \A p \in Registrars : pc[p] \notin {"lock", "drop"}

\* p has read what the server said of tool n.
Read(p, n) == pc[p] \in {"look", "drop", "add"} \/ (pc[p] = "list" /\ n <= cursor[p])

\* A new change is announced, or a goroutine is about to reconcile.
Awaiting == notified \/ \E p \in Syncers : pc[p] = "lock"

\* What the reconciliation under way knows: the versions of stable tools, and
\* of all tools if no change is announced.
Knows(p) ==
    /\ pc[p] \in {"idle", "lock"} => cursor[p] = 0
    /\ \A n \in Tools : Read(p, n) /\ (stable[n] \/ ~Awaiting) => listed[p][n] = server[n]

\* What it still has to do: it drops no stable tool and adds only tools that
\* it found; unless Register interfered, that makes the registry its listing.
Plans(p) ==
    pc[p] \in {"drop", "add"} =>
        /\ pc[p] = "add" => drop[p] = {}
        /\ \A n \in drop[p] : ~stable[n]
        /\ \A n \in add[p] : listed[p][n] # None
        /\ ~unseen => \A n \in Tools :
             /\ n \in add[p] \ drop[p] => registry[n] = None
             /\ n \notin add[p] \cup drop[p] => registry[n] = listed[p][n]
             /\ n \in drop[p] \ add[p] => listed[p][n] = None

ListedInv == \A p \in Syncers : Knows(p)
PlanInv   == \A p \in Syncers : Plans(p)

\* What the last reconciliation has left.
SettledInv ==
    syncMu = None /\ clean /\ ~unseen /\ ~Awaiting => \A n \in Tools : registry[n] = server[n]

SyncInv == TypeOK /\ Exclusion /\ ListedInv /\ PlanInv /\ SettledInv /\ UnchangedStays

LEMMA Kinds ==
    /\ \A p \in Registrars : p \notin Syncers
    /\ None \notin Procs
    /\ Procs = Syncers \cup Registrars
BY ToolSyncAssumption DEF Procs, Syncers

LEMMA SyncInit == Init => SyncInv
<1> SUFFICES ASSUME Init PROVE SyncInv
  OBVIOUS
<1>1. TypeOK
  <2>1. 0 \in 0 .. N /\ 0 \in 0 .. MaxChanges /\ 0 \in 0 .. MaxFailures
    BY ToolSyncAssumption
  <2>2. NoTools \in [Tools -> Maybe]
    BY DEF NoTools, Maybe
  <2> QED
    BY <2>1, <2>2 DEF Init, TypeOK
<1>2. Exclusion
  BY Kinds DEF Init, Exclusion
<1>3. ListedInv /\ PlanInv
  BY ToolSyncAssumption, Kinds DEF Init, ListedInv, PlanInv, Knows, Plans, Read, Tools
<1>4. SettledInv /\ UnchangedStays
  BY DEF Init, SettledInv, UnchangedStays
<1> QED
  BY <1>1, <1>2, <1>3, <1>4 DEF SyncInv

-----------------------------------------------------------------------------
(* Types *)

LEMMA TypeStep ==
  ASSUME TypeOK, Exclusion, [Next]_vars
  PROVE  TypeOK'
<1> USE ToolSyncAssumption, Kinds
<1>1. ASSUME NEW n \in Tools, NEW v \in Maybe, ServerChanges(n, v) PROVE TypeOK'
  BY <1>1 DEF TypeOK, ServerChanges, procVars
<1>2. ASSUME NEW p \in Procs, ToolListChanged(p) \/ SyncTools(p) \/ Register(p) \/ Lock(p) \/ Dropped(p)
      PROVE  TypeOK'
  <2> USE DEF TypeOK, serverVars, procVars, histVars
  <2>1. CASE ToolListChanged(p)
    BY <2>1 DEF ToolListChanged
  <2>2. CASE SyncTools(p)
    BY <2>2 DEF SyncTools
  <2>3. CASE Register(p)
    BY <2>3 DEF Register
  <2>4. ASSUME Lock(p) PROVE TypeOK'
    <3>1. p \in Syncers
      BY <2>4 DEF Lock, Exclusion
    <3> QED
      BY <2>4, <3>1 DEF Lock
  <2>5. CASE Dropped(p)
    BY <2>5 DEF Dropped
  <2> QED
    BY <1>2, <2>1, <2>2, <2>3, <2>4, <2>5
<1>3. ASSUME NEW p \in Procs, NEW ok \in BOOLEAN, Finish(p, ok)
      PROVE  /\ pc' \in [Procs -> {"idle", "lock", "list", "look", "drop", "add", "done"}]
             /\ syncMu' \in Syncers \cup {None}
             /\ cursor' \in [Procs -> 0 .. N]
             /\ listed' \in [Procs -> [Tools -> Maybe]]
             /\ drop' \in [Procs -> SUBSET Tools]
             /\ add' \in [Procs -> SUBSET Tools]
             /\ err' \in [Procs -> BOOLEAN]
             /\ clean' \in BOOLEAN
  <2>1. NoTools \in [Tools -> Maybe]
    BY DEF NoTools, Maybe
  <2> QED
    BY <1>3, <2>1 DEF TypeOK, Finish
<1>4. ASSUME NEW p \in Procs, ListFails(p) PROVE TypeOK'
  <2>1. failures' \in 0 .. MaxFailures
    BY <1>4 DEF ListFails, TypeOK
  <2> QED
    BY <1>4, <1>3, <2>1 DEF ListFails, TypeOK, serverVars
<1>5. ASSUME NEW p \in Procs, Return(p) PROVE TypeOK'
  <2>1. (~err[p]) \in BOOLEAN
    OBVIOUS
  <2> QED
    BY <1>5, <1>3, <2>1 DEF Return, TypeOK, serverVars
<1>6. ASSUME NEW p \in Procs, ListPage(p) PROVE TypeOK'
  <2>1. PICK last \in cursor[p] + 1 .. N :
          /\ cursor' = [cursor EXCEPT ![p] = last]
          /\ listed' = [listed EXCEPT ![p] =
               [n \in Tools |-> IF n \in cursor[p] + 1 .. last THEN server[n] ELSE @[n]]]
          /\ pc' = [pc EXCEPT ![p] = IF last < N THEN "list" ELSE "look"]
    BY <1>6 DEF ListPage
  <2>2. cursor[p] \in 0 .. N /\ last \in 0 .. N
    BY <2>1 DEF TypeOK
  <2>3. listed' \in [Procs -> [Tools -> Maybe]]
    BY <2>1, <2>2 DEF TypeOK
  <2> QED
    BY <1>6, <2>1, <2>2, <2>3 DEF ListPage, TypeOK, serverVars, histVars
<1>7. ASSUME NEW p \in Procs, Look(p) PROVE TypeOK'
  <2>1. drop' \in [Procs -> SUBSET Tools] /\ add' \in [Procs -> SUBSET Tools]
    BY <1>7 DEF Look, TypeOK, Listed
  <2>2. pc' \in [Procs -> {"idle", "lock", "list", "look", "drop", "add", "done"}]
    BY <1>7 DEF Look, TypeOK
  <2> QED
    BY <1>7, <2>1, <2>2 DEF Look, TypeOK, serverVars
<1>8. ASSUME NEW p \in Procs, Drop(p) PROVE TypeOK'
  BY <1>8 DEF Drop, TypeOK, Maybe, serverVars, histVars
<1>9. ASSUME NEW p \in Procs, Add(p) PROVE TypeOK'
  <2>1. PICK n \in add[p] :
          /\ registry' = [registry EXCEPT ![n] = listed[p][n]]
          /\ stable' = [stable EXCEPT ![n] = p \in Syncers /\ listed[p][n] = server[n]]
          /\ unseen' = (unseen \/ p \in Registrars)
          /\ add' = [add EXCEPT ![p] = @ \ {n}]
    BY <1>9 DEF Add
  <2>2. n \in Tools /\ listed[p][n] \in Maybe
    BY <2>1 DEF TypeOK
  <2>3. registry' \in [Tools -> Maybe] /\ stable' \in [Tools -> BOOLEAN]
    BY <2>1, <2>2 DEF TypeOK
  <2> QED
    BY <1>9, <2>1, <2>2, <2>3 DEF Add, TypeOK, serverVars
<1>10. ASSUME NEW p \in Procs, AddRefused(p) PROVE TypeOK'
  <2>1. CASE p \in Registrars
    BY <1>10, <2>1, <1>3 DEF AddRefused, TypeOK, serverVars
  <2>2. CASE p \notin Registrars
    <3>1. PICK n \in add[p] :
            /\ add' = [add EXCEPT ![p] = @ \ {n}]
            /\ err' = [err EXCEPT ![p] = TRUE]
            /\ UNCHANGED <<pc, syncMu, cursor, listed, drop, clean>>
      BY <1>10, <2>2 DEF AddRefused
    <3>2. add' \in [Procs -> SUBSET Tools] /\ err' \in [Procs -> BOOLEAN]
      BY <3>1 DEF TypeOK
    <3>3. UNCHANGED <<serverVars, registry, unseen, stable, failures>>
      BY <1>10 DEF AddRefused
    <3> QED
      BY <3>1, <3>2, <3>3 DEF TypeOK, serverVars
  <2> QED
    BY <2>1, <2>2
<1>11. ASSUME UNCHANGED vars PROVE TypeOK'
  BY <1>11 DEF TypeOK, vars, serverVars, procVars, histVars
<1> QED
  BY <1>1, <1>2, <1>4, <1>5, <1>6, <1>7, <1>8, <1>9, <1>10, <1>11 DEF Next, Step

-----------------------------------------------------------------------------
(* What each kind of step changes, goroutine by goroutine *)

\* A goroutine that ends is idle or done, at the beginning of the list again,
\* and nobody holds syncMu if it did.
LEMMA Finished ==
  ASSUME TypeOK, Exclusion, NEW p \in Procs, NEW ok, Finish(p, ok)
  PROVE  /\ pc'[p] = IF p \in Registrars THEN "done" ELSE "idle"
         /\ cursor'[p] = 0
         /\ p \in Syncers => clean' = ok
         /\ p \notin Syncers => clean' = clean /\ syncMu' = syncMu
         /\ syncMu = p => syncMu' = None
         /\ syncMu # p => syncMu' = syncMu
         /\ \A q \in Procs \ {p} : /\ pc'[q] = pc[q] /\ cursor'[q] = cursor[q]
                                   /\ listed'[q] = listed[q] /\ drop'[q] = drop[q]
                                   /\ add'[q] = add[q]
<1>1. p \notin Syncers => syncMu # p
  BY Kinds DEF TypeOK
<1> QED
  BY <1>1 DEF TypeOK, Finish

LEMMA ExclusionStep ==
  ASSUME TypeOK, Exclusion, [Next]_vars
  PROVE  Exclusion'
<1> USE Kinds DEF Exclusion
<1>1. ASSUME NEW n \in Tools, NEW v \in Maybe, ServerChanges(n, v) PROVE Exclusion'
  BY <1>1 DEF ServerChanges
<1>2. ASSUME NEW p \in Procs, ToolListChanged(p) PROVE Exclusion'
  BY <1>2, ToolSyncAssumption DEF ToolListChanged, TypeOK, Syncers
<1>3. ASSUME NEW p \in Procs, SyncTools(p) PROVE Exclusion'
  BY <1>3, ToolSyncAssumption DEF SyncTools, TypeOK, Syncers
<1>4. ASSUME NEW p \in Procs, Register(p) PROVE Exclusion'
  BY <1>4 DEF Register, TypeOK
<1>5. ASSUME NEW p \in Procs, Lock(p) PROVE Exclusion'
  BY <1>5 DEF Lock, TypeOK
<1>6. ASSUME NEW p \in Procs, NEW ok, pc[p] \in {"list", "look", "drop", "add"}, Finish(p, ok)
      PROVE  Exclusion'
  BY <1>6, Finished
<1>7. ASSUME NEW p \in Procs, ListFails(p) PROVE Exclusion'
  <2>1. pc[p] = "list" /\ Finish(p, FALSE)
    BY <1>7 DEF ListFails
  <2>2. /\ pc'[p] = IF p \in Registrars THEN "done" ELSE "idle"
        /\ p \notin Syncers => syncMu' = syncMu
        /\ syncMu = p => syncMu' = None
        /\ syncMu # p => syncMu' = syncMu
        /\ \A q \in Procs \ {p} : pc'[q] = pc[q]
    BY <2>1, Finished
  <2> QED
    BY <2>1, <2>2
<1>8. ASSUME NEW p \in Procs, ListPage(p) PROVE Exclusion'
  BY <1>8 DEF ListPage, TypeOK
<1>9. ASSUME NEW p \in Procs, Look(p) PROVE Exclusion'
  BY <1>9 DEF Look, TypeOK
<1>10. ASSUME NEW p \in Procs, Drop(p) \/ Add(p) PROVE Exclusion'
  BY <1>10 DEF Drop, Add
<1>11. ASSUME NEW p \in Procs, Dropped(p) PROVE Exclusion'
  BY <1>11 DEF Dropped, TypeOK
<1>12. ASSUME NEW p \in Procs, AddRefused(p) PROVE Exclusion'
  <2>1. CASE p \in Registrars
    <3>1. pc[p] = "add" /\ Finish(p, FALSE)
      BY <1>12, <2>1 DEF AddRefused
    <3> QED
      BY <3>1, Finished
  <2>2. CASE p \notin Registrars
    BY <1>12, <2>2 DEF AddRefused
  <2> QED
    BY <2>1, <2>2
<1>13. ASSUME NEW p \in Procs, Return(p) PROVE Exclusion'
  BY <1>6, <1>13 DEF Return
<1>14. ASSUME UNCHANGED vars PROVE Exclusion'
  BY <1>14 DEF vars
<1> QED
  BY <1>1, <1>2, <1>3, <1>4, <1>5, <1>7, <1>8, <1>9, <1>10, <1>11, <1>12, <1>13, <1>14
     DEF Next, Step

\* No action but its own changes what a goroutine has read; stable tools are
\* made by the one that holds syncMu.
LEMMA ListedStep ==
  ASSUME SyncInv, [Next]_vars
  PROVE  ListedInv'
<1> USE Kinds DEF Knows, Read, Awaiting
<1>0. TypeOK /\ Exclusion /\ \A q \in Syncers : Knows(q)
  BY DEF SyncInv, ListedInv
<1> SUFFICES ASSUME NEW q \in Syncers PROVE Knows(q)'
  BY DEF ListedInv
<1>a. /\ Knows(q) /\ q \in Procs
      /\ cursor[q] \in 0 .. N /\ N \in Nat /\ Tools = 1 .. N
      /\ listed \in [Procs -> [Tools -> Maybe]]
      /\ stable \in [Tools -> BOOLEAN] /\ server \in [Tools -> Maybe]
  BY <1>0, ToolSyncAssumption DEF TypeOK, Tools
<1>1. ASSUME NEW m \in Tools, NEW v \in Maybe, ServerChanges(m, v) PROVE Knows(q)'
  BY <1>a, <1>1 DEF ServerChanges, procVars
<1>2. ASSUME NEW p \in Procs, ToolListChanged(p) \/ SyncTools(p) PROVE Knows(q)'
  <2>1. p \in Syncers /\ pc[p] = "idle" /\ pc'[p] = "lock" /\ \A r \in Procs \ {p} : pc'[r] = pc[r]
    BY <1>2, <1>0 DEF ToolListChanged, SyncTools, Syncers, TypeOK
  <2>2. UNCHANGED <<server, procVars, stable>>
    BY <1>2 DEF ToolListChanged, SyncTools, serverVars, histVars
  <2> QED
    BY <1>a, <2>1, <2>2 DEF procVars
<1>3. ASSUME NEW p \in Procs, Register(p) PROVE Knows(q)'
  BY <1>0, <1>a, <1>3 DEF Register, TypeOK, serverVars, procVars, histVars
<1>4. ASSUME NEW p \in Procs, Lock(p) PROVE Knows(q)'
  BY <1>0, <1>a, <1>4 DEF Lock, Exclusion, TypeOK, serverVars, procVars, histVars
<1>5. ASSUME NEW p \in Procs, NEW ok, pc[p] \notin {"idle", "lock"}, Finish(p, ok),
             UNCHANGED <<server, notified, stable>>
      PROVE  Knows(q)'
  <2>1. Awaiting' <=> Awaiting
    BY <1>0, <1>5, Finished
  <2> QED
    BY <1>0, <1>a, <1>5, <2>1, Finished
<1>6. ASSUME NEW p \in Procs, ListFails(p) PROVE Knows(q)'
  BY <1>5, <1>6 DEF ListFails, serverVars
<1>7. ASSUME NEW p \in Procs, ListPage(p) PROVE Knows(q)'
  <2>1. PICK last \in cursor[p] + 1 .. N :
          /\ cursor' = [cursor EXCEPT ![p] = last]
          /\ listed' = [listed EXCEPT ![p] =
               [n \in Tools |-> IF n \in cursor[p] + 1 .. last THEN server[n] ELSE @[n]]]
          /\ pc' = [pc EXCEPT ![p] = IF last < N THEN "list" ELSE "look"]
    BY <1>7 DEF ListPage
  <2>2. UNCHANGED <<server, notified, stable>> /\ pc[p] = "list" /\ (Awaiting' <=> Awaiting)
    BY <1>0, <1>7, <2>1 DEF ListPage, serverVars, histVars, TypeOK
  <2>3. CASE p = q
    BY <1>0, <1>a, <2>1, <2>2, <2>3 DEF TypeOK
  <2>4. CASE p # q
    BY <1>0, <1>a, <2>1, <2>2, <2>4 DEF TypeOK
  <2> QED
    BY <2>3, <2>4
<1>8. ASSUME NEW p \in Procs, Look(p) \/ Dropped(p) PROVE Knows(q)'
  <2>1. UNCHANGED <<server, notified, stable, cursor, listed>> /\ pc[p] \in {"look", "drop"}
    BY <1>8 DEF Look, Dropped, serverVars, procVars, histVars
  <2>2. pc'[p] \in {"drop", "add"} /\ \A r \in Procs \ {p} : pc'[r] = pc[r]
    BY <1>0, <1>8 DEF Look, Dropped, TypeOK
  <2> QED
    BY <1>0, <1>a, <2>1, <2>2
<1>9. ASSUME NEW p \in Procs, Drop(p) PROVE Knows(q)'
  BY <1>a, <1>9 DEF Drop, serverVars, histVars
<1>10. ASSUME NEW p \in Procs, Add(p) PROVE Knows(q)'
  <2>1. PICK m \in add[p] : stable' = [stable EXCEPT ![m] = p \in Syncers /\ listed[p][m] = server[m]]
    BY <1>10 DEF Add
  <2>2. UNCHANGED <<server, notified, pc, cursor, listed>> /\ pc[p] = "add"
    BY <1>10 DEF Add, serverVars
  <2>3. p \in Syncers /\ p # q => ~\E n \in Tools : Read(q, n)
    BY <1>0, <2>2 DEF Exclusion
  <2> QED
    BY <1>0, <1>a, <2>1, <2>2, <2>3
<1>11. ASSUME NEW p \in Procs, AddRefused(p) PROVE Knows(q)'
  <2>1. CASE p \in Registrars
    BY <1>5, <1>11, <2>1 DEF AddRefused, serverVars
  <2>2. CASE p \notin Registrars
    BY <1>a, <1>11, <2>2 DEF AddRefused, serverVars
  <2> QED
    BY <2>1, <2>2
<1>12. ASSUME NEW p \in Procs, Return(p) PROVE Knows(q)'
  BY <1>5, <1>12 DEF Return, serverVars
<1>13. ASSUME UNCHANGED vars PROVE Knows(q)'
  BY <1>a, <1>13 DEF vars, serverVars, procVars, histVars
<1> QED
  BY <1>1, <1>2, <1>3, <1>4, <1>6, <1>7, <1>8, <1>9, <1>10, <1>11, <1>12, <1>13 DEF Next, Step

\* The registry is changed by the goroutine that holds syncMu, as it planned,
\* or by Register, which shows in `unseen'.
LEMMA PlanStep ==
  ASSUME SyncInv, [Next]_vars
  PROVE  PlanInv'
<1> USE Kinds DEF Plans
<1>0. TypeOK /\ Exclusion /\ UnchangedStays /\ \A q \in Syncers : Knows(q) /\ Plans(q)
  BY DEF SyncInv, ListedInv, PlanInv
<1> SUFFICES ASSUME NEW q \in Syncers PROVE Plans(q)'
  BY DEF PlanInv
<1>a. /\ Plans(q) /\ q \in Procs
      /\ listed \in [Procs -> [Tools -> Maybe]] /\ registry \in [Tools -> Maybe]
      /\ drop \in [Procs -> SUBSET Tools] /\ add \in [Procs -> SUBSET Tools]
      /\ stable \in [Tools -> BOOLEAN] /\ server \in [Tools -> Maybe]
  BY <1>0 DEF TypeOK
<1>1. ASSUME NEW m \in Tools, NEW v \in Maybe, ServerChanges(m, v) PROVE Plans(q)'
  BY <1>a, <1>1 DEF ServerChanges, procVars
<1>2. ASSUME NEW p \in Procs, pc[p] \notin {"drop", "add"}, pc'[p] \notin {"drop", "add"},
             \A r \in Procs \ {p} : pc'[r] = pc[r] /\ drop'[r] = drop[r] /\ add'[r] = add[r]
                                                  /\ listed'[r] = listed[r],
             UNCHANGED <<registry, unseen, stable>>
      PROVE  Plans(q)'
  BY <1>a, <1>2
<1>3. ASSUME NEW p \in Procs,
             ToolListChanged(p) \/ SyncTools(p) \/ Register(p) \/ Lock(p) \/ ListPage(p) \/ ListFails(p)
      PROVE  Plans(q)'
  <2>1. CASE ToolListChanged(p)
    BY <1>0, <1>2, <2>1 DEF ToolListChanged, TypeOK, procVars, histVars
  <2>2. CASE SyncTools(p)
    BY <1>0, <1>2, <2>2 DEF SyncTools, TypeOK, procVars, histVars
  <2>3. CASE Register(p)
    BY <1>0, <1>2, <2>3 DEF Register, TypeOK, procVars, histVars
  <2>4. CASE Lock(p)
    BY <1>0, <1>2, <2>4 DEF Lock, TypeOK, procVars, histVars
  <2>5. CASE ListPage(p)
    BY <1>0, <1>2, <2>5 DEF ListPage, TypeOK, histVars
  <2>6. CASE ListFails(p)
    <3>1. pc[p] = "list" /\ Finish(p, FALSE) /\ UNCHANGED <<registry, unseen, stable>>
      BY <2>6 DEF ListFails
    <3>2. pc'[p] \notin {"drop", "add"}
      BY <1>0, <3>1, Finished
    <3>3. \A r \in Procs \ {p} : pc'[r] = pc[r] /\ drop'[r] = drop[r] /\ add'[r] = add[r]
                                                /\ listed'[r] = listed[r]
      BY <1>0, <3>1, Finished
    <3> QED
      BY <1>2, <3>1, <3>2, <3>3
  <2> QED
    BY <1>3, <2>1, <2>2, <2>3, <2>4, <2>5, <2>6
<1>4. ASSUME NEW p \in Procs, Look(p) PROVE Plans(q)'
  <2>1. CASE p \in Registrars
    BY <1>0, <1>a, <1>4, <2>1 DEF Look, TypeOK
  <2>2. CASE p \notin Registrars /\ p = q
    <3>1. /\ pc'[q] = "drop" /\ UNCHANGED <<registry, stable, listed>>
          /\ drop'[q] = {n \in Tools : registry[n] # None /\ ~Same(q, n)}
          /\ add'[q] = {n \in Listed(q) : ~Same(q, n)}
      BY <1>0, <1>4, <2>2 DEF Look, TypeOK
    <3>2. pc[q] = "look"
      BY <1>4, <2>2 DEF Look
    <3>3. \A n \in Tools : stable[n] => Same(q, n)
      BY <1>0, <3>2 DEF Knows, Read, UnchangedStays, Same
    <3> QED
      BY <1>a, <3>1, <3>3 DEF Same, Listed
  <2>3. CASE p \notin Registrars /\ p # q
    BY <1>0, <1>4, <2>3 DEF Look, Exclusion, TypeOK
  <2> QED
    BY <2>1, <2>2, <2>3
<1>5. ASSUME NEW p \in Procs, Drop(p) PROVE Plans(q)'
  <2>1. PICK n \in Tools : /\ n \in drop[p]
                           /\ drop' = [drop EXCEPT ![p] = @ \ {n}]
                           /\ registry' = [registry EXCEPT ![n] = None]
    BY <1>5 DEF Drop, First
  <2>2. UNCHANGED <<pc, add, listed, stable, unseen>> /\ pc[p] = "drop"
    BY <1>5 DEF Drop, histVars
  <2>3. p # q => pc[q] \notin {"drop", "add"}
    BY <1>0, <2>2 DEF Exclusion
  <2> QED
    BY <1>a, <2>1, <2>2, <2>3
<1>6. ASSUME NEW p \in Procs, Dropped(p) PROVE Plans(q)'
  BY <1>0, <1>a, <1>6 DEF Dropped, TypeOK, procVars, histVars
<1>7. ASSUME NEW p \in Procs, Add(p) PROVE Plans(q)'
  <2>1. PICK n \in add[p] :
          /\ registry[n] = None
          /\ registry' = [registry EXCEPT ![n] = listed[p][n]]
          /\ stable' = [stable EXCEPT ![n] = p \in Syncers /\ listed[p][n] = server[n]]
          /\ unseen' = (unseen \/ p \in Registrars)
          /\ add' = [add EXCEPT ![p] = @ \ {n}]
    BY <1>7 DEF Add
  <2>2. UNCHANGED <<pc, drop, listed>> /\ pc[p] = "add"
    BY <1>7 DEF Add
  <2>3. CASE p \in Registrars
    BY <1>a, <2>1, <2>2, <2>3
  <2>4. CASE p = q
    BY <1>a, <2>1, <2>2, <2>4
  <2>5. CASE p \notin Registrars /\ p # q
    BY <1>0, <2>2, <2>5 DEF Exclusion
  <2> QED
    BY <2>3, <2>4, <2>5
<1>8. ASSUME NEW p \in Procs, NEW ok, Finish(p, ok), UNCHANGED <<registry, unseen, stable>>
      PROVE  Plans(q)'
  BY <1>0, <1>a, <1>8, Finished
<1>9. ASSUME NEW p \in Procs, AddRefused(p) PROVE Plans(q)'
  <2>1. CASE p \in Registrars
    BY <1>8, <1>9, <2>1 DEF AddRefused
  <2>2. CASE p \notin Registrars
    <3>1. PICK n \in add[p] : registry[n] # None /\ add' = [add EXCEPT ![p] = @ \ {n}]
      BY <1>9, <2>2 DEF AddRefused
    <3>2. UNCHANGED <<pc, drop, listed, registry, unseen, stable>> /\ pc[p] = "add"
      BY <1>9, <2>2 DEF AddRefused
    <3> QED
      BY <1>a, <3>1, <3>2
  <2> QED
    BY <2>1, <2>2
<1>10. ASSUME NEW p \in Procs, Return(p) PROVE Plans(q)'
  BY <1>8, <1>10 DEF Return
<1>11. ASSUME UNCHANGED vars PROVE Plans(q)'
  BY <1>a, <1>11 DEF vars, procVars, histVars
<1> QED
  BY <1>1, <1>3, <1>4, <1>5, <1>6, <1>7, <1>9, <1>10, <1>11 DEF Next, Step

\* A reconciliation that ends with success leaves what it listed; from then on
\* only Register, a change or the next reconciliation can make a difference.
LEMMA SettledStep ==
  ASSUME SyncInv, [Next]_vars
  PROVE  SettledInv'
<1> USE Kinds DEF SettledInv, Awaiting
<1>0. TypeOK /\ Exclusion /\ SettledInv /\ \A q \in Syncers : Knows(q) /\ Plans(q)
  BY DEF SyncInv, ListedInv, PlanInv
<1>1. ASSUME NEW m \in Tools, NEW v \in Maybe, ServerChanges(m, v) PROVE SettledInv'
  BY <1>1 DEF ServerChanges
<1>2. ASSUME NEW p \in Procs, ToolListChanged(p) \/ SyncTools(p) PROVE SettledInv'
  <2>1. p \in Syncers /\ pc'[p] = "lock"
    BY <1>0, <1>2 DEF ToolListChanged, SyncTools, Syncers, TypeOK
  <2> QED
    BY <2>1
<1>3. ASSUME NEW p \in Procs, Register(p) PROVE SettledInv'
  BY <1>0, <1>3 DEF Register, TypeOK, serverVars, histVars
<1>4. ASSUME NEW p \in Procs, Lock(p) PROVE SettledInv'
  BY <1>4 DEF Lock
<1>5. ASSUME NEW p \in Syncers, NEW ok, pc[p] \in {"list", "look", "drop", "add"}, Finish(p, ok),
             UNCHANGED <<server, notified, registry, unseen>>,
             ok => pc[p] = "add" /\ add[p] = {}
      PROVE  SettledInv'
  <2>1. p \in Procs /\ clean' = ok /\ (Awaiting' <=> Awaiting)
    BY <1>0, <1>5, Finished
  <2>2. CASE ok
    BY <1>0, <1>5, <2>1, <2>2 DEF Knows, Plans, Read
  <2>3. CASE ~ok
    BY <2>1, <2>3
  <2> QED
    BY <2>2, <2>3
<1>6. ASSUME NEW p \in Procs \ Syncers, NEW ok, Finish(p, ok),
             UNCHANGED <<server, notified, registry, unseen>>
      PROVE  SettledInv'
  <2>1. clean' = clean /\ syncMu' = syncMu /\ (Awaiting' <=> Awaiting)
    BY <1>0, <1>6, Finished
  <2> QED
    BY <1>0, <1>6, <2>1
<1>7. ASSUME NEW p \in Procs, ListFails(p) PROVE SettledInv'
  <2>1. pc[p] = "list" /\ Finish(p, FALSE) /\ UNCHANGED <<server, notified, registry, unseen>>
    BY <1>7 DEF ListFails, serverVars
  <2>2. CASE p \in Syncers
    <3>1. ~clean'
      BY <1>0, <2>1, <2>2, Finished
    <3> QED
      BY <3>1
  <2>3. CASE p \notin Syncers
    BY <1>6, <2>1, <2>3
  <2> QED
    BY <2>2, <2>3
<1>8. ASSUME NEW p \in Procs, ListPage(p) PROVE SettledInv'
  BY <1>0, <1>8 DEF ListPage, TypeOK, serverVars, histVars
<1>9. ASSUME NEW p \in Procs, Look(p) PROVE SettledInv'
  <2>1. /\ UNCHANGED <<server, notified, registry, clean, syncMu>> /\ pc[p] = "look"
        /\ p \notin Syncers => unseen' = unseen
    BY <1>9 DEF Look, serverVars
  <2>2. pc' = [pc EXCEPT ![p] = "add"] \/ pc' = [pc EXCEPT ![p] = "drop"]
    BY <1>9 DEF Look
  <2>3. Awaiting' <=> Awaiting
    BY <1>0, <2>1, <2>2 DEF TypeOK
  <2>4. CASE p \in Syncers
    BY <1>0, <2>1, <2>4 DEF Exclusion, TypeOK
  <2>5. CASE p \notin Syncers
    BY <1>0, <2>1, <2>3, <2>5
  <2> QED
    BY <2>4, <2>5
<1>10. ASSUME NEW p \in Procs, Drop(p) \/ Dropped(p) PROVE SettledInv'
  <2>1. pc[p] = "drop" /\ UNCHANGED syncMu
    BY <1>10 DEF Drop, Dropped
  <2> QED
    BY <1>0, <2>1 DEF Exclusion, TypeOK
<1>11. ASSUME NEW p \in Procs, Add(p) PROVE SettledInv'
  <2>1. pc[p] = "add" /\ UNCHANGED syncMu /\ (p \in Registrars => unseen')
    BY <1>11 DEF Add
  <2> QED
    BY <1>0, <2>1 DEF Exclusion, TypeOK
<1>12. ASSUME NEW p \in Procs, AddRefused(p) PROVE SettledInv'
  <2>1. CASE p \in Registrars
    <3>1. Finish(p, FALSE) /\ UNCHANGED <<server, notified, registry, unseen>>
      BY <1>12, <2>1 DEF AddRefused, serverVars
    <3> QED
      BY <1>6, <2>1, <3>1
  <2>2. CASE p \notin Registrars
    <3>1. pc[p] = "add" /\ UNCHANGED syncMu
      BY <1>12, <2>2 DEF AddRefused
    <3> QED
      BY <1>0, <2>2, <3>1 DEF Exclusion, TypeOK
  <2> QED
    BY <2>1, <2>2
<1>13. ASSUME NEW p \in Procs, Return(p) PROVE SettledInv'
  <2>1. /\ pc[p] = "add" /\ add[p] = {} /\ Finish(p, ~err[p])
        /\ UNCHANGED <<server, notified, registry, unseen>>
    BY <1>13 DEF Return, serverVars
  <2>2. CASE p \in Syncers
    BY <1>5, <2>1, <2>2
  <2>3. CASE p \notin Syncers
    BY <1>6, <2>1, <2>3
  <2> QED
    BY <2>2, <2>3
<1>14. ASSUME UNCHANGED vars PROVE SettledInv'
  BY <1>0, <1>14 DEF vars, serverVars, histVars
<1> QED
  BY <1>1, <1>2, <1>3, <1>4, <1>7, <1>8, <1>9, <1>10, <1>11, <1>12, <1>13, <1>14 DEF Next, Step

\* A stable tool is not dropped, since it is the one that was listed.
LEMMA StableStep ==
  ASSUME SyncInv, [Next]_vars
  PROVE  UnchangedStays'
<1> USE Kinds DEF UnchangedStays
<1>0. TypeOK /\ Exclusion /\ UnchangedStays /\ \A q \in Syncers : Plans(q)
  BY DEF SyncInv, PlanInv
<1>a. stable \in [Tools -> BOOLEAN] /\ registry \in [Tools -> Maybe] /\ server \in [Tools -> Maybe]
  BY <1>0 DEF TypeOK
<1>1. ASSUME NEW m \in Tools, NEW v \in Maybe, ServerChanges(m, v) PROVE UnchangedStays'
  BY <1>0, <1>a, <1>1 DEF ServerChanges
<1>2. ASSUME NEW p \in Procs, Drop(p) PROVE UnchangedStays'
  <2>1. PICK n \in drop[p] : registry' = [registry EXCEPT ![n] = None]
    BY <1>2 DEF Drop, First
  <2>2. pc[p] = "drop" /\ UNCHANGED <<server, stable>>
    BY <1>2 DEF Drop, serverVars, histVars
  <2>3. p \in Syncers /\ ~stable[n]
    BY <1>0, <2>2 DEF Exclusion, Plans
  <2> QED
    BY <1>0, <1>a, <2>1, <2>2, <2>3
<1>3. ASSUME NEW p \in Procs, Add(p) PROVE UnchangedStays'
  <2>1. PICK n \in add[p] :
          /\ registry' = [registry EXCEPT ![n] = listed[p][n]]
          /\ stable' = [stable EXCEPT ![n] = p \in Syncers /\ listed[p][n] = server[n]]
    BY <1>3 DEF Add
  <2>2. pc[p] = "add" /\ UNCHANGED server
    BY <1>3 DEF Add, serverVars
  <2>3. p \in Syncers => listed[p][n] # None
    BY <1>0, <2>2 DEF Plans
  <2> QED
    BY <1>0, <1>a, <2>1, <2>2, <2>3
<1>4. ASSUME UNCHANGED <<server, registry, stable>> PROVE UnchangedStays'
  BY <1>0, <1>4
<1> QED
  BY <1>1, <1>2, <1>3, <1>4
     DEF Next, Step, ToolListChanged, SyncTools, Register, Lock, ListPage, ListFails, Look, Dropped,
         AddRefused, Return, vars, serverVars, procVars, histVars

-----------------------------------------------------------------------------
(* Theorems *)

LEMMA Invariance == Spec => []SyncInv
<1>1. SyncInv /\ [Next]_vars => SyncInv'
  <2> SUFFICES ASSUME SyncInv, [Next]_vars PROVE SyncInv'
    OBVIOUS
  <2>1. TypeOK' /\ Exclusion'
    BY TypeStep, ExclusionStep DEF SyncInv
  <2> QED
    BY <2>1, ListedStep, PlanStep, SettledStep, StableStep DEF SyncInv
<1> QED
  BY SyncInit, <1>1, PTL DEF Spec

\* Every variable of the client, its goroutines and the registry keeps its type.
THEOREM Typing == Spec => []TypeOK
<1>1. SyncInv => TypeOK
  BY DEF SyncInv
<1> QED
  BY Invariance, <1>1, PTL

\* Once everything that began has ended, the last of it with success, the
\* registry holds the server's tools, unless Register came after the look
\* (sync.go:30-70).
THEOREM Reconciled == Spec => []ReconciledMatches
<1>1. SyncInv => ReconciledMatches
  <2> SUFFICES ASSUME SyncInv, Quiet, clean, ~unseen PROVE registry = server
    BY DEF ReconciledMatches
  <2>1. TypeOK /\ Exclusion /\ SettledInv
    BY DEF SyncInv
  <2>2. syncMu = None /\ ~Awaiting
    BY <2>1, Kinds DEF Quiet, Awaiting, Exclusion, TypeOK
  <2>3. \A n \in Tools : registry[n] = server[n]
    BY <2>1, <2>2 DEF SettledInv
  <2> QED
    BY <2>1, <2>3 DEF TypeOK
<1> QED
  BY Invariance, <1>1, PTL

\* A tool the server has had unchanged since a reconciliation registered it
\* stays registered, whatever other reconciliations and Register do meanwhile
\* (sync.go:46-61).
THEOREM Unchanged == Spec => []UnchangedStays
<1>1. SyncInv => UnchangedStays
  BY DEF SyncInv
<1> QED
  BY Invariance, <1>1, PTL
=============================================================================
