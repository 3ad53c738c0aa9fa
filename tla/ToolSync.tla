------------------------------ MODULE ToolSync ------------------------------
(***************************************************************************)
(* mcp.Client keeping a tool registry in step with its server's tool list  *)
(* (mcp/sync.go, mcp/client.go, tools/registry.go).                        *)
(*                                                                         *)
(* The server changes its list at any time and notifies the client; each   *)
(* notification runs a handler, and the application calls SyncTools or     *)
(* Register.  A reconciliation lists the tools page by page, looks at the  *)
(* registry once, then unregisters and registers one tool after another:   *)
(* every page and every registry call is a step others can come between.   *)
(* Only syncMu keeps reconciliations apart, and Register does not take it. *)
(***************************************************************************)
EXTENDS Naturals, FiniteSets

CONSTANTS
    N,            \* the tools the server may have, in the order it lists them
    Versions,     \* the descriptions and schemas a tool may have
    Handlers,     \* goroutines that run the list_changed handler
    Callers,      \* goroutines that call SyncTools
    Registrars,   \* goroutines that call Register, once after connecting
    MaxChanges,   \* bound: changes of the server's list
    MaxFailures,  \* bound: tools/list requests that fail
    None          \* no such tool, or nobody

ASSUME ToolSyncAssumption ==
    /\ N \in Nat \ {0}
    /\ None \notin Versions
    /\ None \notin Handlers \cup Callers \cup Registrars
    /\ Handlers \cap Callers = {}
    /\ Registrars \cap (Handlers \cup Callers) = {}
    /\ MaxChanges \in Nat
    /\ MaxFailures \in Nat

Tools == 1 .. N
Syncers == Handlers \cup Callers
Procs == Syncers \cup Registrars
Maybe == Versions \cup {None}
NoTools == [n \in Tools |-> None]

VARIABLES
    server,     \* server[n]: tool n on the server, None if it has none
    notified,   \* a list_changed notification waits for its handler
    registry,   \* registry[n]: the registered instance of tool n
    syncMu,     \* the goroutine that holds syncMu
    pc,         \* where each goroutine is
    cursor,     \* cursor[p]: the last tool of the pages p has read
    listed,     \* listed[p]: what those pages said
    drop,       \* drop[p]: names p has still to unregister
    add,        \* add[p]: names p has still to register
    err,        \* err[p]: p was refused a name
    clean,      \* history: the last reconciliation to end succeeded
    unseen,     \* history: Register added a tool no reconciliation saw since
    stable,     \* history: n is registered as the server has had it ever since
    changes,    \* bound: changes so far
    failures    \* bound: failures so far

serverVars == <<server, notified, changes>>
procVars   == <<cursor, listed, drop, add, err>>
histVars   == <<clean, unseen, stable>>
vars == <<serverVars, registry, syncMu, pc, procVars, histVars, failures>>

TypeOK ==
    /\ server \in [Tools -> Maybe]
    /\ notified \in BOOLEAN
    /\ registry \in [Tools -> Maybe]
    /\ syncMu \in Syncers \cup {None}
    /\ pc \in [Procs -> {"idle", "lock", "list", "look", "drop", "add", "done"}]
    /\ cursor \in [Procs -> 0 .. N]
    /\ listed \in [Procs -> [Tools -> Maybe]]
    /\ drop \in [Procs -> SUBSET Tools]
    /\ add \in [Procs -> SUBSET Tools]
    /\ err \in [Procs -> BOOLEAN]
    /\ clean \in BOOLEAN
    /\ unseen \in BOOLEAN
    /\ stable \in [Tools -> BOOLEAN]
    /\ changes \in 0 .. MaxChanges
    /\ failures \in 0 .. MaxFailures

\* connect has returned: there is a session, the registry holds none of the
\* server's tools yet.
Init ==
    /\ server \in [Tools -> Maybe]
    /\ notified = FALSE
    /\ registry = NoTools
    /\ syncMu = None
    /\ pc = [p \in Procs |-> "idle"]
    /\ cursor = [p \in Procs |-> 0]
    /\ listed = [p \in Procs |-> NoTools]
    /\ drop = [p \in Procs |-> {}]
    /\ add = [p \in Procs |-> {}]
    /\ err = [p \in Procs |-> FALSE]
    /\ clean = FALSE
    /\ unseen = FALSE
    /\ stable = [n \in Tools |-> FALSE]
    /\ changes = 0
    /\ failures = 0

-----------------------------------------------------------------------------
(* The server *)

\* A tool appears, goes or changes; the server sends tools/list_changed, which
\* may be merged with one that has not been handled.
ServerChanges(n, v) ==
    /\ changes < MaxChanges
    /\ v # server[n]
    /\ server' = [server EXCEPT ![n] = v]
    /\ notified' = TRUE
    /\ changes' = changes + 1
    /\ stable' = [stable EXCEPT ![n] = FALSE]
    /\ UNCHANGED <<registry, syncMu, pc, procVars, clean, unseen, failures>>

-----------------------------------------------------------------------------
(* A goroutine begins: the handler, SyncTools, Register *)

ToolListChanged(p) ==
    /\ p \in Handlers
    /\ pc[p] = "idle"
    /\ notified
    /\ notified' = FALSE
    /\ pc' = [pc EXCEPT ![p] = "lock"]
    /\ UNCHANGED <<server, changes, registry, syncMu, procVars, histVars, failures>>

SyncTools(p) ==
    /\ p \in Callers
    /\ pc[p] = "idle"
    /\ pc' = [pc EXCEPT ![p] = "lock"]
    /\ UNCHANGED <<serverVars, registry, syncMu, procVars, histVars, failures>>

Register(p) ==
    /\ p \in Registrars
    /\ pc[p] = "idle"
    /\ pc' = [pc EXCEPT ![p] = "list"]
    /\ UNCHANGED <<serverVars, registry, syncMu, procVars, histVars, failures>>

-----------------------------------------------------------------------------
(* The reconciliation *)

Lock(p) ==
    /\ pc[p] = "lock"
    /\ syncMu = None
    /\ syncMu' = p
    /\ pc' = [pc EXCEPT ![p] = "list"]
    /\ UNCHANGED <<serverVars, registry, procVars, histVars, failures>>

\* p is through: it forgets what it read and gives syncMu back if it holds it.
Finish(p, ok) ==
    /\ pc' = [pc EXCEPT ![p] = IF p \in Registrars THEN "done" ELSE "idle"]
    /\ syncMu' = IF syncMu = p THEN None ELSE syncMu
    /\ cursor' = [cursor EXCEPT ![p] = 0]
    /\ listed' = [listed EXCEPT ![p] = NoTools]
    /\ drop' = [drop EXCEPT ![p] = {}]
    /\ add' = [add EXCEPT ![p] = {}]
    /\ err' = [err EXCEPT ![p] = FALSE]
    /\ clean' = IF p \in Syncers THEN ok ELSE clean

\* Mutant of ListPage: syncMu only covers the requests to the server.
ListPageUnlocks(p) ==
    /\ pc[p] = "list"
    /\ \E last \in cursor[p] + 1 .. N :
         /\ cursor' = [cursor EXCEPT ![p] = last]
         /\ listed' = [listed EXCEPT ![p] =
              [n \in Tools |-> IF n \in cursor[p] + 1 .. last THEN server[n] ELSE @[n]]]
         /\ pc' = [pc EXCEPT ![p] = IF last < N THEN "list" ELSE "look"]
         /\ syncMu' = IF last = N THEN None ELSE syncMu
    /\ UNCHANGED <<serverVars, registry, drop, add, err, histVars, failures>>

\* Mutant of ListPage: one page is asked for after the last one.
ListPageBeyond(p) ==
    /\ pc[p] = "list"
    /\ \E last \in cursor[p] + 1 .. N + 1 :
         /\ cursor' = [cursor EXCEPT ![p] = last]
         /\ listed' = [listed EXCEPT ![p] =
              [n \in Tools |-> IF n \in cursor[p] + 1 .. last THEN server[n] ELSE @[n]]]
         /\ pc' = [pc EXCEPT ![p] = IF last <= N THEN "list" ELSE "look"]
    /\ UNCHANGED <<serverVars, registry, syncMu, drop, add, err, histVars, failures>>

\* One page, of any length: the tools after the cursor as they are now.
ListPage(p) ==
    /\ pc[p] = "list"
    /\ \E last \in cursor[p] + 1 .. N :
         /\ cursor' = [cursor EXCEPT ![p] = last]
         /\ listed' = [listed EXCEPT ![p] =
              [n \in Tools |-> IF n \in cursor[p] + 1 .. last THEN server[n] ELSE @[n]]]
         /\ pc' = [pc EXCEPT ![p] = IF last < N THEN "list" ELSE "look"]
    /\ UNCHANGED <<serverVars, registry, syncMu, drop, add, err, histVars, failures>>

\* Mutant of ListFails: the early return leaves syncMu locked.
ListFailsLocked(p) ==
    /\ pc[p] = "list"
    /\ failures < MaxFailures
    /\ failures' = failures + 1
    /\ pc' = [pc EXCEPT ![p] = IF p \in Registrars THEN "done" ELSE "idle"]
    /\ UNCHANGED <<serverVars, registry, syncMu, procVars, histVars>>

\* A page cannot be read: the registry stays as it is, a handler's error is
\* lost.
ListFails(p) ==
    /\ pc[p] = "list"
    /\ failures < MaxFailures
    /\ failures' = failures + 1
    /\ Finish(p, FALSE)
    /\ UNCHANGED <<serverVars, registry, unseen, stable>>

Listed(p) == {n \in Tools : listed[p][n] # None}

\* sameTool: registered, with the description and schema just listed.
Same(p, n) == registry[n] # None /\ registry[n] = listed[p][n]

\* syncReg.List() is read once and compared with the listing: what is gone or
\* changed is to be dropped, what is new or changed is to be added.  Register
\* adds everything.
Look(p) ==
    /\ pc[p] = "look"
    /\ IF p \in Registrars
       THEN /\ add' = [add EXCEPT ![p] = Listed(p)]
            /\ pc' = [pc EXCEPT ![p] = "add"]
            /\ UNCHANGED <<drop, unseen>>
       ELSE /\ drop' = [drop EXCEPT ![p] = {n \in Tools : registry[n] # None /\ ~Same(p, n)}]
            /\ add' = [add EXCEPT ![p] = {n \in Listed(p) : ~Same(p, n)}]
            /\ pc' = [pc EXCEPT ![p] = "drop"]
            /\ unseen' = FALSE
    /\ UNCHANGED <<serverVars, registry, syncMu, cursor, listed, err, clean, stable, failures>>

\* The snapshot is sorted by name.
First(S, n) == n \in S /\ \A m \in S : n <= m

Drop(p) ==
    /\ pc[p] = "drop"
    /\ \E n \in Tools :
         /\ First(drop[p], n)
         /\ drop' = [drop EXCEPT ![p] = @ \ {n}]
         /\ registry' = [registry EXCEPT ![n] = None]
    /\ UNCHANGED <<serverVars, syncMu, pc, cursor, listed, add, err, histVars, failures>>

Dropped(p) ==
    /\ pc[p] = "drop"
    /\ drop[p] = {}
    /\ pc' = [pc EXCEPT ![p] = "add"]
    /\ UNCHANGED <<serverVars, registry, syncMu, procVars, histVars, failures>>

\* MapRegistry.Register succeeds.  The new tools are a map, taken in any order;
\* Register's are a list.
Add(p) ==
    /\ pc[p] = "add"
    /\ \E n \in add[p] :
         /\ p \in Registrars => First(add[p], n)
         /\ registry[n] = None
         /\ registry' = [registry EXCEPT ![n] = listed[p][n]]
         /\ stable' = [stable EXCEPT ![n] = p \in Syncers /\ listed[p][n] = server[n]]
         /\ unseen' = (unseen \/ p \in Registrars)
         /\ add' = [add EXCEPT ![p] = @ \ {n}]
    /\ UNCHANGED <<serverVars, syncMu, pc, cursor, listed, drop, err, clean, failures>>

\* The name is taken.  A reconciliation goes on and reports the error at its
\* end; Register stops there.
AddRefused(p) ==
    /\ pc[p] = "add"
    /\ \E n \in add[p] :
         /\ registry[n] # None
         /\ IF p \in Registrars
            THEN First(add[p], n) /\ Finish(p, FALSE)
            ELSE /\ add' = [add EXCEPT ![p] = @ \ {n}]
                 /\ err' = [err EXCEPT ![p] = TRUE]
                 /\ UNCHANGED <<pc, syncMu, cursor, listed, drop, clean>>
    /\ UNCHANGED <<serverVars, registry, unseen, stable, failures>>

Return(p) ==
    /\ pc[p] = "add"
    /\ add[p] = {}
    /\ Finish(p, ~err[p])
    /\ UNCHANGED <<serverVars, registry, unseen, stable, failures>>

-----------------------------------------------------------------------------
Step(p) ==
    \/ ListPage(p)
    \/ Look(p)
    \/ Drop(p)
    \/ Dropped(p)
    \/ Add(p)
    \/ AddRefused(p)
    \/ Return(p)

Next ==
    \/ \E n \in Tools, v \in Maybe : ServerChanges(n, v)
    \/ \E p \in Procs :
         \/ ToolListChanged(p)
         \/ SyncTools(p)
         \/ Register(p)
         \/ Lock(p)
         \/ ListFails(p)
         \/ Step(p)

\* A notification is handled, requests are answered, and a waiter of a
\* sync.Mutex that is released again and again gets it in the end.
Fairness ==
    /\ \A p \in Procs : WF_vars(Step(p)) /\ SF_vars(Lock(p))
    /\ WF_vars(\E p \in Handlers : ToolListChanged(p))

Spec == Init /\ [][Next]_vars /\ Fairness
-----------------------------------------------------------------------------
(* Properties *)

\* Nothing goes on and nothing waits to be handled.
Quiet ==
    /\ \A p \in Procs : pc[p] \in {"idle", "done"}
    /\ ~notified

\* "WithToolSync keeps reg in sync with the server's tool list": once
\* everything that began has ended, the last of it with success, the registry
\* holds the server's tools -- unless Register, which does not take syncMu,
\* put a tool there after the last reconciliation had looked (sync.go:30).
ReconciledMatches == Quiet /\ clean /\ ~unseen => registry = server

\* "Changed tools are replaced": a tool the server has had unchanged since a
\* reconciliation registered it stays registered, whatever other syncs do
\* meanwhile; the agent never finds it missing (sync.go:46-61).
UnchangedStays ==
    \A n \in Tools : stable[n] => registry[n] = server[n] /\ registry[n] # None

\* SyncTools is "safe to call concurrently" with the handler: it returns.
SyncReturns ==
    \A p \in Callers : pc[p] = "lock" ~> pc[p] = "idle"
=============================================================================
