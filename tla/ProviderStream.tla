--------------------------- MODULE ProviderStream ---------------------------
(***************************************************************************)
(* What a Provider promises of the channel Stream returns (provider.go):   *)
(* the events of one generation, closed after the event that ends it, or   *)
(* once the context was cancelled.                                         *)
(***************************************************************************)
EXTENDS Sequences

CONSTANT Events

VARIABLES
    got,       \* what the reader of the channel received
    open,      \* the channel is not closed
    cancelled  \* the context is done

vars == <<got, open, cancelled>>

Ends(e) == e.kind \in {"done", "error"}

Init == got = <<>> /\ open = TRUE /\ cancelled = FALSE

\* An event of the same generation, and none after the last one.
Deliver ==
    /\ open
    /\ \E e \in Events :
         /\ \A i \in DOMAIN got : got[i].from = e.from /\ ~Ends(got[i])
         /\ got' = Append(got, e)
    /\ UNCHANGED <<open, cancelled>>

Close ==
    /\ open
    /\ cancelled \/ \E i \in DOMAIN got : Ends(got[i])
    /\ open' = FALSE
    /\ UNCHANGED <<got, cancelled>>

Cancel ==
    /\ cancelled' = TRUE
    /\ UNCHANGED <<got, open>>

Next == Deliver \/ Close \/ Cancel

Spec == Init /\ [][Next]_vars
=============================================================================
