-------------------------- MODULE Providers_proofs --------------------------
(***************************************************************************)
(* Proofs about the providers: TokenSource, for every number of callers,   *)
(* retries and tokens; and the requests of Wire: their options, for any    *)
(* options, and the reasoning and the calls they return to a provider, for *)
(* any replies, of any length, over any number of turns.                   *)
(***************************************************************************)
EXTENDS TokenSource, Wire, TLAPS, SequenceTheorems, WellFoundedInduction

-----------------------------------------------------------------------------
(* Types and mutual exclusion *)

\* The caller that posts or saves is the one that holds the lock.
Exclusion ==
    \A c \in Callers : call[c].pc \in {"posting", "saving"} <=> lock = c

LEMMA IdleIsCall == Idle \in Call /\ Idle.pc = "idle"
BY TokenSourceAssumption DEF Idle, Call

LEMMA TypeInit == Init => TypeOK /\ Exclusion
<1> SUFFICES ASSUME Init
             PROVE  TypeOK /\ Exclusion
  OBVIOUS
<1>1. store \in Credentials \cup {None} /\ 1 \in Tokens
  BY TokenSourceAssumption DEF Init, Credentials, Tokens
<1>2. \A c \in Callers : call[c] = Idle
  BY DEF Init
<1> QED
  <2>1. call \in [Callers -> Call] /\ \A c \in Callers : call[c].pc = "idle"
    BY <1>2, IdleIsCall DEF Init
  <2>2. Exclusion
    BY <2>1, TokenSourceAssumption DEF Init, Exclusion
  <2>3. login \in Credentials \cup {None} /\ lock \in Callers \cup {None}
    BY DEF Init
  <2>4. issued \in Tokens /\ live \subseteq 1 .. issued /\ losses = {}
    BY <1>1 DEF Init
  <2>5. due \in BOOLEAN
    BY DEF Init
  <2> QED
    BY <1>1, <2>1, <2>2, <2>3, <2>4, <2>5 DEF TypeOK

\* What a step of caller c does to the calls: c's own changes only.
LEMMA TypeTokenStep ==
  ASSUME TypeOK, Exclusion, NEW c \in Callers, Stream(c) \/ TokenStep(c)
  PROVE  TypeOK' /\ Exclusion'
<1> USE TokenSourceAssumption, IdleIsCall
<1>1. /\ call \in [Callers -> Call]
      /\ call[c] \in Call
      /\ call[c].pc \in {"posting", "saving", "sending"} => call[c].cred \in Credentials
      /\ issued \in Tokens /\ issued \in Nat /\ live \subseteq 1 .. issued
  BY DEF TypeOK, Call, Tokens
<1>2. CASE Stream(c)
  BY <1>1, <1>2 DEF Stream, TypeOK, Exclusion, Call, stored, server
<1>3. CASE Token(c)
  BY <1>1, <1>3 DEF Token, Locked, Authorized, Posts, Returns, TypeOK, Exclusion, Call, stored, server
<1>4. CASE ForceRefresh(c)
  BY <1>1, <1>4 DEF ForceRefresh, Locked, Posts, Returns, TypeOK, Exclusion, Call, stored, server
<1>5. CASE Refreshed(c)
  <2>1. PICK rotated \in BOOLEAN, new \in Tokens :
          /\ Grants(call[c].cred.refresh, rotated, new)
          /\ call' = [call EXCEPT ![c].pc = "saving",
                ![c].cred = [access  |-> new,
                             refresh |-> IF rotated THEN new ELSE @.refresh]]
    BY <1>5 DEF Refreshed
  <2>2. call[c].cred.refresh \in Tokens \cup {0}
    BY <1>1, <1>5 DEF Refreshed, Credentials
  <2>3. [access  |-> new,
         refresh |-> IF rotated THEN new ELSE call[c].cred.refresh] \in Credentials
    BY <2>2 DEF Credentials
  <2>4. issued' \in Tokens /\ live' \subseteq 1 .. issued'
    BY <1>1, <2>1 DEF Grants, Tokens
  <2> QED
    <3>1. call' \in [Callers -> Call]
      BY <1>1, <2>1, <2>3 DEF Call
    <3>2. /\ \A d \in Callers \ {c} : call'[d] = call[d]
          /\ call'[c].pc = "saving"
          /\ call'[c].cred \in Credentials
      BY <1>1, <2>1, <2>3 DEF Call
    <3>3. Exclusion'
      BY <1>5, <3>2 DEF Refreshed, Exclusion
    <3>4. None \notin Credentials
      BY DEF Credentials, Tokens
    <3> QED
      BY <1>5, <2>4, <3>1, <3>2, <3>3, <3>4 DEF Refreshed, TypeOK, stored
<1>6. CASE AnswerLost(c)
  <2>1. issued' \in Tokens /\ live' \subseteq 1 .. issued'
    BY <1>1, <1>6 DEF AnswerLost, Grants, Tokens
  <2> QED
    BY <1>1, <1>6, <2>1 DEF AnswerLost, Returns, TypeOK, Exclusion, Call, stored
<1>7. CASE PostFails(c)
  BY <1>1, <1>7 DEF PostFails, Forces, Returns, TypeOK, Exclusion, Call, stored, server
<1>8. CASE Save(c)
  <2>1. call[c].cred \in Credentials /\ call[c].pc = "saving"
    BY <1>1, <1>8 DEF Save
  <2>2. call' \in [Callers -> Call]
    BY <1>1, <1>8, <2>1 DEF Save, Continue, Authorized, Call
  <2>3. /\ \A d \in Callers \ {c} : call'[d] = call[d]
        /\ call'[c].pc \in {"token", "sending"}
        /\ call'[c].pc = "sending" => call'[c].cred # None
    <3>1. CASE call[c].forced
      BY <1>1, <1>8, <3>1 DEF Save, Continue, Call
    <3>2. CASE ~call[c].forced
      BY <1>1, <1>8, <2>1, <3>2 DEF Save, Continue, Authorized, Call, TypeOK
    <3> QED
      BY <3>1, <3>2
  <2>4. Exclusion'
    BY <1>8, <2>1, <2>3 DEF Save, Exclusion
  <2> QED
    BY <1>8, <2>1, <2>2, <2>3, <2>4 DEF Save, TypeOK, server
<1>9. CASE SaveFails(c)
  BY <1>1, <1>9 DEF SaveFails, Returns, TypeOK, Exclusion, Call, stored, server
<1>10. CASE Served(c) \/ StreamFails(c)
  <2>1. /\ call[c].pc = "sending"
        /\ call' = [call EXCEPT ![c] = Idle]
        /\ UNCHANGED <<stored, lock, login, server, losses>>
    BY <1>10 DEF Served, StreamFails, Returns
  <2>2. call' \in [Callers -> Call]
    BY <1>1, <2>1
  <2>3. Exclusion'
    BY <1>1, <2>1 DEF Exclusion
  <2> QED
    BY <1>1, <2>1, <2>2, <2>3 DEF TypeOK, stored, server
<1>11. CASE Unavailable(c)
  <2>1. call[c].tries + 1 \in 0 .. MaxRetries
    BY <1>1, <1>11 DEF Unavailable, Call
  <2>2. call' \in [Callers -> Call]
    BY <1>1, <1>11, <2>1 DEF Unavailable, Call
  <2>3. \A d \in Callers : call'[d].pc = call[d].pc /\ call'[d].cred = call[d].cred
    BY <1>1, <1>11 DEF Unavailable, Call
  <2>4. Exclusion'
    BY <1>11, <2>3 DEF Unavailable, Exclusion
  <2> QED
    BY <1>11, <2>2, <2>3, <2>4 DEF Unavailable, TypeOK, stored, server
<1>12. CASE Unauthorized(c)
  <2>1. call[c].cred.access \in Tokens
    BY <1>1, <1>12 DEF Unauthorized, Credentials
  <2> QED
    BY <1>1, <1>12, <2>1 DEF Unauthorized, Forces, Returns, TypeOK, Exclusion, Call, stored, server
<1> QED
  BY <1>2, <1>3, <1>4, <1>5, <1>6, <1>7, <1>8, <1>9, <1>10, <1>11, <1>12 DEF TokenStep

LEMMA TypeOtherStep ==
  ASSUME TypeOK, Exclusion,
         LoginSaves \/ LoginDecorates \/ LoginSaveFails \/ Age \/ Crash
  PROVE  TypeOK' /\ Exclusion'
<1> USE TokenSourceAssumption, IdleIsCall
<1>1. CASE LoginSaves
  <2>1. issued + 1 \in Tokens /\ issued \in Nat
    BY <1>1 DEF LoginSaves, TypeOK, Tokens
  <2>2. PICK refresh \in {0, issued + 1} :
          /\ login' = [access |-> issued + 1, refresh |-> refresh]
          /\ store' = login'
          /\ live' = live \cup ({refresh} \ {0})
    BY <1>1 DEF LoginSaves
  <2>3. login' \in Credentials
    BY <2>1, <2>2 DEF Credentials
  <2>4. live' \subseteq 1 .. issued'
    BY <1>1, <2>1, <2>2 DEF LoginSaves, TypeOK
  <2> QED
    BY <1>1, <2>1, <2>2, <2>3, <2>4 DEF LoginSaves, TypeOK, Exclusion
<1>2. CASE LoginDecorates
  BY <1>2 DEF LoginDecorates, TypeOK, Exclusion, server
<1>3. CASE LoginSaveFails \/ Age
  BY <1>3 DEF LoginSaveFails, Age, TypeOK, Exclusion, stored, server
<1>4. CASE Crash
  BY <1>4 DEF Crash, TypeOK, Exclusion, stored, server
<1> QED
  BY <1>1, <1>2, <1>3, <1>4

LEMMA TypeStep == TypeOK /\ Exclusion /\ [Next]_vars => TypeOK' /\ Exclusion'
<1>1. TypeOK /\ Exclusion /\ UNCHANGED vars => TypeOK' /\ Exclusion'
  BY DEF vars, TypeOK, Exclusion
<1> QED
  BY <1>1, TypeTokenStep, TypeOtherStep DEF Next

\* The types of the variables, and the bound on the retries.
THEOREM Typing == Spec => [](TypeOK /\ Exclusion)
BY TypeInit, TypeStep, PTL DEF Spec

-----------------------------------------------------------------------------
(* The session *)

\* SessionKept is not inductive: while a refresh posts, the store must still
\* hold a usable token, and while it saves, what it saves must be usable.
SessionInv ==
    losses = {} =>
        /\ (\A c \in Callers : call[c].pc # "saving") => Usable(store)
        /\ \A c \in Callers :
             call[c].pc \in {"posting", "saving"} => Usable(call[c].cred)

\* Tokens that stay accepted keep the credentials usable.
LEMMA UsableKept ==
  ASSUME NEW cred, Usable(cred), live \subseteq live'
  PROVE  Usable(cred)'
BY DEF Usable

LEMMA SessionInit == Init => SessionInv
BY DEF Init, SessionInv, Usable, Idle

\* A refresh ends only the token it presents, and no other caller refreshes.
LEMMA SessionTokenStep ==
  ASSUME TypeOK, Exclusion, SessionInv, NEW c \in Callers, Stream(c) \/ TokenStep(c)
  PROVE  SessionInv'
<1> SUFFICES ASSUME losses' = {}
             PROVE  /\ (\A d \in Callers : call'[d].pc # "saving") => Usable(store)'
                    /\ \A d \in Callers :
                         call'[d].pc \in {"posting", "saving"} => Usable(call[d].cred)'
  BY DEF SessionInv
<1>1. call \in [Callers -> Call] /\ Idle.pc = "idle"
  BY IdleIsCall DEF TypeOK
<1>2. losses = {}
  BY DEF TokenStep, Stream, Token, ForceRefresh, Refreshed, AnswerLost, PostFails, Save,
     SaveFails, Served, Unavailable, StreamFails, Unauthorized
<1>3. \A d \in Callers \ {c} : call'[d] = call[d]
  BY <1>1 DEF TokenStep, Stream, Token, ForceRefresh, Refreshed, AnswerLost, PostFails, Save,
     SaveFails, Served, Unavailable, StreamFails, Unauthorized, Returns, Authorized, Forces,
     Posts, Continue
<1>4. CASE Stream(c) \/ Token(c) \/ ForceRefresh(c) \/ PostFails(c) \/ Served(c)
           \/ Unavailable(c) \/ StreamFails(c) \/ Unauthorized(c)
  <2>1. /\ store' = store /\ live' = live
        /\ call[c].pc # "saving" /\ call'[c].pc # "saving"
    BY <1>1, <1>4 DEF Stream, Token, ForceRefresh, PostFails, Served, Unavailable,
       StreamFails, Unauthorized, Returns, Authorized, Forces, Posts, Call, stored, server
  <2>2. (\A d \in Callers : call'[d].pc # "saving") => Usable(store)'
    BY <1>2, <1>3, <2>1 DEF SessionInv, Usable
  <2>3. call'[c].pc = "posting" => call'[c].cred = store /\ lock = None
    <3>1. CASE Token(c) \/ ForceRefresh(c)
      BY <1>1, <3>1 DEF Token, ForceRefresh, Returns, Authorized, Posts, Locked, Call
    <3>2. CASE Stream(c) \/ PostFails(c) \/ Served(c) \/ Unavailable(c)
               \/ StreamFails(c) \/ Unauthorized(c)
      BY <1>1, <3>2 DEF Stream, PostFails, Served, Unavailable, StreamFails,
         Unauthorized, Returns, Forces, Call
    <3> QED
      BY <1>4, <3>1, <3>2
  <2>4. lock = None => \A d \in Callers : call[d].pc # "saving"
    BY TokenSourceAssumption DEF Exclusion
  <2> QED
    BY <1>2, <1>3, <2>1, <2>2, <2>3, <2>4 DEF SessionInv, Usable
<1>5. CASE Refreshed(c)
  <2>1. /\ store' = store /\ call'[c].pc = "saving" /\ call[c].pc = "posting"
        /\ Usable(call[c].cred)'
    BY <1>1, <1>5 DEF Refreshed, Grants, Usable, Call, stored
  <2>2. \A d \in Callers \ {c} : call[d].pc \notin {"posting", "saving"}
    BY <2>1 DEF Exclusion
  <2> QED
    BY <1>3, <2>1, <2>2
<1>6. CASE AnswerLost(c)
  BY <1>6 DEF AnswerLost
<1>7. CASE Save(c)
  <2>1. /\ call[c].pc = "saving" /\ store' = call[c].cred /\ live' = live
        /\ call'[c].pc \notin {"posting", "saving"}
    BY <1>1, <1>7 DEF Save, Continue, Authorized, Call, server
  <2>2. Usable(store)'
    BY <1>2, <2>1 DEF SessionInv, Usable
  <2> QED
    BY <1>2, <1>3, <2>1, <2>2 DEF SessionInv, Usable
<1>8. CASE SaveFails(c)
  <2>1. /\ call[c].pc = "saving" /\ store' = store /\ live' = live
        /\ call'[c].pc \notin {"posting", "saving"}
        /\ store # None /\ store.refresh = call[c].cred.refresh
    BY <1>1, <1>8 DEF SaveFails, Returns, stored, server
  <2>2. Usable(call[c].cred) /\ call[c].cred # None
    BY <1>2, <2>1 DEF SessionInv, TypeOK
  <2>3. Usable(store)'
    BY <2>1, <2>2 DEF Usable
  <2> QED
    BY <1>2, <1>3, <2>1, <2>3 DEF SessionInv, Usable
<1> QED
  BY <1>4, <1>5, <1>6, <1>7, <1>8 DEF TokenStep

LEMMA SessionOtherStep ==
  ASSUME TypeOK, SessionInv,
         LoginSaves \/ LoginDecorates \/ LoginSaveFails \/ Age \/ Crash
  PROVE  SessionInv'
<1>1. CASE LoginSaves
  <2>1. call' = call /\ losses' = losses /\ live \subseteq live' /\ Usable(store)'
    BY <1>1 DEF LoginSaves, Usable
  <2> QED
    BY <2>1 DEF SessionInv, Usable
<1>2. CASE LoginDecorates
  <2>1. losses' = {} => store' = store
    BY <1>2 DEF LoginDecorates
  <2> QED
    BY <1>2, <2>1 DEF LoginDecorates, SessionInv, Usable, server
<1>3. CASE LoginSaveFails \/ Age
  BY <1>3 DEF LoginSaveFails, Age, SessionInv, Usable, stored, server
<1>4. CASE Crash
  <2>1. losses' = {} => losses = {} /\ \A c \in Callers : call[c].pc # "saving"
    BY <1>4 DEF Crash
  <2>2. \A c \in Callers : call'[c].pc = "idle"
    BY <1>4, IdleIsCall DEF Crash
  <2>3. store' = store /\ live' = live
    BY <1>4 DEF Crash, stored, server
  <2> QED
    BY <2>1, <2>2, <2>3 DEF SessionInv, Usable
<1> QED
  BY <1>1, <1>2, <1>3, <1>4

\* A session is lost only with an answer, a save or a login.
THEOREM Session == Spec => []SessionKept
<1>1. SessionInv /\ UNCHANGED vars => SessionInv'
  BY DEF vars, SessionInv, Usable
<1>2. TypeOK /\ Exclusion /\ SessionInv /\ [Next]_vars => SessionInv'
  BY <1>1, SessionTokenStep, SessionOtherStep DEF Next
<1>3. Exclusion /\ SessionInv => SessionKept
  BY TokenSourceAssumption DEF Exclusion, SessionInv, SessionKept
<1> QED
  BY SessionInit, <1>2, <1>3, Typing, PTL DEF Spec

-----------------------------------------------------------------------------
(* The retry after a 401 *)

\* The tokens in use were issued, and a forced refresh got a newer one than the
\* refused one.
IssuedInv ==
    /\ store # None => store.access <= issued
    /\ login # None => login.access <= issued
    /\ \A c \in Callers :
         /\ call[c].refused <= issued
         /\ call[c].cred # None => call[c].cred.access <= issued
         /\ call[c].pc = "saving" => call[c].cred.access > call[c].refused
         /\ call[c].forced \/ call[c].pc = "idle" => call[c].attempt = 1

\* In the second attempt the store, and every refresh about to be saved, is
\* newer than the refused token, until a login overwrites the store.
RetryInv ==
    "login" \notin losses =>
        \A c \in Callers : call[c].attempt = 2 =>
            /\ call[c].pc = "token" =>
                 /\ store # None /\ store.access > call[c].refused
                 /\ \A d \in Callers :
                      call[d].pc = "saving" => call[d].cred.access > call[c].refused
            /\ call[c].pc = "sending" => call[c].cred.access > call[c].refused
            /\ call[c].pc # "forcing"

LEMMA RetryInit == Init => IssuedInv /\ RetryInv
<1> SUFFICES ASSUME Init
             PROVE  IssuedInv /\ RetryInv
  OBVIOUS
<1>1. \A c \in Callers : call[c] = Idle
  BY DEF Init
<1>2. store # None => store.access = 1
  BY DEF Init
<1>3. Idle.refused = 0 /\ Idle.cred = None /\ Idle.pc = "idle" /\ Idle.attempt = 1
  BY DEF Idle
<1>4. ~Idle.forced
  BY DEF Idle
<1> QED
  BY <1>1, <1>2, <1>3, <1>4 DEF Init, IssuedInv, RetryInv

\* What RetryInv says of one caller whose second attempt runs.
RetryOf(c) ==
    call[c].attempt = 2 =>
        /\ call[c].pc = "token" =>
             /\ store # None /\ store.access > call[c].refused
             /\ \A d \in Callers :
                  call[d].pc = "saving" => call[d].cred.access > call[c].refused
        /\ call[c].pc = "sending" => call[c].cred.access > call[c].refused
        /\ call[c].pc # "forcing"

LEMMA IssuedTokenStep ==
  ASSUME TypeOK, IssuedInv, NEW c \in Callers, Stream(c) \/ TokenStep(c)
  PROVE  IssuedInv' /\ (\A d \in Callers \ {c} : call'[d] = call[d])
<1>1. /\ call \in [Callers -> Call] /\ call[c] \in Call
      /\ issued \in Nat
      /\ store # None => store.access \in Nat
      /\ login # None => login.access \in Nat
      /\ \A d \in Callers :
           /\ call[d].refused \in Nat
           /\ call[d].cred # None => call[d].cred.access \in Nat
      /\ call[c].pc \in {"posting", "saving", "sending"} => call[c].cred # None
  BY DEF TypeOK, Call, Credentials, Tokens
<1>2. \A d \in Callers \ {c} : call'[d] = call[d]
  BY <1>1 DEF TokenStep, Stream, Token, ForceRefresh, Refreshed, AnswerLost, PostFails, Save,
     SaveFails, Served, Unavailable, StreamFails, Unauthorized, Returns, Authorized, Forces,
     Posts, Continue
<1>3. /\ Idle.refused = 0 /\ Idle.cred = None /\ Idle.pc = "idle" /\ Idle.attempt = 1
      /\ ~Idle.forced
  BY DEF Idle
<1>4. SUFFICES /\ issued' \in Nat /\ issued' >= issued
               /\ store' # None => store'.access <= issued'
               /\ login' = login
               /\ call'[c].refused <= issued'
               /\ call'[c].cred # None => call'[c].cred.access <= issued'
               /\ call'[c].pc = "saving" => call'[c].cred.access > call'[c].refused
               /\ call'[c].forced \/ call'[c].pc = "idle" => call'[c].attempt = 1
  <2>1. /\ store' # None => store'.access <= issued'
        /\ login' # None => login'.access <= issued'
    BY <1>1, <1>4 DEF IssuedInv
  <2>2. ASSUME NEW d \in Callers
        PROVE  /\ call'[d].refused <= issued'
               /\ call'[d].cred # None => call'[d].cred.access <= issued'
               /\ call'[d].pc = "saving" => call'[d].cred.access > call'[d].refused
    BY <1>1, <1>2, <1>4 DEF IssuedInv
  <2>3. \A d \in Callers :
          call'[d].forced \/ call'[d].pc = "idle" => call'[d].attempt = 1
    BY <1>2, <1>4 DEF IssuedInv
  <2> QED
    BY <1>2, <2>1, <2>2, <2>3 DEF IssuedInv
<1>5. CASE call' = [call EXCEPT ![c] = Idle] /\ store' = store /\ login' = login
           /\ issued' \in {issued, issued + 1}
  BY <1>1, <1>3, <1>5 DEF IssuedInv
<1>6. CASE Stream(c)
  BY <1>1, <1>6 DEF Stream, IssuedInv, Call, stored, server
<1>7. CASE Token(c)
  BY <1>1, <1>5, <1>7 DEF Token, Authorized, Posts, Returns, IssuedInv, Call, stored, server
<1>8. CASE ForceRefresh(c)
  BY <1>1, <1>5, <1>8 DEF ForceRefresh, Posts, Returns, IssuedInv, Call, stored, server
<1>9. CASE Refreshed(c)
  BY <1>1, <1>9 DEF Refreshed, Grants, IssuedInv, Call, stored
<1>10. CASE AnswerLost(c)
  BY <1>5, <1>10 DEF AnswerLost, Grants, Returns, stored
<1>11. CASE PostFails(c)
  BY <1>1, <1>5, <1>11 DEF PostFails, Forces, Returns, IssuedInv, Call, stored, server
<1>12. CASE Save(c)
  BY <1>1, <1>12 DEF Save, Continue, Authorized, IssuedInv, Call, server
<1>13. CASE SaveFails(c) \/ Served(c) \/ StreamFails(c)
  BY <1>5, <1>13 DEF SaveFails, Served, StreamFails, Returns, stored, server
<1>14. CASE Unavailable(c)
  BY <1>1, <1>14 DEF Unavailable, IssuedInv, Call, stored, server
<1>15. CASE Unauthorized(c)
  BY <1>1, <1>5, <1>15 DEF Unauthorized, Forces, Returns, IssuedInv, Call, stored, server
<1> QED
  BY <1>6, <1>7, <1>8, <1>9, <1>10, <1>11, <1>12, <1>13, <1>14, <1>15 DEF TokenStep

LEMMA IssuedOtherStep ==
  ASSUME TypeOK, IssuedInv,
         LoginSaves \/ LoginDecorates \/ LoginSaveFails \/ Age \/ Crash
  PROVE  IssuedInv'
<1>1. /\ issued \in Nat
      /\ store # None => store.access \in Nat
      /\ login # None => login.access \in Nat
      /\ \A d \in Callers :
           /\ call[d].refused \in Nat
           /\ call[d].cred # None => call[d].cred.access \in Nat
  BY DEF TypeOK, Call, Credentials, Tokens
<1>2. CASE LoginSaves
  <2>1. /\ issued' = issued + 1 /\ call' = call
        /\ store' = login' /\ login'.access = issued + 1
    BY <1>2 DEF LoginSaves
  <2> QED
    BY <1>1, <2>1 DEF IssuedInv
<1>3. CASE LoginDecorates
  BY <1>3 DEF LoginDecorates, IssuedInv, server
<1>4. CASE LoginSaveFails \/ Age
  BY <1>4 DEF LoginSaveFails, Age, IssuedInv, stored, server
<1>5. CASE Crash
  <2>1. \A d \in Callers : /\ call'[d].refused = 0 /\ call'[d].cred = None
                           /\ call'[d].pc = "idle" /\ call'[d].attempt = 1
    BY <1>5 DEF Crash, Idle
  <2>2. store' = store /\ issued' = issued /\ login' = None
    BY <1>5 DEF Crash, stored, server
  <2> QED
    BY <1>1, <2>1, <2>2 DEF IssuedInv
<1> QED
  BY <1>2, <1>3, <1>4, <1>5

LEMMA RetryTokenStep ==
  ASSUME TypeOK, Exclusion, IssuedInv, RetryInv, IssuedInv',
         NEW c \in Callers, Stream(c) \/ TokenStep(c)
  PROVE  RetryInv'
<1> SUFFICES ASSUME "login" \notin losses', NEW r \in Callers
             PROVE  RetryOf(r)'
  BY DEF RetryInv, RetryOf
<1>1. /\ call \in [Callers -> Call] /\ call[c] \in Call
      /\ issued \in Nat
      /\ \A d \in Callers : call[d].refused \in Nat
  BY DEF TypeOK, Call, Tokens
<1>2. \A d \in Callers \ {c} : call'[d] = call[d]
  BY IssuedTokenStep
<1>3. "login" \notin losses
  BY DEF TokenStep, Stream, Token, ForceRefresh, Refreshed, AnswerLost, PostFails, Save,
     SaveFails, Served, Unavailable, StreamFails, Unauthorized
<1>4. RetryOf(r) /\ RetryOf(c)
  BY <1>3 DEF RetryInv, RetryOf
<1>5. Idle.pc = "idle" /\ Idle.attempt = 1
  BY DEF Idle
<1>6. CASE Stream(c) \/ Token(c) \/ ForceRefresh(c) \/ AnswerLost(c) \/ PostFails(c)
           \/ SaveFails(c) \/ Served(c) \/ Unavailable(c) \/ StreamFails(c) \/ Unauthorized(c)
  <2>1. store' = store /\ call'[c].pc \notin {"saving"}
    <3>1. CASE Stream(c) \/ Token(c) \/ ForceRefresh(c) \/ Unavailable(c)
      BY <1>1, <1>5, <3>1 DEF Stream, Token, ForceRefresh, Unavailable, Returns,
         Authorized, Posts, Call, stored
    <3>2. CASE AnswerLost(c) \/ SaveFails(c) \/ Served(c) \/ StreamFails(c)
      <4>1. call' = [call EXCEPT ![c] = Idle] /\ store' = store
        BY <3>2 DEF AnswerLost, SaveFails, Served, StreamFails, Returns, stored
      <4> QED
        BY <1>1, <1>5, <4>1
    <3>3. CASE PostFails(c) \/ Unauthorized(c)
      BY <1>1, <1>5, <3>3 DEF PostFails, Unauthorized, Returns, Forces, Call, stored
    <3> QED
      BY <1>6, <3>1, <3>2, <3>3
  <2>2. CASE r # c
    BY <1>2, <1>4, <2>1, <2>2 DEF RetryOf
  <2>3. /\ call'[c].attempt = 2 => call[c].attempt = 2 /\ call'[c].pc \notin {"token", "forcing"}
        /\ call'[c].attempt = 2 /\ call'[c].pc = "sending"
             => /\ call'[c].refused = call[c].refused
                /\ \/ call[c].pc = "sending" /\ call'[c].cred = call[c].cred
                   \/ call[c].pc = "token" /\ call'[c].cred = store
    <3>1. CASE AnswerLost(c) \/ SaveFails(c) \/ Served(c) \/ StreamFails(c)
      <4>1. call' = [call EXCEPT ![c] = Idle]
        BY <3>1 DEF AnswerLost, SaveFails, Served, StreamFails, Returns
      <4> QED
        BY <1>1, <1>5, <4>1
    <3>4. CASE ForceRefresh(c) \/ Unavailable(c)
      BY <1>1, <1>5, <3>4 DEF ForceRefresh, Unavailable, Returns, Posts, Call
    <3>5. CASE Stream(c)
      BY <1>1, <3>5 DEF Stream, Call, IssuedInv
    <3>2. CASE Token(c)
      BY <1>1, <1>5, <3>2 DEF Token, Returns, Authorized, Posts, Call
    <3>3. CASE PostFails(c) \/ Unauthorized(c)
      BY <1>1, <1>5, <3>3 DEF PostFails, Unauthorized, Returns, Forces, Call
    <3> QED
      BY <1>6, <3>1, <3>2, <3>3, <3>4, <3>5
  <2> QED
    BY <1>4, <2>1, <2>2, <2>3 DEF RetryOf
<1>7. CASE Refreshed(c)
  <2>1. /\ store' = store /\ call'[c].pc = "saving"
        /\ call'[c].cred.access = issued + 1
    BY <1>1, <1>7 DEF Refreshed, Grants, Call, stored
  <2>2. \A d \in Callers : call[d].refused <= issued
    BY DEF IssuedInv
  <2>3. \A d \in Callers : call'[c].cred.access > call[d].refused
    BY <1>1, <2>1, <2>2
  <2> QED
    BY <1>2, <1>4, <2>1, <2>3 DEF RetryOf
<1>8. CASE Save(c)
  <2>1. /\ store' = call[c].cred /\ call[c].pc = "saving" /\ store' # None
        /\ call'[c].pc # "saving"
    BY <1>1, <1>8 DEF Save, Continue, Authorized, Call, TypeOK
  <2>2. \A d \in Callers \ {c} : call'[d].pc # "saving"
    BY <1>2, <2>1 DEF Exclusion
  <2>3. CASE r # c
    BY <1>2, <1>4, <2>1, <2>2, <2>3 DEF RetryOf
  <2>4. call[c].cred.access > call[c].refused
    BY <2>1 DEF IssuedInv
  <2>5. /\ call'[c].refused = call[c].refused
        /\ call'[c].pc \in {"token", "sending"}
        /\ call'[c].pc = "sending" => call'[c].cred = call[c].cred
    <3>1. CASE call[c].forced
      BY <1>1, <1>8, <3>1 DEF Save, Continue, Call
    <3>2. CASE ~call[c].forced
      BY <1>1, <1>8, <3>2 DEF Save, Continue, Authorized, Call
    <3> QED
      BY <3>1, <3>2
  <2> QED
    BY <2>1, <2>2, <2>3, <2>4, <2>5 DEF RetryOf
<1> QED
  BY <1>6, <1>7, <1>8 DEF TokenStep

LEMMA RetryOtherStep ==
  ASSUME TypeOK, IssuedInv, RetryInv,
         LoginSaves \/ LoginDecorates \/ LoginSaveFails \/ Age \/ Crash
  PROVE  RetryInv'
<1>1. issued \in Nat /\ \A d \in Callers : call[d].refused \in Nat
  BY DEF TypeOK, Call, Tokens
<1>2. CASE LoginSaves
  <2>1. /\ call' = call /\ losses' = losses
        /\ store' = login' /\ login'.access = issued + 1 /\ login' # None
    <3>1. PICK refresh \in {0, issued + 1} :
            /\ login' = [access |-> issued + 1, refresh |-> refresh]
            /\ store' = login'
      BY <1>2 DEF LoginSaves
    <3>2. login' \in [access : Nat, refresh : Nat]
      BY <1>1, <3>1
    <3> QED
      BY <1>2, <3>1, <3>2, TokenSourceAssumption DEF LoginSaves
  <2>2. \A d \in Callers : call[d].refused <= issued
    BY DEF IssuedInv
  <2>3. \A d \in Callers : store'.access > call[d].refused
    BY <1>1, <2>1, <2>2
  <2> QED
    BY <2>1, <2>3 DEF RetryInv
<1>3. CASE LoginDecorates
  <2>1. call' = call /\ ("login" \notin losses' => store' = store /\ "login" \notin losses)
    BY <1>3 DEF LoginDecorates
  <2> QED
    BY <2>1 DEF RetryInv
<1>4. CASE LoginSaveFails \/ Age
  BY <1>4 DEF LoginSaveFails, Age, RetryInv, stored
<1>5. CASE Crash
  BY <1>5 DEF Crash, RetryInv, Idle
<1> QED
  BY <1>2, <1>3, <1>4, <1>5

\* After a forced refresh a Stream presents a newer token than the refused one.
THEOREM Retry == Spec => []RetryUsesNewerToken
<1>1. TypeOK /\ Exclusion /\ IssuedInv /\ RetryInv /\ [Next]_vars => IssuedInv' /\ RetryInv'
  <2>1. IssuedInv /\ RetryInv /\ UNCHANGED vars => IssuedInv' /\ RetryInv'
    BY DEF vars, IssuedInv, RetryInv
  <2> QED
    BY <2>1, IssuedTokenStep, IssuedOtherStep, RetryTokenStep, RetryOtherStep DEF Next
<1>2. RetryInv => RetryUsesNewerToken
  BY DEF RetryInv, RetryUsesNewerToken
<1> QED
  BY RetryInit, <1>1, <1>2, Typing, PTL DEF Spec

-----------------------------------------------------------------------------
(* The options of a request *)

\* thinkingBudgets has a budget for every level of the scale.
LEMMA Budgets ==
  ASSUME NEW e \in Efforts, e # "", e # "custom"
  PROVE  ThinkingBudget[e] \in Nat
<1>1. e \in {"none", "minimal", "low", "medium", "high", "xhigh", "max"}
  BY DEF Efforts
<1>2. CASE e = "none"
  BY <1>2 DEF ThinkingBudget
<1>3. CASE e = "minimal"
  BY <1>3 DEF ThinkingBudget
<1>4. CASE e = "low"
  BY <1>4 DEF ThinkingBudget
<1>5. CASE e = "medium"
  BY <1>5 DEF ThinkingBudget
<1>6. CASE e = "high"
  BY <1>6 DEF ThinkingBudget
<1>7. CASE e = "xhigh"
  BY <1>7 DEF ThinkingBudget
<1>8. CASE e = "max"
  BY <1>8 DEF ThinkingBudget
<1> QED
  BY <1>1, <1>2, <1>3, <1>4, <1>5, <1>6, <1>7, <1>8

\* The arithmetic of applyThinking: the budget stays below max_tokens.
LEMMA BelowMax ==
  ASSUME NEW full \in Nat, NEW max \in Nat \ {0}, NEW pinned \in BOOLEAN
  PROVE  /\ (IF full >= max /\ pinned THEN max - 1 ELSE full) \in Int
         /\ (IF full >= max /\ pinned THEN max - 1 ELSE full)
              < (IF full >= max /\ ~pinned THEN full + max ELSE max)
<1>1. CASE full >= max /\ pinned
  BY <1>1
<1>2. CASE full >= max /\ ~pinned
  BY <1>2
<1>3. CASE ~ (full >= max)
  BY <1>3
<1> QED
  BY <1>1, <1>2, <1>3

\* What OptionsHonoured says of one request.
Honours(d, o, body) ==
    \/ body.refused
    \/ /\ body.format = o.format /\ body.choice = o.choice /\ body.stops = o.stops
       /\ (body.effort = "") <=> (o.effort = "")
       /\ o.max > 0 => body.max = o.max
       /\ (d = "anthropic" /\ o.effort \notin {"", "none"})
            => body.budget >= MinThinkingBudget /\ body.budget < body.max

\* What Plain copies.
LEMMA PlainFields ==
  ASSUME NEW o \in OptionRecords
  PROVE  /\ Plain(o).effort = o.effort /\ Plain(o).budget = 0 /\ Plain(o).format = o.format
         /\ Plain(o).choice = o.choice /\ Plain(o).stops = o.stops /\ Plain(o).max = o.max
         /\ Plain(o).refused = FALSE
BY DEF Plain

LEMMA OptionFields ==
  ASSUME NEW o \in OptionRecords
  PROVE  o.effort \in Efforts /\ o.max \in Nat /\ o.default \in Nat
BY DEF OptionRecords

\* The arithmetic of applyThinking.
LEMMA AnthropicHonours ==
  ASSUME NEW o \in OptionRecords
  PROVE  Honours("anthropic", o, AnthropicBody(o))
<1> DEFINE pinned == o.max > 0 \/ o.default > 0
           max == IF o.max > 0 THEN o.max
                    ELSE IF o.default > 0 THEN o.default ELSE DefaultMaxTokens
           full == ThinkingBudget[o.effort]
           budget == IF full >= max /\ pinned THEN max - 1 ELSE full
           thinks == o.effort \notin {"", "none"}
           limit == IF thinks /\ full >= max /\ ~pinned THEN full + max ELSE max
           body == [Plain(o) EXCEPT !.budget = IF thinks THEN budget ELSE 0, !.max = limit]
<1>1. CASE \/ o.format \in {"json", "other"}
           \/ thinks /\ ~Canonical(o.effort)
           \/ thinks /\ budget < MinThinkingBudget
  BY <1>1 DEF AnthropicBody, Honours, Refused
<1>2. CASE ~ \/ o.format \in {"json", "other"}
             \/ thinks /\ ~Canonical(o.effort)
             \/ thinks /\ budget < MinThinkingBudget
  <2>1. AnthropicBody(o) = body
    BY <1>2 DEF AnthropicBody
  <2>2. /\ body.format = o.format /\ body.choice = o.choice /\ body.stops = o.stops
        /\ body.effort = o.effort /\ body.max = limit
        /\ body.budget = IF thinks THEN budget ELSE 0
    BY DEF Plain
  <2>3. max \in Nat /\ max > 0 /\ (o.max > 0 => max = o.max /\ pinned)
    BY OptionFields DEF DefaultMaxTokens
  <2>4. o.max > 0 => limit = o.max
    BY <2>3
  <2>5. ASSUME thinks
        PROVE  budget >= MinThinkingBudget /\ budget < limit
    <3>1. full \in Nat
      BY <1>2, <2>5, Budgets, OptionFields DEF Canonical
    <3>2. budget \in Int /\ budget < IF full >= max /\ ~pinned THEN full + max ELSE max
      <4> HIDE DEF full, max
      <4> QED
        BY <2>3, <3>1, BelowMax
    <3>3. budget < limit
      BY <2>5, <3>2
    <3>4. ~ (budget < MinThinkingBudget)
      BY <1>2, <2>5
    <3> HIDE DEF budget, limit
    <3> QED
      BY <3>2, <3>3, <3>4 DEF MinThinkingBudget
  <2> HIDE DEF body, budget, limit, thinks
  <2> USE DEF thinks
  <2> QED
    BY <2>1, <2>2, <2>4, <2>5 DEF Honours
<1> QED
  BY <1>1, <1>2

\* Each dialect's request honours the options or is refused.
LEMMA BodyHonours ==
  ASSUME NEW d \in DialectNames, NEW o \in OptionRecords
  PROVE  Honours(d, o, Body(d, o))
<1>1. Honours("chat", o, ChatBody(o)) /\ Honours("responses", o, ResponsesBody(o)) /\ Honours("gemini", o, GeminiBody(o))
  BY PlainFields DEF Honours, ChatBody, ResponsesBody, GeminiBody, Refused
<1>2. Honours("ollama", o, OllamaBody(o))
  <2>1. CASE o.choice # "" \/ o.format = "other"
    BY <2>1 DEF Honours, OllamaBody, Refused
  <2>2. CASE ~ (o.choice # "" \/ o.format = "other")
    BY <2>2 DEF Honours, OllamaBody, Plain
  <2> QED
    BY <2>1, <2>2
<1> QED
  BY <1>1, <1>2, AnthropicHonours DEF Body, DialectNames

\* A request that was built is the body of some options, for the provider asked.
AskedInv ==
    asked # <<>> => /\ dialect \in DialectNames
                    /\ \E o \in OptionRecords : asked = <<o, Body(dialect, o)>>

\* A body is built once, and is gone when the request was sent or tried again.
LEMMA AskedNext == AskedInv /\ [WireNext]_wireVars => AskedInv'
<1> SUFFICES ASSUME AskedInv, [WireNext]_wireVars PROVE AskedInv'
  OBVIOUS
<1>1. ASSUME NEW d \in DialectNames, NEW o \in UNION {Options[t] : t \in Turns \cap {turn}}, Ask(d, o)
      PROVE  AskedInv'
  <2>1. o \in OptionRecords
    BY <1>1, WireAssumption DEF Turns
  <2> QED
    BY <1>1, <2>1 DEF Ask, AskedInv
<1>2. CASE asked' = <<>> \/ UNCHANGED <<dialect, asked>>
  BY <1>2 DEF AskedInv
<1>3. \/ \E d \in DialectNames, o \in UNION {Options[t] : t \in Turns \cap {turn}} : Ask(d, o)
      \/ asked' = <<>> \/ UNCHANGED <<dialect, asked>>
  BY DEF WireNext, wireVars, AttemptFails, AskFails, Answer, ReadChunk, ReadEnd, ReadFails, EndsEarly,
     Deliver, DeliverError, Close, Cancel
<1> QED
  BY <1>1, <1>2, <1>3

\* Whatever a request is asked for, with any limits, of any dialect: it is in the
\* body that the client sends (the request builders of the five clients, applyThinking),
\* or the request is refused.
THEOREM OptionsKept == WireSpec => []OptionsHonoured
<1>1. WireInit => AskedInv
  BY DEF WireInit, AskedInv
<1>2. AskedInv => OptionsHonoured
  <2> SUFFICES ASSUME AskedInv, asked # <<>> PROVE Honours(dialect, asked[1], asked[2])
    BY DEF OptionsHonoured, Honours
  <2>1. PICK o \in OptionRecords : dialect \in DialectNames /\ asked = <<o, Body(dialect, o)>>
    BY DEF AskedInv
  <2>2. asked[1] = o /\ asked[2] = Body(dialect, o)
    BY <2>1
  <2> QED
    BY <2>1, <2>2, BodyHonours
<1> QED
  BY <1>1, <1>2, AskedNext, PTL DEF WireSpec
-----------------------------------------------------------------------------
(* Sequences: FlattenSeq, and the maps the encoders are written with      *)

\* Induction on the natural numbers, over a set.
LEMMA Upward ==
  ASSUME NEW T, 0 \in T, \A n \in Nat : n \in T => n + 1 \in T
  PROVE  Nat \subseteq T
<1> DEFINE U == Nat \ T
<1> SUFFICES ASSUME U # {} PROVE FALSE
  OBVIOUS
<1>1. PICK x \in U : \A y \in U : ~ (<<y, x>> \in OpToRel(<, Nat))
  BY NatLessThanWellFounded, WFMin
<1>2. \A y \in U : ~ (y < x)
  BY <1>1 DEF OpToRel
<1>3. x # 0 /\ x \in Nat
  OBVIOUS
<1>4. x - 1 \in Nat /\ x - 1 < x /\ x - 1 + 1 = x
  BY <1>3
<1>5. x - 1 \in T
  BY <1>2, <1>4
<1> QED
  BY <1>4, <1>5

\* FlattenSeq is well defined: its recursive function exists.
LEMMA FlattenExists ==
  ASSUME NEW s, NEW n \in Nat
  PROVE  \E f : f = [i \in 1 .. n |-> IF i = 1 THEN s[i] ELSE f[i - 1] \o s[i]]
<1> DEFINE F(f, i) == IF i = 1 THEN s[i] ELSE f[i - 1] \o s[i]
           T == {k \in Nat : \E f : f = [i \in 1 .. k |-> F(f, i)]}
<1>1. 0 \in T
  <2> DEFINE f == [i \in 1 .. 0 |-> s[i]]
  <2>1. f = [i \in 1 .. 0 |-> F(f, i)]
    OBVIOUS
  <2> HIDE DEF f
  <2> QED
    BY <2>1
<1>2. ASSUME NEW k \in Nat, k \in T PROVE k + 1 \in T
  <2>1. PICK f : f = [i \in 1 .. k |-> F(f, i)]
    BY <1>2
  <2> DEFINE g == [i \in 1 .. k + 1 |-> IF i \in 1 .. k THEN f[i] ELSE F(f, i)]
  <2>2. ASSUME NEW i \in 1 .. k + 1 PROVE g[i] = F(g, i)
    <3>1. CASE i = 1
      BY <2>1, <3>1
    <3>2. CASE i # 1
      <4>1. i - 1 \in 1 .. k /\ i - 1 \in 1 .. k + 1
        BY <3>2
      <4>2. g[i - 1] = f[i - 1]
        BY <4>1
      <4>3. g[i] = f[i - 1] \o s[i]
        BY <2>1, <3>2, <4>1
      <4> QED
        BY <3>2, <4>2, <4>3
    <3> QED
      BY <3>1, <3>2
  <2>3. g = [i \in 1 .. k + 1 |-> F(g, i)]
    BY <2>2
  <2> HIDE DEF g
  <2>4. \E h : h = [i \in 1 .. k + 1 |-> F(h, i)]
    BY <2>3, Zenon
  <2>5. k + 1 \in Nat
    OBVIOUS
  <2> QED
    BY <2>4, <2>5, Zenon
<1>3. n \in T
  BY <1>1, <1>2, Upward
<1> QED
  BY <1>3

\* The partial concatenations of a sequence of sequences, the last of which FlattenSeq is.
LEMMA FlattenEquation ==
  ASSUME NEW s, Len(s) \in Nat, Len(s) # 0
  PROVE  \E f : /\ FlattenSeq(s) = f[Len(s)]
                /\ f[1] = s[1]
                /\ \A i \in 2 .. Len(s) : f[i] = f[i - 1] \o s[i]
<1> DEFINE F(f, i) == IF i = 1 THEN s[i] ELSE f[i - 1] \o s[i]
           g == CHOOSE f : f = [i \in 1 .. Len(s) |-> F(f, i)]
<1>1. g = [i \in 1 .. Len(s) |-> F(g, i)]
  <2>1. \E f : f = [i \in 1 .. Len(s) |-> F(f, i)]
    BY FlattenExists
  <2> QED
    BY <2>1
<1>2. FlattenSeq(s) = g[Len(s)]
  BY DEF FlattenSeq
<1> HIDE DEF g
<1>3. \A i \in 1 .. Len(s) : g[i] = F(g, i)
  BY <1>1, Zenon
<1>4. 1 \in 1 .. Len(s) /\ \A i \in 2 .. Len(s) : i \in 1 .. Len(s) /\ i # 1
  OBVIOUS
<1>5. g[1] = s[1] /\ \A i \in 2 .. Len(s) : g[i] = g[i - 1] \o s[i]
  BY <1>3, <1>4
<1> QED
  BY <1>2, <1>5

\* Flattening nothing.
LEMMA FlattenEmpty == FlattenSeq(<<>>) = <<>>
BY DEF FlattenSeq

\* A flattened sequence is made of elements of the pieces.
LEMMA FlattenType ==
  ASSUME NEW X, NEW s \in Seq(Seq(X))
  PROVE  FlattenSeq(s) \in Seq(X)
<1>1. CASE s = <<>>
  BY <1>1, FlattenEmpty, EmptySeq
<1>2. CASE s # <<>>
  <2>1. Len(s) \in Nat /\ Len(s) # 0 /\ \A i \in 1 .. Len(s) : s[i] \in Seq(X)
    BY <1>2, LenProperties, EmptySeq, ElementOfSeq
  <2>2. PICK f : /\ FlattenSeq(s) = f[Len(s)]
                 /\ f[1] = s[1]
                 /\ \A i \in 2 .. Len(s) : f[i] = f[i - 1] \o s[i]
    BY <2>1, FlattenEquation
  <2> DEFINE T == {k \in Nat : k + 1 <= Len(s) => f[k + 1] \in Seq(X)}
  <2>3. 0 \in T
    BY <2>1, <2>2
  <2>4. ASSUME NEW k \in Nat, k \in T PROVE k + 1 \in T
    <3>1. ASSUME k + 1 + 1 <= Len(s) PROVE f[k + 1 + 1] \in Seq(X)
      <4>1. f[k + 1] \in Seq(X)
        BY <2>1, <2>4, <3>1
      <4>2. k + 1 + 1 \in 2 .. Len(s) /\ (k + 1 + 1) - 1 = k + 1
        BY <2>1, <3>1
      <4>3. s[k + 1 + 1] \in Seq(X)
        BY <2>1, <4>2
      <4>4. f[k + 1 + 1] = f[k + 1] \o s[k + 1 + 1]
        BY <2>2, <4>2
      <4> QED
        BY <4>1, <4>3, <4>4, ConcatProperties
    <3> QED
      BY <3>1
  <2>5. Nat \subseteq T
    BY <2>3, <2>4, Upward
  <2>6. Len(s) - 1 \in Nat /\ (Len(s) - 1) + 1 = Len(s)
    BY <2>1
  <2>7. Len(s) - 1 \in T
    BY <2>5, <2>6
  <2> QED
    BY <2>2, <2>6, <2>7
<1> QED
  BY <1>1, <1>2

\* One more piece comes at the end.
LEMMA FlattenAppend ==
  ASSUME NEW X, NEW s \in Seq(Seq(X)), NEW x \in Seq(X)
  PROVE  FlattenSeq(Append(s, x)) = FlattenSeq(s) \o x
<1> DEFINE t == Append(s, x)
<1>1. /\ Len(s) \in Nat /\ t \in Seq(Seq(X)) /\ Len(t) = Len(s) + 1 /\ t[Len(s) + 1] = x
      /\ \A i \in 1 .. Len(s) : t[i] = s[i]
  BY AppendProperties, LenProperties
<1>2. Len(t) \in Nat /\ Len(t) # 0
  BY <1>1
<1> HIDE DEF t
<1>3. PICK g : /\ FlattenSeq(t) = g[Len(t)]
               /\ g[1] = t[1]
               /\ \A i \in 2 .. Len(t) : g[i] = g[i - 1] \o t[i]
  BY <1>2, FlattenEquation
<1>4. CASE s = <<>>
  <2>1. Len(s) = 0
    BY <1>4
  <2>2. FlattenSeq(t) = x
    BY <1>1, <1>3, <2>1
  <2> QED
    BY <1>4, <2>2, FlattenEmpty, ConcatEmptySeq DEF t
<1>5. CASE s # <<>>
  <2>1. Len(s) # 0
    BY <1>5, EmptySeq
  <2>2. PICK f : /\ FlattenSeq(s) = f[Len(s)]
                 /\ f[1] = s[1]
                 /\ \A i \in 2 .. Len(s) : f[i] = f[i - 1] \o s[i]
    BY <1>1, <2>1, FlattenEquation
  <2> DEFINE T == {k \in Nat : k + 1 <= Len(s) => g[k + 1] = f[k + 1]}
  <2>3. 0 \in T
    BY <1>1, <1>3, <2>1, <2>2
  <2>4. ASSUME NEW k \in Nat, k \in T PROVE k + 1 \in T
    <3>1. ASSUME k + 1 + 1 <= Len(s) PROVE g[k + 1 + 1] = f[k + 1 + 1]
      <4>1. /\ k + 1 + 1 \in 2 .. Len(s) /\ k + 1 + 1 \in 2 .. Len(t)
            /\ k + 1 + 1 \in 1 .. Len(s) /\ (k + 1 + 1) - 1 = k + 1 /\ k + 1 <= Len(s)
        BY <1>1, <3>1
      <4>2. g[k + 1] = f[k + 1]
        BY <2>4, <4>1
      <4>3. g[k + 1 + 1] = g[k + 1] \o t[k + 1 + 1] /\ f[k + 1 + 1] = f[k + 1] \o s[k + 1 + 1]
        BY <1>3, <2>2, <4>1
      <4> QED
        BY <1>1, <4>1, <4>2, <4>3
    <3> QED
      BY <3>1
  <2>5. Nat \subseteq T
    BY <2>3, <2>4, Upward
  <2>6. Len(s) - 1 \in Nat /\ (Len(s) - 1) + 1 = Len(s)
    BY <1>1, <2>1
  <2>7. Len(s) - 1 \in T
    BY <2>5, <2>6
  <2>10. g[Len(s)] = f[Len(s)]
    BY <1>1, <2>6, <2>7
  <2>8. Len(t) \in 2 .. Len(t) /\ Len(t) - 1 = Len(s)
    BY <1>1, <2>1
  <2>9. FlattenSeq(t) = g[Len(s)] \o x
    BY <1>1, <1>3, <2>8
  <2> QED
    BY <2>2, <2>10, <2>9 DEF t
<1> QED
  BY <1>4, <1>5

\* Induction on sequences, over a set: whatever holds of the empty sequence and survives
\* Append holds of every sequence.
LEMMA SequencesUpward ==
  ASSUME NEW Y, NEW T, <<>> \in T,
         \A s \in Seq(Y), y \in Y : s \in T => Append(s, y) \in T
  PROVE  Seq(Y) \subseteq T
<1> DEFINE U == {n \in Nat : \A s \in Seq(Y) : Len(s) = n => s \in T}
<1>1. 0 \in U
  <2>1. \A s \in Seq(Y) : Len(s) = 0 => s = <<>>
    BY EmptySeq
  <2> QED
    BY <2>1
<1>2. ASSUME NEW n \in Nat, n \in U PROVE n + 1 \in U
  <2>1. ASSUME NEW s \in Seq(Y), Len(s) = n + 1 PROVE s \in T
    <3>1. /\ SubSeq(s, 1, n) \in Seq(Y) /\ Len(SubSeq(s, 1, n)) = n
          /\ \A i \in 1 .. n : SubSeq(s, 1, n)[i] = s[i]
      <4>1. \A i \in 1 .. n : s[i] \in Y
        BY <2>1, ElementOfSeq
      <4> QED
        BY <4>1, SubSeqProperties
    <3>2. s[n + 1] \in Y
      BY <2>1, ElementOfSeq
    <3>3. SubSeq(s, 1, n) \in T
      BY <1>2, <3>1
    <3>4. s = Append(SubSeq(s, 1, n), s[n + 1])
      <4> DEFINE t == SubSeq(s, 1, n)
      <4>1. /\ Append(t, s[n + 1]) \in Seq(Y) /\ Len(Append(t, s[n + 1])) = n + 1
            /\ \A i \in 1 .. n + 1 : Append(t, s[n + 1])[i] = s[i]
        <5> HIDE DEF t
        <5> USE <3>1, <3>2 DEF t
        <5> QED
          BY AppendProperties
      <4> QED
        BY <2>1, <4>1, SeqEqual
    <3> QED
      BY <3>1, <3>2, <3>3, <3>4
  <2> QED
    BY <2>1
<1>3. Nat \subseteq U
  BY <1>1, <1>2, Upward
<1>4. ASSUME NEW s \in Seq(Y) PROVE s \in T
  <2>1. Len(s) \in U
    BY <1>3, LenProperties
  <2> QED
    BY <2>1
<1> QED
  BY <1>4

\* A function that makes a piece, over Y, of every element of X.
IsMap(h, X, Y) == h \in [X -> Seq(Y)]

\* The pieces that h makes of the elements of s, one after another.
FlatMap(h, s) == FlattenSeq([i \in DOMAIN s |-> h[s[i]]])

\* Nothing maps to nothing.
LEMMA FlatMapEmpty == ASSUME NEW h PROVE FlatMap(h, <<>>) = <<>>
BY FlattenEmpty DEF FlatMap

\* One more element: its piece comes at the end.
LEMMA FlatMapAppend ==
  ASSUME NEW X, NEW Y, NEW h, IsMap(h, X, Y), NEW s \in Seq(X), NEW x \in X
  PROVE  FlatMap(h, Append(s, x)) = FlatMap(h, s) \o h[x]
<1> DEFINE pieces == [i \in DOMAIN s |-> h[s[i]]]
           more   == [i \in DOMAIN Append(s, x) |-> h[Append(s, x)[i]]]
<1>1. pieces \in Seq(Seq(Y)) /\ h[x] \in Seq(Y) /\ Len(pieces) = Len(s)
  BY LenProperties, ElementOfSeq DEF IsMap
<1>2. more = Append(pieces, h[x])
  <2>1. /\ Append(s, x) \in Seq(X) /\ Len(Append(s, x)) = Len(s) + 1 /\ Len(s) \in Nat
        /\ DOMAIN Append(s, x) = 1 .. Len(s) + 1 /\ DOMAIN s = 1 .. Len(s)
        /\ Append(s, x)[Len(s) + 1] = x /\ \A i \in 1 .. Len(s) : Append(s, x)[i] = s[i]
    BY AppendProperties, LenProperties
  <2>2. /\ more \in Seq(Seq(Y)) /\ Len(more) = Len(s) + 1
    BY <2>1, ElementOfSeq DEF IsMap
  <2>3. /\ Append(pieces, h[x]) \in Seq(Seq(Y)) /\ Len(Append(pieces, h[x])) = Len(s) + 1
        /\ Append(pieces, h[x])[Len(s) + 1] = h[x]
        /\ \A i \in 1 .. Len(s) : Append(pieces, h[x])[i] = pieces[i]
    BY <1>1, AppendProperties
  <2>4. \A i \in 1 .. Len(s) + 1 : more[i] = Append(pieces, h[x])[i]
    BY <2>1, <2>3
  <2> QED
    BY <2>2, <2>3, <2>4, SeqEqual
<1>3. FlattenSeq(Append(pieces, h[x])) = FlattenSeq(pieces) \o h[x]
  BY <1>1, FlattenAppend
<1> QED
  BY <1>2, <1>3 DEF FlatMap

\* What a mapped sequence is made of.
LEMMA FlatMapType ==
  ASSUME NEW X, NEW Y, NEW h, IsMap(h, X, Y), NEW s \in Seq(X)
  PROVE  FlatMap(h, s) \in Seq(Y)
<1> DEFINE pieces == [i \in DOMAIN s |-> h[s[i]]]
<1>1. Len(s) \in Nat /\ DOMAIN s = 1 .. Len(s) /\ \A i \in 1 .. Len(s) : h[s[i]] \in Seq(Y)
  BY LenProperties, ElementOfSeq DEF IsMap
<1>2. pieces \in Seq(Seq(Y))
  BY <1>1
<1> QED
  BY <1>2, FlattenType DEF FlatMap

\* Where every element keeps its place, the sequence is unchanged; where every piece is
\* empty, so is the result.
LEMMA FlatMapAllNone ==
  ASSUME NEW X, NEW Y, NEW h, IsMap(h, X, Y), NEW u \in Seq(X)
  PROVE  /\ (\A x \in X : h[x] = <<x>>) => FlatMap(h, u) = u
         /\ (\A x \in X : h[x] = <<>>) => FlatMap(h, u) = <<>>
<1> DEFINE T == {s \in Seq(X) : /\ (\A x \in X : h[x] = <<x>>) => FlatMap(h, s) = s
                                /\ (\A x \in X : h[x] = <<>>) => FlatMap(h, s) = <<>>}
<1>1. <<>> \in T
  BY FlatMapEmpty, EmptySeq
<1>2. ASSUME NEW s \in Seq(X), NEW x \in X, s \in T PROVE Append(s, x) \in T
  <2>1. FlatMap(h, Append(s, x)) = FlatMap(h, s) \o h[x]
    BY FlatMapAppend
  <2>2. Append(s, x) \in Seq(X) /\ s \o <<x>> = Append(s, x) /\ <<>> \o <<>> = <<>>
    BY AppendProperties, AppendIsConcat, ConcatEmptySeq, EmptySeq
  <2> QED
    BY <1>2, <2>1, <2>2
<1>3. Seq(X) \subseteq T
  BY <1>1, <1>2, SequencesUpward
<1> QED
  BY <1>3

\* A concatenation is mapped part by part.
LEMMA FlatMapConcat ==
  ASSUME NEW X, NEW Y, NEW h, IsMap(h, X, Y), NEW s \in Seq(X),
         NEW u \in Seq(X)
  PROVE  FlatMap(h, s \o u) = FlatMap(h, s) \o FlatMap(h, u)
<1> DEFINE T == {t \in Seq(X) : FlatMap(h, s \o t) = FlatMap(h, s) \o FlatMap(h, t)}
<1>1. <<>> \in T
  <2>1. s \o <<>> = s /\ FlatMap(h, s) \o <<>> = FlatMap(h, s) /\ <<>> \in Seq(X)
    BY FlatMapType, ConcatEmptySeq, EmptySeq
  <2>2. FlatMap(h, <<>>) = <<>>
    BY FlatMapEmpty
  <2> QED
    BY <2>1, <2>2
<1>2. ASSUME NEW t \in Seq(X), NEW x \in X, t \in T PROVE Append(t, x) \in T
  <2>1. s \o t \in Seq(X) /\ s \o Append(t, x) = Append(s \o t, x) /\ Append(t, x) \in Seq(X)
    BY ConcatProperties, AppendProperties, ConcatAssociative, AppendIsConcat, EmptySeq
  <2>2. FlatMap(h, Append(s \o t, x)) = FlatMap(h, s \o t) \o h[x]
    <3>1. s \o t \in Seq(X)
      BY <2>1
    <3> HIDE DEF T
    <3> QED
      BY <3>1, FlatMapAppend
  <2>3. FlatMap(h, Append(t, x)) = FlatMap(h, t) \o h[x]
    BY FlatMapAppend
  <2>4. (FlatMap(h, s) \o FlatMap(h, t)) \o h[x] = FlatMap(h, s) \o (FlatMap(h, t) \o h[x])
    BY FlatMapType, ConcatAssociative DEF IsMap
  <2> QED
    BY <1>2, <2>1, <2>2, <2>3, <2>4
<1>3. Seq(X) \subseteq T
  BY <1>1, <1>2, SequencesUpward
<1> QED
  BY <1>3

\* Mapping twice.
LEMMA FlatMapTwice ==
  ASSUME NEW X, NEW Y, NEW Z, NEW g, IsMap(g, X, Y), NEW h, IsMap(h, Y, Z),
         NEW r \in Seq(X)
  PROVE  FlatMap(h, FlatMap(g, r)) = FlatMap([x \in X |-> FlatMap(h, g[x])], r)
<1> DEFINE k == [x \in X |-> FlatMap(h, g[x])]
           T == {s \in Seq(X) : FlatMap(h, FlatMap(g, s)) = FlatMap(k, s)}
<1>1. IsMap(k, X, Z)
  BY FlatMapType DEF IsMap
<1>5. \A u, v \in Seq(Y) : FlatMap(h, u \o v) = FlatMap(h, u) \o FlatMap(h, v)
  BY FlatMapConcat
<1>2. <<>> \in T
  BY FlatMapEmpty, EmptySeq
<1>3. ASSUME NEW s \in Seq(X), NEW x \in X, s \in T PROVE Append(s, x) \in T
  <2>6. g[x] \in Seq(Y)
    BY DEF IsMap
  <2>7. FlatMap(g, s) \in Seq(Y)
    BY FlatMapType
  <2>8. FlatMap(g, Append(s, x)) = FlatMap(g, s) \o g[x]
    BY FlatMapAppend
  <2>1. FlatMap(g, Append(s, x)) = FlatMap(g, s) \o g[x] /\ FlatMap(g, s) \in Seq(Y) /\ g[x] \in Seq(Y)
    BY <2>6, <2>7, <2>8
  <2>2. FlatMap(h, FlatMap(g, s) \o g[x]) = FlatMap(h, FlatMap(g, s)) \o FlatMap(h, g[x])
    BY <2>1, <1>5
  <2>3. k[x] = FlatMap(h, g[x])
    OBVIOUS
  <2> HIDE DEF k
  <2>4. FlatMap(k, Append(s, x)) = FlatMap(k, s) \o k[x]
    BY <1>1, FlatMapAppend
  <2>5. Append(s, x) \in Seq(X)
    BY AppendProperties
  <2> QED
    BY <1>3, <2>1, <2>2, <2>3, <2>4, <2>5
<1>4. Seq(X) \subseteq T
  <2> HIDE DEF k
  <2> QED
    BY <1>2, <1>3, SequencesUpward
<1> QED
  BY <1>4

\* Two maps whose pieces correspond, element by element.
Correspond(R, u, v) == Len(u) = Len(v) /\ \A i \in 1 .. Len(v) : <<u[i], v[i]>> \in R

\* Two maps whose pieces correspond element by element give corresponding sequences.
LEMMA FlatMapCorrespond ==
  ASSUME NEW X, NEW Y, NEW Z, NEW g, IsMap(g, X, Y), NEW h, IsMap(h, X, Z), NEW R,
         \A x \in X : Correspond(R, g[x], h[x]), NEW r \in Seq(X)
  PROVE  Correspond(R, FlatMap(g, r), FlatMap(h, r))
<1> DEFINE T == {s \in Seq(X) : Correspond(R, FlatMap(g, s), FlatMap(h, s))}
<1>1. <<>> \in T
  BY FlatMapEmpty, EmptySeq DEF Correspond
<1>2. ASSUME NEW s \in Seq(X), NEW x \in X, s \in T PROVE Append(s, x) \in T
  <2>1. PICK u \in Seq(Y), v \in Seq(Z) : u = FlatMap(g, s) /\ v = FlatMap(h, s)
    BY FlatMapType
  <2>2. PICK a \in Seq(Y), b \in Seq(Z) : a = g[x] /\ b = h[x]
    BY DEF IsMap
  <2>8. FlatMap(g, Append(s, x)) = FlatMap(g, s) \o g[x]
    BY FlatMapAppend
  <2>9. FlatMap(h, Append(s, x)) = FlatMap(h, s) \o h[x]
    BY FlatMapAppend
  <2>3. FlatMap(g, Append(s, x)) = u \o a /\ FlatMap(h, Append(s, x)) = v \o b
    BY <2>1, <2>2, <2>8, <2>9
  <2>4. Correspond(R, u, v) /\ Correspond(R, a, b)
    BY <1>2, <2>1, <2>2
  <2>5. /\ Len(u) \in Nat /\ Len(a) \in Nat /\ Len(u) = Len(v) /\ Len(a) = Len(b)
        /\ Len(u \o a) = Len(u) + Len(a) /\ Len(v \o b) = Len(u) + Len(a)
        /\ \A i \in 1 .. Len(u) + Len(a) : (u \o a)[i] = IF i <= Len(u) THEN u[i] ELSE a[i - Len(u)]
        /\ \A i \in 1 .. Len(u) + Len(a) : (v \o b)[i] = IF i <= Len(u) THEN v[i] ELSE b[i - Len(u)]
    <3>1. /\ Len(u) \in Nat /\ Len(a) \in Nat /\ Len(u) = Len(v) /\ Len(a) = Len(b)
      BY <2>4, LenProperties DEF Correspond
    <3>2. /\ Len(u \o a) = Len(u) + Len(a)
          /\ \A i \in 1 .. Len(u) + Len(a) : (u \o a)[i] = IF i <= Len(u) THEN u[i] ELSE a[i - Len(u)]
      BY ConcatProperties
    <3>3. /\ Len(v \o b) = Len(v) + Len(b)
          /\ \A i \in 1 .. Len(v) + Len(b) : (v \o b)[i] = IF i <= Len(v) THEN v[i] ELSE b[i - Len(v)]
      BY ConcatProperties
    <3> QED
      BY <3>1, <3>2, <3>3
  <2>6. ASSUME NEW i \in 1 .. Len(u) + Len(a) PROVE <<(u \o a)[i], (v \o b)[i]>> \in R
    <3>1. CASE i <= Len(u)
      BY <2>4, <2>5, <3>1 DEF Correspond
    <3>2. CASE ~ (i <= Len(u))
      <4>1. i - Len(u) \in 1 .. Len(a)
        BY <2>5, <3>2
      <4>2. <<a[i - Len(u)], b[i - Len(u)]>> \in R
        BY <2>4, <2>5, <4>1 DEF Correspond
      <4> QED
        BY <2>5, <3>2, <4>2
    <3> QED
      BY <3>1, <3>2
  <2>7. Correspond(R, u \o a, v \o b)
    BY <2>5, <2>6 DEF Correspond
  <2> QED
    BY <2>3, <2>7, AppendProperties
<1>3. Seq(X) \subseteq T
  BY <1>1, <1>2, SequencesUpward
<1> QED
  BY <1>3

\* A sequence of pieces all but one of which are empty.
LEMMA FlattenOne ==
  ASSUME NEW Y
  PROVE  \A f \in Seq(Seq(Y)) :
           /\ (\A i \in DOMAIN f : f[i] = <<>>) => FlattenSeq(f) = <<>>
           /\ \A m \in DOMAIN f : (\A i \in DOMAIN f \ {m} : f[i] = <<>>) => FlattenSeq(f) = f[m]
<1> DEFINE IsOne(f) == /\ (\A i \in DOMAIN f : f[i] = <<>>) => FlattenSeq(f) = <<>>
                      /\ \A m \in DOMAIN f : (\A i \in DOMAIN f \ {m} : f[i] = <<>>) => FlattenSeq(f) = f[m]
           T == {f \in Seq(Seq(Y)) : IsOne(f)}
<1>1. <<>> \in T
  BY FlattenEmpty, EmptySeq
<1>2. ASSUME NEW f \in Seq(Seq(Y)), NEW x \in Seq(Y), f \in T PROVE Append(f, x) \in T
  <2>1. /\ Append(f, x) \in Seq(Seq(Y)) /\ Len(f) \in Nat /\ DOMAIN f = 1 .. Len(f)
        /\ DOMAIN Append(f, x) = 1 .. Len(f) + 1
        /\ Append(f, x)[Len(f) + 1] = x /\ \A i \in 1 .. Len(f) : Append(f, x)[i] = f[i]
    BY AppendProperties, LenProperties
  <2>2. FlattenSeq(Append(f, x)) = FlattenSeq(f) \o x /\ FlattenSeq(f) \in Seq(Y)
    BY FlattenAppend, FlattenType
  <2>3. /\ FlattenSeq(f) \o <<>> = FlattenSeq(f) /\ <<>> \o x = x
    BY <2>2, ConcatEmptySeq
  <2>4. (\A i \in DOMAIN f : f[i] = <<>>) => FlattenSeq(f) = <<>>
    BY <1>2
  <2>5. ASSUME \A i \in 1 .. Len(f) + 1 : Append(f, x)[i] = <<>> PROVE FlattenSeq(Append(f, x)) = <<>>
    BY <2>1, <2>2, <2>3, <2>4, <2>5
  <2>6. ASSUME NEW m \in 1 .. Len(f) + 1, \A i \in (1 .. Len(f) + 1) \ {m} : Append(f, x)[i] = <<>>
        PROVE  FlattenSeq(Append(f, x)) = Append(f, x)[m]
    <3>1. CASE m = Len(f) + 1
      <4>1. \A i \in DOMAIN f : i \in (1 .. Len(f) + 1) \ {m}
        BY <2>1, <3>1
      <4>2. \A i \in DOMAIN f : f[i] = <<>>
        BY <2>1, <2>6, <4>1
      <4> QED
        BY <2>1, <2>2, <2>3, <2>4, <3>1, <4>2
    <3>2. CASE m # Len(f) + 1
      <4>1. m \in DOMAIN f /\ x = <<>> /\ \A i \in DOMAIN f \ {m} : f[i] = <<>>
        BY <2>1, <2>6, <3>2
      <4>2. FlattenSeq(f) = f[m]
        BY <1>2, <4>1
      <4> QED
        BY <2>1, <2>2, <2>3, <4>1, <4>2
    <3> QED
      BY <3>1, <3>2
  <2> QED
    BY <2>1, <2>5, <2>6
<1>3. Seq(Seq(Y)) \subseteq T
  <2> HIDE DEF IsOne
  <2> QED
    BY <1>1, <1>2, SequencesUpward
<1> QED
  BY <1>3
-----------------------------------------------------------------------------
(* What a provider gets back of its own messages                           *)

\* One element.
LEMMA FlatMapSingle ==
  ASSUME NEW X, NEW Y, NEW h, IsMap(h, X, Y), NEW x \in X
  PROVE  FlatMap(h, <<x>>) = h[x]
<1>1. <<>> \in Seq(X) /\ Append(<<>>, x) = <<x>>
  BY EmptySeq
<1>2. FlatMap(h, Append(<<>>, x)) = FlatMap(h, <<>>) \o h[x]
  BY <1>1, FlatMapAppend
<1>3. <<>> \o h[x] = h[x]
  BY ConcatEmptySeq DEF IsMap
<1> QED
  BY <1>1, <1>2, <1>3, FlatMapEmpty

\* A sequence of one element.
LEMMA SingleType == ASSUME NEW X, NEW x \in X PROVE <<x>> \in Seq(X)
OBVIOUS

\* The map that keeps the elements of K.
Keep(X, K) == [x \in X |-> IF x \in K THEN <<x>> ELSE <<>>]

\* Keeping is a map.
LEMMA KeepType == ASSUME NEW X, NEW K PROVE IsMap(Keep(X, K), X, X)
BY EmptySeq DEF Keep, IsMap

\* Mapping what was kept.
LEMMA FlatMapKept ==
  ASSUME NEW X, NEW Y, NEW K, NEW g, IsMap(g, X, Y), NEW s \in Seq(X)
  PROVE  FlatMap(g, FlatMap(Keep(X, K), s)) = FlatMap([x \in X |-> IF x \in K THEN g[x] ELSE <<>>], s)
<1>1. IsMap(Keep(X, K), X, X)
  BY KeepType
<1>2. FlatMap(g, FlatMap(Keep(X, K), s)) = FlatMap([x \in X |-> FlatMap(g, Keep(X, K)[x])], s)
  BY <1>1, FlatMapTwice
<1>3. ASSUME NEW x \in X PROVE FlatMap(g, Keep(X, K)[x]) = IF x \in K THEN g[x] ELSE <<>>
  BY FlatMapSingle, FlatMapEmpty DEF Keep
<1>4. [x \in X |-> FlatMap(g, Keep(X, K)[x])] = [x \in X |-> IF x \in K THEN g[x] ELSE <<>>]
  BY <1>3
<1> QED
  BY <1>2, <1>4

\* The selections of the model as maps.
LEMMA ThoseKept ==
  ASSUME NEW X, NEW s \in Seq(X)
  PROVE  /\ Those(s, IsSeal) = FlatMap(Keep(X, {e \in X : IsSeal(e)}), s)
         /\ Those(s, IsCall) = FlatMap(Keep(X, {e \in X : IsCall(e)}), s)
         /\ Those(s, LAMBDA e : IsSeal(e) \/ IsCall(e))
              = FlatMap(Keep(X, {e \in X : IsSeal(e) \/ IsCall(e)}), s)
         /\ Sealed(s) = FlatMap(Keep(X, {p \in X : IsSealed(p)}), s)
         /\ Those(s, LAMBDA p : IsSealed(p) \/ p.kind = "call")
              = FlatMap(Keep(X, {p \in X : IsSealed(p) \/ p.kind = "call"}), s)
<1>0. DOMAIN s = 1 .. Len(s) /\ \A i \in DOMAIN s : s[i] \in X
  BY LenProperties, ElementOfSeq
<1>1. Those(s, IsSeal) = FlatMap(Keep(X, {e \in X : IsSeal(e)}), s)
  BY <1>0 DEF Those, Each, When, FlatMap, Keep
<1>2. Those(s, IsCall) = FlatMap(Keep(X, {e \in X : IsCall(e)}), s)
  BY <1>0 DEF Those, Each, When, FlatMap, Keep
<1>3. Those(s, LAMBDA e : IsSeal(e) \/ IsCall(e))
              = FlatMap(Keep(X, {e \in X : IsSeal(e) \/ IsCall(e)}), s)
  BY <1>0 DEF Those, Each, When, FlatMap, Keep
<1>5. Sealed(s) = FlatMap(Keep(X, {p \in X : IsSealed(p)}), s)
  BY <1>0 DEF Sealed, Those, Each, When, FlatMap, Keep
<1>6. Those(s, LAMBDA p : IsSealed(p) \/ p.kind = "call")
              = FlatMap(Keep(X, {p \in X : IsSealed(p) \/ p.kind = "call"}), s)
  BY <1>0 DEF Those, Each, When, FlatMap, Keep
<1> QED
  BY <1>1, <1>2, <1>3, <1>5, <1>6

\* The parts of one kind.
LEMMA OfKindKept ==
  ASSUME NEW X, NEW msg, msg.parts \in Seq(X), NEW kind
  PROVE  OfKind(msg, kind) = FlatMap(Keep(X, {p \in X : p.kind = kind}), msg.parts)
<1>0. DOMAIN msg.parts = 1 .. Len(msg.parts) /\ \A i \in DOMAIN msg.parts : msg.parts[i] \in X
  BY LenProperties, ElementOfSeq
<1> QED
  BY <1>0 DEF OfKind, Those, Each, When, FlatMap, Keep

\* The items for a part of message m, per dialect.
CallPiece(P, m)  == [p \in P |-> IF p.kind = "call" THEN <<CallItem(m, p)>> ELSE <<>>]
SealPiece(P, m)  == [p \in P |-> IF p.kind = "thought" /\ p.sig # <<>>
                                 THEN <<SealItem(m, p)>> ELSE <<>>]
ThoughtPiece(P, m) == [p \in P |-> IF p.kind = "thought" THEN <<ThoughtItem(m, p)>> ELSE <<>>]
BlockPiece(P, m) == [p \in P |-> CASE p.kind = "text" -> <<TextItem(m, p.text)>>
                                   [] p.kind = "call" -> <<CallItem(m, p)>>
                                   [] OTHER           -> <<>>]
GeminiPiece(P, m) == [p \in P |-> CASE p.kind = "text"    -> <<TextItem(m, p.text)>>
                                    [] p.kind = "thought" -> When(p.sig # <<>>, ThoughtItem(m, p))
                                    [] p.kind = "call"    -> <<CallItem(m, p)>>
                                    [] OTHER              -> <<>>]

\* The items a message gives.
ThoughtItems(P, m) == {ThoughtItem(m, p) : p \in P} \cup {SealItem(m, p) : p \in P}
OtherItems(P, m, t) == {TextItem(m, p.text) : p \in P} \cup {CallItem(m, p) : p \in P} \cup {TextItem(m, t)}

\* An assistant message for Anthropic: its thoughts, then the rest of its parts.
LEMMA AnthropicShape ==
  ASSUME NEW h, NEW m, NEW P, h[m].role = "assistant", h[m].parts \in Seq(P)
  PROVE  AnthropicMessage(h, m) = FlatMap(ThoughtPiece(P, m), h[m].parts) \o FlatMap(BlockPiece(P, m), h[m].parts)
<1> DEFINE parts == h[m].parts
           thoughts == OfKind(h[m], "thought")
           one == [p \in P |-> <<ThoughtItem(m, p)>>]
<1>1. DOMAIN parts = 1 .. Len(parts) /\ \A i \in DOMAIN parts : parts[i] \in P
  BY LenProperties, ElementOfSeq
<1>2. [i \in DOMAIN parts |-> CASE parts[i].kind = "text" -> <<TextItem(m, parts[i].text)>>
                                [] parts[i].kind = "call" -> <<CallItem(m, parts[i])>>
                                [] OTHER                  -> <<>>]
       = [i \in DOMAIN parts |-> BlockPiece(P, m)[parts[i]]]
  BY <1>1 DEF BlockPiece
<1>3. thoughts = FlatMap(Keep(P, {p \in P : p.kind = "thought"}), parts)
  BY OfKindKept
<1>4. thoughts \in Seq(P)
  BY <1>3, KeepType, FlatMapType
<1>5. DOMAIN thoughts = 1 .. Len(thoughts) /\ \A i \in DOMAIN thoughts : thoughts[i] \in P
  BY <1>4, LenProperties, ElementOfSeq
<1>6. [i \in DOMAIN thoughts |-> <<ThoughtItem(m, thoughts[i])>>] = [i \in DOMAIN thoughts |-> one[thoughts[i]]]
  BY <1>5
<1>7. FlatMap(one, thoughts) = FlatMap(ThoughtPiece(P, m), parts)
  <2>1. IsMap(one, P, {ThoughtItem(m, p) : p \in P})
    BY DEF IsMap
  <2>2. FlatMap(one, thoughts) = FlatMap([p \in P |-> IF p \in {r \in P : r.kind = "thought"} THEN one[p] ELSE <<>>], parts)
    BY <1>3, <2>1, FlatMapKept
  <2>3. [p \in P |-> IF p \in {r \in P : r.kind = "thought"} THEN one[p] ELSE <<>>] = ThoughtPiece(P, m)
    BY DEF ThoughtPiece
  <2> QED
    BY <2>2, <2>3
<1>8. AnthropicMessage(h, m) =
        FlattenSeq([i \in DOMAIN thoughts |-> <<ThoughtItem(m, thoughts[i])>>])
        \o FlattenSeq([i \in DOMAIN parts |-> CASE parts[i].kind = "text" -> <<TextItem(m, parts[i].text)>>
                                [] parts[i].kind = "call" -> <<CallItem(m, parts[i])>>
                                [] OTHER                  -> <<>>])
  BY DEF AnthropicMessage, Each
<1> QED
  BY <1>2, <1>6, <1>7, <1>8 DEF FlatMap

\* The calls of a message as items.
LEMMA CallItemsShape ==
  ASSUME NEW h, NEW m, NEW P, h[m].parts \in Seq(P)
  PROVE  CallItems(h, m) = FlatMap(CallPiece(P, m), h[m].parts)
<1> DEFINE parts == h[m].parts
           calls == OfKind(h[m], "call")
           one == [p \in P |-> <<CallItem(m, p)>>]
<1>1. calls = FlatMap(Keep(P, {p \in P : p.kind = "call"}), parts)
  BY OfKindKept
<1>2. calls \in Seq(P)
  BY <1>1, KeepType, FlatMapType
<1>3. DOMAIN calls = 1 .. Len(calls) /\ \A i \in DOMAIN calls : calls[i] \in P
  BY <1>2, LenProperties, ElementOfSeq
<1>4. [i \in DOMAIN calls |-> <<CallItem(m, calls[i])>>] = [i \in DOMAIN calls |-> one[calls[i]]]
  BY <1>3
<1>5. IsMap(one, P, {CallItem(m, p) : p \in P})
  BY DEF IsMap
<1>6. FlatMap(one, calls) = FlatMap([p \in P |-> IF p \in {r \in P : r.kind = "call"} THEN one[p] ELSE <<>>], parts)
  BY <1>1, <1>5, FlatMapKept
<1>7. [p \in P |-> IF p \in {r \in P : r.kind = "call"} THEN one[p] ELSE <<>>] = CallPiece(P, m)
  BY DEF CallPiece
<1> QED
  BY <1>4, <1>6, <1>7 DEF CallItems, Each, FlatMap

\* An assistant message for Responses: the seals, then the text, then the calls.
LEMMA ResponsesShape ==
  ASSUME NEW h, NEW m, NEW P, h[m].role = "assistant", h[m].parts \in Seq(P)
  PROVE  ResponsesMessage(h, m) = FlatMap(SealPiece(P, m), h[m].parts)
                                  \o When(Text(h[m]) # <<>>, TextItem(m, Text(h[m])))
                                  \o FlatMap(CallPiece(P, m), h[m].parts)
<1> DEFINE parts == h[m].parts
           thoughts == OfKind(h[m], "thought")
           Sig(p) == When(p.sig # <<>>, SealItem(m, p))
           one == [p \in P |-> Sig(p)]
<1>1. thoughts = FlatMap(Keep(P, {p \in P : p.kind = "thought"}), parts)
  BY OfKindKept
<1>2. thoughts \in Seq(P)
  BY <1>1, KeepType, FlatMapType
<1>3. DOMAIN thoughts = 1 .. Len(thoughts) /\ \A i \in DOMAIN thoughts : thoughts[i] \in P
  BY <1>2, LenProperties, ElementOfSeq
<1>4. [i \in DOMAIN thoughts |-> Sig(thoughts[i])] = [i \in DOMAIN thoughts |-> one[thoughts[i]]]
  BY <1>3
<1> DEFINE seals == {SealItem(m, p) : p \in P}
<1>5. IsMap(one, P, seals)
  <2>1. ASSUME NEW p \in P PROVE Sig(p) \in Seq(seals)
    <3>1. PICK e \in seals : e = SealItem(m, p)
      OBVIOUS
    <3> HIDE DEF seals
    <3> QED
      BY <3>1, EmptySeq DEF When
  <2> HIDE DEF seals, Sig
  <2> QED
    BY <2>1 DEF IsMap
<1>6. FlatMap(one, thoughts) = FlatMap([p \in P |-> IF p \in {r \in P : r.kind = "thought"} THEN one[p] ELSE <<>>], parts)
  <2> HIDE DEF one, seals, parts
  <2>1. parts \in Seq(P)
    BY DEF parts
  <2> QED
    BY <1>1, <1>5, <2>1, FlatMapKept
<1>7. [p \in P |-> IF p \in {r \in P : r.kind = "thought"} THEN one[p] ELSE <<>>] = SealPiece(P, m)
  BY DEF SealPiece, When
<1>8. FlattenSeq([i \in DOMAIN thoughts |-> Sig(thoughts[i])]) = FlatMap(SealPiece(P, m), parts)
  BY <1>4, <1>6, <1>7 DEF FlatMap
<1>9. ResponsesMessage(h, m) = FlattenSeq([i \in DOMAIN thoughts |-> Sig(thoughts[i])])
                               \o When(Text(h[m]) # <<>>, TextItem(m, Text(h[m]))) \o CallItems(h, m)
  BY DEF ResponsesMessage, Each
<1> QED
  BY <1>8, <1>9, CallItemsShape

\* An assistant message for Gemini: its parts in their order.
LEMMA GeminiShape ==
  ASSUME NEW h, NEW m, NEW P, h[m].role # "tool", h[m].parts \in Seq(P)
  PROVE  GeminiMessage(h, m) = FlatMap(GeminiPiece(P, m), h[m].parts)
<1> DEFINE parts == h[m].parts
           Part(p) == CASE p.kind = "text"    -> <<TextItem(m, p.text)>>
                        [] p.kind = "thought" -> When(p.sig # <<>>, ThoughtItem(m, p))
                        [] p.kind = "call"    -> <<CallItem(m, p)>>
                        [] OTHER              -> <<>>
<1>1. DOMAIN parts = 1 .. Len(parts) /\ \A i \in DOMAIN parts : parts[i] \in P
  BY LenProperties, ElementOfSeq
<1>2. [i \in DOMAIN parts |-> Part(parts[i])] = [i \in DOMAIN parts |-> GeminiPiece(P, m)[parts[i]]]
  BY <1>1 DEF GeminiPiece
<1>3. GeminiMessage(h, m) = FlattenSeq([i \in DOMAIN parts |-> Part(parts[i])])
  BY DEF GeminiMessage, Each
<1> QED
  BY <1>2, <1>3 DEF FlatMap
(* What the server gets back of a message *)

\* Nothing is kept of elements outside K.
LEMMA KeepNone ==
  ASSUME NEW Y, NEW K, NEW X, X \subseteq Y, X \cap K = {}, NEW s \in Seq(X)
  PROVE  FlatMap(Keep(Y, K), s) = <<>>
<1>1. DOMAIN s = 1 .. Len(s) /\ \A i \in DOMAIN s : s[i] \in X
  BY LenProperties, ElementOfSeq
<1>2. [i \in DOMAIN s |-> Keep(Y, K)[s[i]]] = [i \in DOMAIN s |-> Keep(X, K)[s[i]]]
  BY <1>1 DEF Keep
<1>3. FlatMap(Keep(Y, K), s) = FlatMap(Keep(X, K), s)
  BY <1>2 DEF FlatMap
<1>4. IsMap(Keep(X, K), X, X) /\ \A x \in X : Keep(X, K)[x] = <<>>
  BY KeepType DEF Keep
<1> QED
  BY <1>3, <1>4, FlatMapAllNone

\* Reasoning first: nothing of another kind comes before a thought.
LEMMA ThoughtsFirst ==
  ASSUME NEW T, NEW O, \A e \in T : e.k = "thought", \A e \in O : e.k # "thought",
         NEW a \in Seq(T), NEW b \in Seq(O)
  PROVE  \A j \in DOMAIN (a \o b) : (a \o b)[j].k = "thought"
                                      => \A i \in 1 .. j : (a \o b)[i].k = "thought"
<1>1. a \in Seq(T \cup O) /\ b \in Seq(T \cup O)
  BY SeqMonotonic
<1>2. /\ a \o b \in Seq(T \cup O) /\ Len(a \o b) = Len(a) + Len(b) /\ Len(a) \in Nat /\ Len(b) \in Nat
      /\ \A i \in 1 .. Len(a) + Len(b) : (a \o b)[i] = IF i <= Len(a) THEN a[i] ELSE b[i - Len(a)]
  BY <1>1, ConcatProperties, LenProperties
<1>3. DOMAIN (a \o b) = 1 .. Len(a) + Len(b)
  BY <1>2, LenProperties
<1>4. \A i \in 1 .. Len(a) : a[i].k = "thought"
  BY ElementOfSeq
<1>5. \A i \in 1 .. Len(b) : b[i].k # "thought"
  BY ElementOfSeq
<1>6. ASSUME NEW j \in 1 .. Len(a) + Len(b), (a \o b)[j].k = "thought", NEW i \in 1 .. j
      PROVE  (a \o b)[i].k = "thought"
  <2>1. j <= Len(a)
    <3>1. ASSUME ~ (j <= Len(a)) PROVE FALSE
      <4>1. j - Len(a) \in 1 .. Len(b)
        BY <1>2, <3>1
      <4>2. (a \o b)[j] = b[j - Len(a)]
        BY <1>2, <3>1
      <4> QED
        BY <1>5, <1>6, <4>1, <4>2
    <3> QED
      BY <3>1
  <2>2. i \in 1 .. Len(a) /\ i \in 1 .. Len(a) + Len(b)
    BY <1>2, <2>1
  <2> QED
    BY <1>2, <1>4, <2>2
<1> QED
  BY <1>3, <1>6

Pairs(d, Y, P) == {r \in Y \X P : Same(d, r[1], r[2])}

\* Items that correspond to parts match them.
LEMMA CorrespondMatches ==
  ASSUME NEW d, NEW Y, NEW P, NEW q, NEW s \in Seq(P), Correspond(Pairs(d, Y, P), q, s)
  PROVE  Matches(d, q, s)
<1>1. DOMAIN s = 1 .. Len(s)
  BY LenProperties
<1>2. \A i \in 1 .. Len(s) : <<q[i], s[i]>> \in Pairs(d, Y, P)
  BY DEF Correspond
<1>3. \A i \in 1 .. Len(s) : Same(d, q[i], s[i])
  BY <1>2 DEF Pairs
<1> QED
  BY <1>1, <1>3 DEF Matches, Correspond

\* The fields of the items.
LEMMA ItemFields ==
  /\ \A m, t : TextItem(m, t).k = "text" /\ TextItem(m, t).m = m
  /\ \A m, p : /\ CallItem(m, p).k = "call" /\ CallItem(m, p).m = m
              /\ CallItem(m, p).id = p.id /\ CallItem(m, p).of = p.of /\ CallItem(m, p).name = <<p.name>>
  /\ \A m, p : /\ ThoughtItem(m, p).k = "thought" /\ ThoughtItem(m, p).m = m
              /\ ThoughtItem(m, p).sig = p.sig /\ ThoughtItem(m, p).text = p.text
  /\ \A m, p : /\ SealItem(m, p).k = "thought" /\ SealItem(m, p).m = m
              /\ SealItem(m, p).sig = p.sig
BY DEF TextItem, CallItem, ThoughtItem, SealItem

AllItems(P, m, t) == ThoughtItems(P, m) \cup OtherItems(P, m, t)

\* The kinds of the items a message may be written as.
LEMMA ItemsKnown ==
  ASSUME NEW P, NEW m, NEW t
  PROVE  /\ \A e \in ThoughtItems(P, m) : e.k = "thought" /\ e.m = m
         /\ \A e \in OtherItems(P, m, t) : e.k \in {"text", "call"} /\ e.m = m
         /\ \A p \in P : /\ ThoughtItem(m, p) \in ThoughtItems(P, m)
                         /\ SealItem(m, p) \in ThoughtItems(P, m)
                         /\ TextItem(m, p.text) \in OtherItems(P, m, t)
                         /\ CallItem(m, p) \in OtherItems(P, m, t)
         /\ TextItem(m, t) \in OtherItems(P, m, t)
<1>1. ASSUME NEW e \in ThoughtItems(P, m) PROVE e.k = "thought" /\ e.m = m
  <2>1. PICK p \in P : e = ThoughtItem(m, p) \/ e = SealItem(m, p)
    BY DEF ThoughtItems
  <2> QED
    BY <2>1, ItemFields
<1>2. ASSUME NEW e \in OtherItems(P, m, t) PROVE e.k \in {"text", "call"} /\ e.m = m
  <2>1. CASE e = TextItem(m, t)
    BY <2>1, ItemFields
  <2>2. CASE e # TextItem(m, t)
    <3>1. PICK p \in P : e = TextItem(m, p.text) \/ e = CallItem(m, p)
      BY <2>2 DEF OtherItems
    <3> QED
      BY <3>1, ItemFields
  <2> QED
    BY <2>1, <2>2
<1>3. \A p \in P : /\ ThoughtItem(m, p) \in ThoughtItems(P, m)
                   /\ SealItem(m, p) \in ThoughtItems(P, m)
  BY DEF ThoughtItems
<1>4. \A p \in P : /\ TextItem(m, p.text) \in OtherItems(P, m, t)
                   /\ CallItem(m, p) \in OtherItems(P, m, t)
  BY DEF OtherItems
<1>5. TextItem(m, t) \in OtherItems(P, m, t)
  BY DEF OtherItems
<1> QED
  BY <1>1, <1>2, <1>3, <1>4, <1>5

\* The pieces are maps from parts to items.
LEMMA PieceMaps ==
  ASSUME NEW P, NEW m, NEW t
  PROVE  /\ IsMap(ThoughtPiece(P, m), P, ThoughtItems(P, m))
         /\ IsMap(SealPiece(P, m), P, ThoughtItems(P, m))
         /\ IsMap(BlockPiece(P, m), P, OtherItems(P, m, t))
         /\ IsMap(CallPiece(P, m), P, OtherItems(P, m, t))
         /\ IsMap(GeminiPiece(P, m), P, AllItems(P, m, t))
<1> DEFINE T == ThoughtItems(P, m)
           O == OtherItems(P, m, t)
<1>1. /\ \A p \in P : /\ ThoughtItem(m, p) \in T
                      /\ SealItem(m, p) \in T
                      /\ TextItem(m, p.text) \in O
                      /\ CallItem(m, p) \in O
  BY ItemsKnown
<1> HIDE DEF T, O
<1>7. \A p \in P : /\ <<ThoughtItem(m, p)>> \in Seq(T) /\ <<SealItem(m, p)>> \in Seq(T)
                   /\ <<TextItem(m, p.text)>> \in Seq(O) /\ <<CallItem(m, p)>> \in Seq(O)
                   /\ <<ThoughtItem(m, p)>> \in Seq(T \cup O)
                   /\ <<TextItem(m, p.text)>> \in Seq(T \cup O) /\ <<CallItem(m, p)>> \in Seq(T \cup O)
  BY <1>1, SingleType
<1>8. <<>> \in Seq(T) /\ <<>> \in Seq(O) /\ <<>> \in Seq(T \cup O)
  BY EmptySeq
<1>2. IsMap(ThoughtPiece(P, m), P, T)
  BY <1>7, <1>8 DEF IsMap, ThoughtPiece
<1>3. IsMap(SealPiece(P, m), P, T)
  BY <1>7, <1>8 DEF IsMap, SealPiece
<1>4. IsMap(BlockPiece(P, m), P, O)
  BY <1>7, <1>8 DEF IsMap, BlockPiece
<1>5. IsMap(CallPiece(P, m), P, O)
  BY <1>7, <1>8 DEF IsMap, CallPiece
<1>6. IsMap(GeminiPiece(P, m), P, T \cup O)
  BY <1>7, <1>8 DEF IsMap, GeminiPiece, When
<1> QED
  BY <1>2, <1>3, <1>4, <1>5, <1>6 DEF T, O, AllItems

Seals(Y)   == {e \in Y : IsSeal(e)}
CallsIn(Y) == {e \in Y : IsCall(e)}

\* Every sealed block is among the items, once, as it was.
LEMMA SealsMatch ==
  ASSUME NEW P, NEW m, NEW Y, ThoughtItems(P, m) \subseteq Y, NEW parts \in Seq(P)
  PROVE  /\ Matches("anthropic", FlatMap(Keep(Y, Seals(Y)), FlatMap(ThoughtPiece(P, m), parts)), Sealed(parts))
         /\ Matches("responses", FlatMap(Keep(Y, Seals(Y)), FlatMap(SealPiece(P, m), parts)), Sealed(parts))
<1> DEFINE K  == Seals(Y)
           S  == {p \in P : IsSealed(p)}
           ga == [p \in P |-> FlatMap(Keep(Y, K), ThoughtPiece(P, m)[p])]
           gr == [p \in P |-> FlatMap(Keep(Y, K), SealPiece(P, m)[p])]
<1>1. /\ IsMap(Keep(Y, K), Y, Y) /\ IsMap(Keep(P, S), P, P)
      /\ IsMap(ThoughtPiece(P, m), P, Y) /\ IsMap(SealPiece(P, m), P, Y)
  <2>1. \A s \in Seq(ThoughtItems(P, m)) : s \in Seq(Y)
    BY SeqMonotonic
  <2>2. IsMap(ThoughtPiece(P, m), P, ThoughtItems(P, m)) /\ IsMap(SealPiece(P, m), P, ThoughtItems(P, m))
    BY PieceMaps
  <2>3. IsMap(ThoughtPiece(P, m), P, Y) /\ IsMap(SealPiece(P, m), P, Y)
    BY <2>1, <2>2 DEF IsMap
  <2> QED
    BY <2>3, KeepType
<1>2. Sealed(parts) = FlatMap(Keep(P, S), parts) /\ Sealed(parts) \in Seq(P)
  <2>1. Sealed(parts) = FlatMap(Keep(P, S), parts)
    BY ThoseKept
  <2>2. FlatMap(Keep(P, S), parts) \in Seq(P)
    <3> HIDE DEF S
    <3> QED
      BY <1>1, FlatMapType
  <2> QED
    BY <2>1, <2>2
<1>3. ASSUME NEW p \in P
      PROVE  /\ ga[p] = IF IsSealed(p) THEN <<ThoughtItem(m, p)>> ELSE <<>>
             /\ gr[p] = IF IsSealed(p) THEN <<SealItem(m, p)>> ELSE <<>>
             /\ ThoughtItem(m, p) \in Y /\ SealItem(m, p) \in Y
  <2>9. ThoughtItem(m, p) \in Y /\ SealItem(m, p) \in Y
    BY ItemsKnown
  <2>1. PICK e \in Y : e = ThoughtItem(m, p) /\ e.k = "thought" /\ e.sig = p.sig
    BY <2>9, ItemFields
  <2>2. PICK f \in Y : f = SealItem(m, p) /\ f.k = "thought" /\ f.sig = p.sig
    BY <2>9, ItemFields
  <2>3. /\ FlatMap(Keep(Y, K), <<e>>) = Keep(Y, K)[e]
        /\ FlatMap(Keep(Y, K), <<f>>) = Keep(Y, K)[f]
        /\ FlatMap(Keep(Y, K), <<>>) = <<>>
    BY <1>1, FlatMapSingle, FlatMapEmpty
  <2>4. /\ Keep(Y, K)[e] = IF p.sig # <<>> THEN <<e>> ELSE <<>>
        /\ Keep(Y, K)[f] = IF p.sig # <<>> THEN <<f>> ELSE <<>>
    BY <2>1, <2>2 DEF Keep, Seals, IsSeal
  <2>5. /\ ThoughtPiece(P, m)[p] = IF p.kind = "thought" THEN <<e>> ELSE <<>>
        /\ SealPiece(P, m)[p] = IF p.kind = "thought" /\ p.sig # <<>> THEN <<f>> ELSE <<>>
    BY <2>1, <2>2 DEF ThoughtPiece, SealPiece
  <2>6. /\ ga[p] = FlatMap(Keep(Y, K), ThoughtPiece(P, m)[p])
        /\ gr[p] = FlatMap(Keep(Y, K), SealPiece(P, m)[p])
    OBVIOUS
  <2> HIDE DEF ga, gr, K
  <2>7. ga[p] = IF IsSealed(p) THEN <<e>> ELSE <<>>
    BY <2>3, <2>4, <2>5, <2>6 DEF IsSealed
  <2>8. gr[p] = IF IsSealed(p) THEN <<f>> ELSE <<>>
    BY <2>3, <2>4, <2>5, <2>6 DEF IsSealed
  <2> QED
    BY <2>1, <2>2, <2>7, <2>8
<1>4. IsMap(ga, P, Y) /\ IsMap(gr, P, Y)
  <2>1. \A p \in P : ga[p] \in Seq(Y) /\ gr[p] \in Seq(Y)
    <3> SUFFICES ASSUME NEW p \in P PROVE ga[p] \in Seq(Y) /\ gr[p] \in Seq(Y)
      OBVIOUS
    <3>1. PICK e \in Y, f \in Y : e = ThoughtItem(m, p) /\ f = SealItem(m, p)
      BY <1>3
    <3>2. /\ ga[p] = IF IsSealed(p) THEN <<e>> ELSE <<>>
          /\ gr[p] = IF IsSealed(p) THEN <<f>> ELSE <<>>
      BY <1>3, <3>1
    <3> HIDE DEF ga, gr
    <3> QED
      BY <3>2, EmptySeq
  <2> QED
    BY <2>1 DEF IsMap
<1>5. /\ FlatMap(Keep(Y, K), FlatMap(ThoughtPiece(P, m), parts)) = FlatMap(ga, parts)
      /\ FlatMap(Keep(Y, K), FlatMap(SealPiece(P, m), parts)) = FlatMap(gr, parts)
  <2> HIDE DEF K
  <2> QED
    BY <1>1, FlatMapTwice
<1>6. \A p \in P : Correspond(Pairs("anthropic", Y, P), ga[p], Keep(P, S)[p])
  <2> SUFFICES ASSUME NEW p \in P PROVE Correspond(Pairs("anthropic", Y, P), ga[p], Keep(P, S)[p])
    OBVIOUS
  <2>1. PICK e \in Y : e = ThoughtItem(m, p)
    BY <1>3
  <2>2. /\ ga[p] = (IF IsSealed(p) THEN <<e>> ELSE <<>>)
        /\ Keep(P, S)[p] = (IF IsSealed(p) THEN <<p>> ELSE <<>>)
    BY <1>3, <2>1 DEF Keep
  <2>3. IsSealed(p) => Same("anthropic", e, p)
    BY <2>1, ItemFields DEF Same, IsSealed
  <2> HIDE DEF ga, S
  <2> QED
    BY <2>2, <2>3 DEF Correspond, Pairs
<1>7. \A p \in P : Correspond(Pairs("responses", Y, P), gr[p], Keep(P, S)[p])
  <2> SUFFICES ASSUME NEW p \in P PROVE Correspond(Pairs("responses", Y, P), gr[p], Keep(P, S)[p])
    OBVIOUS
  <2>1. PICK e \in Y : e = SealItem(m, p)
    BY <1>3
  <2>2. /\ gr[p] = (IF IsSealed(p) THEN <<e>> ELSE <<>>)
        /\ Keep(P, S)[p] = (IF IsSealed(p) THEN <<p>> ELSE <<>>)
    BY <1>3, <2>1 DEF Keep
  <2>3. IsSealed(p) => Same("responses", e, p)
    BY <2>1, ItemFields DEF Same, IsSealed
  <2> HIDE DEF gr, S
  <2> QED
    BY <2>2, <2>3 DEF Correspond, Pairs
<1> HIDE DEF ga, gr, S, K
<1>8. Correspond(Pairs("anthropic", Y, P), FlatMap(ga, parts), FlatMap(Keep(P, S), parts))
  BY <1>1, <1>4, <1>6, FlatMapCorrespond
<1>9. Correspond(Pairs("responses", Y, P), FlatMap(gr, parts), FlatMap(Keep(P, S), parts))
  BY <1>1, <1>4, <1>7, FlatMapCorrespond
<1> QED
  BY <1>2, <1>5, <1>8, <1>9, CorrespondMatches DEF K

\* Every call is among the items, once, with its id; the rest of a Responses or Anthropic
\* message adds no other.
LEMMA CallsMatch ==
  ASSUME NEW d, NEW P, NEW m, NEW t, NEW msg, msg.parts \in Seq(P)
  PROVE  /\ FlatMap(CallPiece(P, m), msg.parts) \in Seq(OtherItems(P, m, t))
         /\ Matches(d, FlatMap(CallPiece(P, m), msg.parts), OfKind(msg, "call"))
<1> DEFINE parts == msg.parts
           S == {p \in P : p.kind = "call"}
           Y == OtherItems(P, m, t)
           c == CallPiece(P, m)
<1>1. IsMap(c, P, Y) /\ IsMap(Keep(P, S), P, P)
  BY PieceMaps, KeepType
<1>2. OfKind(msg, "call") = FlatMap(Keep(P, S), parts)
  BY OfKindKept
<1>3. \A p \in P : Correspond(Pairs(d, Y, P), c[p], Keep(P, S)[p])
  <2> SUFFICES ASSUME NEW p \in P PROVE Correspond(Pairs(d, Y, P), c[p], Keep(P, S)[p])
    OBVIOUS
  <2>1. PICK e \in Y : e = CallItem(m, p)
    BY ItemsKnown
  <2>2. /\ c[p] = (IF p.kind = "call" THEN <<e>> ELSE <<>>)
        /\ Keep(P, S)[p] = (IF p.kind = "call" THEN <<p>> ELSE <<>>)
    BY <2>1 DEF CallPiece, Keep
  <2>3. p.kind = "call" => Same(d, e, p)
    BY <2>1, ItemFields DEF Same
  <2> HIDE DEF c, S, Y
  <2> QED
    BY <2>2, <2>3 DEF Correspond, Pairs
<1> HIDE DEF S, Y, c
<1>4. Correspond(Pairs(d, Y, P), FlatMap(c, parts), FlatMap(Keep(P, S), parts))
  BY <1>1, <1>3, FlatMapCorrespond
<1>5. FlatMap(Keep(P, S), parts) \in Seq(P) /\ FlatMap(c, parts) \in Seq(Y)
  BY <1>1, FlatMapType
<1> QED
  BY <1>2, <1>4, <1>5, CorrespondMatches DEF c, Y

\* Of an Anthropic message, the blocks after the reasoning hold exactly its calls.
LEMMA BlockCalls ==
  ASSUME NEW P, NEW m, NEW t, NEW parts \in Seq(P), NEW Y, OtherItems(P, m, t) \subseteq Y
  PROVE  /\ FlatMap(BlockPiece(P, m), parts) \in Seq(OtherItems(P, m, t))
         /\ FlatMap(Keep(Y, CallsIn(Y)), FlatMap(BlockPiece(P, m), parts)) = FlatMap(CallPiece(P, m), parts)
<1> DEFINE K == CallsIn(Y)
           g == [p \in P |-> FlatMap(Keep(Y, K), BlockPiece(P, m)[p])]
<1>1. IsMap(BlockPiece(P, m), P, OtherItems(P, m, t)) /\ IsMap(Keep(Y, K), Y, Y)
  BY PieceMaps, KeepType
<1>2. IsMap(BlockPiece(P, m), P, Y)
  <2>1. \A s \in Seq(OtherItems(P, m, t)) : s \in Seq(Y)
    BY SeqMonotonic
  <2> QED
    BY <1>1, <2>1 DEF IsMap
<1>3. FlatMap(Keep(Y, K), FlatMap(BlockPiece(P, m), parts)) = FlatMap(g, parts)
  <2> HIDE DEF K
  <2> QED
    BY <1>1, <1>2, FlatMapTwice
<1>4. ASSUME NEW p \in P PROVE g[p] = CallPiece(P, m)[p]
  <2>9. TextItem(m, p.text) \in Y /\ CallItem(m, p) \in Y
    BY ItemsKnown
  <2>1. PICK e \in Y : e = TextItem(m, p.text) /\ e.k = "text"
    BY <2>9, ItemFields
  <2>2. PICK f \in Y : f = CallItem(m, p) /\ f.k = "call"
    BY <2>9, ItemFields
  <2>3. /\ FlatMap(Keep(Y, K), <<e>>) = Keep(Y, K)[e]
        /\ FlatMap(Keep(Y, K), <<f>>) = Keep(Y, K)[f]
        /\ FlatMap(Keep(Y, K), <<>>) = <<>>
    BY <1>1, FlatMapSingle, FlatMapEmpty
  <2>4. Keep(Y, K)[e] = <<>> /\ Keep(Y, K)[f] = <<f>>
    BY <2>1, <2>2 DEF Keep, CallsIn, IsCall
  <2>5. /\ BlockPiece(P, m)[p] = IF p.kind = "text" THEN <<e>> ELSE IF p.kind = "call" THEN <<f>> ELSE <<>>
        /\ CallPiece(P, m)[p] = IF p.kind = "call" THEN <<f>> ELSE <<>>
    BY <2>1, <2>2 DEF BlockPiece, CallPiece
  <2>6. g[p] = FlatMap(Keep(Y, K), BlockPiece(P, m)[p])
    OBVIOUS
  <2> HIDE DEF g, K
  <2> QED
    BY <2>3, <2>4, <2>5, <2>6
<1>5. g = CallPiece(P, m)
  BY <1>4 DEF CallPiece
<1>6. FlatMap(BlockPiece(P, m), parts) \in Seq(OtherItems(P, m, t))
  BY <1>1, FlatMapType
<1> QED
  BY <1>3, <1>5, <1>6

\* Gemini: sealed blocks and calls, each in its place.
LEMMA GeminiMatch ==
  ASSUME NEW P, NEW m, NEW t, NEW parts \in Seq(P)
  PROVE  /\ FlatMap(GeminiPiece(P, m), parts) \in Seq(AllItems(P, m, t))
         /\ Matches("gemini", Those(FlatMap(GeminiPiece(P, m), parts), LAMBDA e : IsSeal(e) \/ IsCall(e)),
                              Those(parts, LAMBDA p : IsSealed(p) \/ p.kind = "call"))
<1> DEFINE Y == AllItems(P, m, t)
           K == {e \in Y : IsSeal(e) \/ IsCall(e)}
           S == {p \in P : IsSealed(p) \/ p.kind = "call"}
           g == [p \in P |-> FlatMap(Keep(Y, K), GeminiPiece(P, m)[p])]
           q == FlatMap(GeminiPiece(P, m), parts)
<1>1. /\ IsMap(Keep(Y, K), Y, Y) /\ IsMap(Keep(P, S), P, P) /\ IsMap(GeminiPiece(P, m), P, Y)
  BY PieceMaps, KeepType
<1>2. q \in Seq(Y) /\ FlatMap(Keep(P, S), parts) \in Seq(P)
  <2> HIDE DEF Y, K, S
  <2> QED
    BY <1>1, FlatMapType
<1>3. ASSUME NEW p \in P
      PROVE  /\ g[p] = IF IsSealed(p) THEN <<ThoughtItem(m, p)>>
                       ELSE IF p.kind = "call" THEN <<CallItem(m, p)>> ELSE <<>>
             /\ ThoughtItem(m, p) \in Y /\ CallItem(m, p) \in Y
  <2>9. TextItem(m, p.text) \in Y /\ CallItem(m, p) \in Y /\ ThoughtItem(m, p) \in Y
    BY ItemsKnown DEF AllItems
  <2>1. PICK e \in Y : e = TextItem(m, p.text) /\ e.k = "text"
    BY <2>9, ItemFields
  <2>2. PICK f \in Y : f = CallItem(m, p) /\ f.k = "call"
    BY <2>9, ItemFields
  <2>3. PICK r \in Y : r = ThoughtItem(m, p) /\ r.k = "thought" /\ r.sig = p.sig
    BY <2>9, ItemFields
  <2>4. /\ FlatMap(Keep(Y, K), <<e>>) = Keep(Y, K)[e]
        /\ FlatMap(Keep(Y, K), <<f>>) = Keep(Y, K)[f]
        /\ FlatMap(Keep(Y, K), <<r>>) = Keep(Y, K)[r]
        /\ FlatMap(Keep(Y, K), <<>>) = <<>>
    <3> HIDE DEF Y, K
    <3> QED
      BY <1>1, FlatMapSingle, FlatMapEmpty
  <2>5. Keep(Y, K)[e] = <<>> /\ Keep(Y, K)[f] = <<f>>
        /\ Keep(Y, K)[r] = IF p.sig # <<>> THEN <<r>> ELSE <<>>
    <3> HIDE DEF Y
    <3> QED
      BY <2>1, <2>2, <2>3 DEF Keep, IsCall, IsSeal
  <2>6. GeminiPiece(P, m)[p] = IF p.kind = "text" THEN <<e>>
                               ELSE IF p.kind = "call" THEN <<f>>
                               ELSE IF IsSealed(p) THEN <<r>> ELSE <<>>
    BY <2>1, <2>2, <2>3 DEF GeminiPiece, When, IsSealed
  <2>7. g[p] = FlatMap(Keep(Y, K), GeminiPiece(P, m)[p])
    OBVIOUS
  <2> HIDE DEF g, K, Y
  <2>8. g[p] = IF IsSealed(p) THEN <<r>> ELSE IF p.kind = "call" THEN <<f>> ELSE <<>>
    BY <2>4, <2>5, <2>6, <2>7 DEF IsSealed
  <2> QED
    BY <2>2, <2>3, <2>8
<1>4. FlatMap(Keep(Y, K), q) = FlatMap(g, parts)
  <2> HIDE DEF Y, K
  <2> QED
    BY <1>1, FlatMapTwice
<1>5. IsMap(g, P, Y)
  <2>1. ASSUME NEW p \in P PROVE g[p] \in Seq(Y)
    <3>1. PICK e \in Y, f \in Y : e = ThoughtItem(m, p) /\ f = CallItem(m, p)
      BY <1>3
    <3>2. g[p] = IF IsSealed(p) THEN <<e>> ELSE IF p.kind = "call" THEN <<f>> ELSE <<>>
      BY <1>3, <3>1
    <3> HIDE DEF g, Y
    <3> QED
      BY <3>2, EmptySeq
  <2> QED
    BY <2>1 DEF IsMap
<1>6. \A p \in P : Correspond(Pairs("gemini", Y, P), g[p], Keep(P, S)[p])
  <2> SUFFICES ASSUME NEW p \in P PROVE Correspond(Pairs("gemini", Y, P), g[p], Keep(P, S)[p])
    OBVIOUS
  <2>1. PICK e \in Y, f \in Y : e = ThoughtItem(m, p) /\ f = CallItem(m, p)
    BY <1>3
  <2>2. g[p] = IF IsSealed(p) THEN <<e>> ELSE IF p.kind = "call" THEN <<f>> ELSE <<>>
    BY <1>3, <2>1
  <2>3. Keep(P, S)[p] = (IF IsSealed(p) \/ p.kind = "call" THEN <<p>> ELSE <<>>)
    BY DEF Keep
  <2>4. IsSealed(p) => Same("gemini", e, p)
    BY <2>1, ItemFields DEF Same, IsSealed
  <2>5. p.kind = "call" => Same("gemini", f, p)
    BY <2>1, ItemFields DEF Same
  <2> HIDE DEF g, S, Y
  <2> QED
    BY <2>2, <2>3, <2>4, <2>5 DEF Correspond, Pairs
<1>7. Those(parts, LAMBDA p : IsSealed(p) \/ p.kind = "call") = FlatMap(Keep(P, S), parts)
  BY ThoseKept
<1>8. Those(q, LAMBDA e : IsSeal(e) \/ IsCall(e)) = FlatMap(Keep(Y, K), q)
  <2> HIDE DEF Y, q
  <2> QED
    BY <1>2, ThoseKept
<1> HIDE DEF g, S, K
<1>9. Correspond(Pairs("gemini", Y, P), FlatMap(g, parts), FlatMap(Keep(P, S), parts))
  BY <1>1, <1>5, <1>6, FlatMapCorrespond
<1> QED
  BY <1>2, <1>4, <1>7, <1>8, <1>9, CorrespondMatches

\* Reasoning followed by other items: what is kept of the whole.
LEMMA SplitKept ==
  ASSUME NEW P, NEW m, NEW t, NEW a \in Seq(ThoughtItems(P, m)), NEW b \in Seq(OtherItems(P, m, t))
  PROVE  /\ a \o b \in Seq(AllItems(P, m, t))
         /\ Those(a \o b, IsSeal) = FlatMap(Keep(AllItems(P, m, t), Seals(AllItems(P, m, t))), a)
         /\ Those(a \o b, IsCall) = FlatMap(Keep(AllItems(P, m, t), CallsIn(AllItems(P, m, t))), b)
<1> DEFINE T == ThoughtItems(P, m)
           O == OtherItems(P, m, t)
           Y == AllItems(P, m, t)
           KS == Seals(Y)
           KC == CallsIn(Y)
<1>1. T \subseteq Y /\ O \subseteq Y /\ O \cap KS = {} /\ T \cap KC = {}
  BY ItemsKnown DEF AllItems, Seals, CallsIn, IsSeal, IsCall
<1>2. a \in Seq(Y) /\ b \in Seq(Y)
  BY <1>1, SeqMonotonic
<1>3. a \o b \in Seq(Y)
  BY <1>2, ConcatProperties
<1>4. Those(a \o b, IsSeal) = FlatMap(Keep(Y, KS), a \o b) /\ Those(a \o b, IsCall) = FlatMap(Keep(Y, KC), a \o b)
  BY <1>3, ThoseKept DEF Seals, CallsIn
<1> HIDE DEF T, O, Y, KS, KC
<1>5. IsMap(Keep(Y, KS), Y, Y) /\ IsMap(Keep(Y, KC), Y, Y)
  BY KeepType
<1>6. /\ FlatMap(Keep(Y, KS), a \o b) = FlatMap(Keep(Y, KS), a) \o FlatMap(Keep(Y, KS), b)
      /\ FlatMap(Keep(Y, KC), a \o b) = FlatMap(Keep(Y, KC), a) \o FlatMap(Keep(Y, KC), b)
  BY <1>2, <1>5, FlatMapConcat
<1>7. FlatMap(Keep(Y, KS), b) = <<>> /\ FlatMap(Keep(Y, KC), a) = <<>>
  <2>1. a \in Seq(T) /\ b \in Seq(O)
    BY DEF T, O
  <2> QED
    BY <1>1, <2>1, KeepNone
<1>8. FlatMap(Keep(Y, KS), a) \in Seq(Y) /\ FlatMap(Keep(Y, KC), b) \in Seq(Y)
  BY <1>2, <1>5, FlatMapType
<1>9. /\ FlatMap(Keep(Y, KS), a) \o <<>> = FlatMap(Keep(Y, KS), a)
      /\ <<>> \o FlatMap(Keep(Y, KC), b) = FlatMap(Keep(Y, KC), b)
  BY <1>8, ConcatEmptySeq
<1> QED
  BY <1>3, <1>4, <1>6, <1>7, <1>9 DEF Y, KS, KC

\* What Replayed says of one message and the items written for it.
GivesBack(d, q, msg) ==
    IF d = "gemini"
    THEN Matches(d, Those(q, LAMBDA e : IsSeal(e) \/ IsCall(e)),
                    Those(msg.parts, LAMBDA p : IsSealed(p) \/ p.kind = "call"))
    ELSE /\ Matches(d, Those(q, IsSeal), Sealed(msg.parts))
         /\ Matches(d, Those(q, IsCall), OfKind(msg, "call"))
         /\ \A j \in DOMAIN q : q[j].k = "thought" => \A i \in 1 .. j : q[i].k = "thought"

\* Anthropic gets its message back.
LEMMA AnthropicReturns ==
  ASSUME NEW h, NEW m, NEW P, h[m].role = "assistant", h[m].parts \in Seq(P)
  PROVE  /\ GivesBack("anthropic", AnthropicMessage(h, m), h[m])
         /\ AnthropicMessage(h, m) \in Seq(AllItems(P, m, <<>>))
<1> DEFINE parts == h[m].parts
           a == FlatMap(ThoughtPiece(P, m), parts)
           b == FlatMap(BlockPiece(P, m), parts)
           Y == AllItems(P, m, <<>>)
<1>1. AnthropicMessage(h, m) = a \o b
  BY AnthropicShape
<1>2. ThoughtItems(P, m) \subseteq Y /\ OtherItems(P, m, <<>>) \subseteq Y
  BY DEF AllItems
<1>3. a \in Seq(ThoughtItems(P, m))
  BY PieceMaps, FlatMapType
<1>4. b \in Seq(OtherItems(P, m, <<>>)) /\ FlatMap(Keep(Y, CallsIn(Y)), b) = FlatMap(CallPiece(P, m), parts)
  <2> HIDE DEF Y, parts
  <2>1. parts \in Seq(P)
    BY DEF parts
  <2> QED
    BY <1>2, <2>1, BlockCalls
<1>5. Matches("anthropic", FlatMap(Keep(Y, Seals(Y)), a), Sealed(parts))
  BY <1>2, SealsMatch
<1>6. Matches("anthropic", FlatMap(CallPiece(P, m), parts), OfKind(h[m], "call"))
  BY CallsMatch
<1> HIDE DEF a, b
<1>7. /\ a \o b \in Seq(Y) /\ Those(a \o b, IsSeal) = FlatMap(Keep(Y, Seals(Y)), a)
      /\ Those(a \o b, IsCall) = FlatMap(Keep(Y, CallsIn(Y)), b)
  BY <1>3, <1>4, SplitKept
<1>8. \A j \in DOMAIN (a \o b) : (a \o b)[j].k = "thought"
                                    => \A i \in 1 .. j : (a \o b)[i].k = "thought"
  <2>1. /\ \A e \in ThoughtItems(P, m) : e.k = "thought"
        /\ \A e \in OtherItems(P, m, <<>>) : e.k # "thought"
    BY ItemsKnown
  <2> QED
    BY <1>3, <1>4, <2>1, ThoughtsFirst
<1> HIDE DEF Y
<1> QED
  BY <1>1, <1>4, <1>5, <1>6, <1>7, <1>8 DEF GivesBack, Y

\* Responses gets its message back.
LEMMA ResponsesReturns ==
  ASSUME NEW h, NEW m, NEW P, h[m].role = "assistant", h[m].parts \in Seq(P)
  PROVE  /\ GivesBack("responses", ResponsesMessage(h, m), h[m])
         /\ ResponsesMessage(h, m) \in Seq(AllItems(P, m, Text(h[m])))
<1> DEFINE parts == h[m].parts
           t == Text(h[m])
           a == FlatMap(SealPiece(P, m), parts)
           w == When(t # <<>>, TextItem(m, t))
           c == FlatMap(CallPiece(P, m), parts)
           Y == AllItems(P, m, t)
           T == ThoughtItems(P, m)
           O == OtherItems(P, m, t)
<1>1. ResponsesMessage(h, m) = (a \o w) \o c
  BY ResponsesShape
<1>2. T \subseteq Y /\ O \subseteq Y
  BY DEF AllItems
<1>3. a \in Seq(T)
  BY PieceMaps, FlatMapType
<1>4. c \in Seq(O) /\ Matches("responses", c, OfKind(h[m], "call"))
  BY CallsMatch
<1>5. w \in Seq(O) /\ \A i \in DOMAIN w : ~ IsCall(w[i])
  <2>1. TextItem(m, t) \in O /\ TextItem(m, t).k = "text"
    BY ItemsKnown, ItemFields
  <2>2. PICK e \in O : e = TextItem(m, t) /\ e.k = "text"
    BY <2>1
  <2> HIDE DEF O
  <2> QED
    BY <2>2, EmptySeq DEF When, IsCall
<1>6. Matches("responses", FlatMap(Keep(Y, Seals(Y)), a), Sealed(parts))
  BY <1>2, SealsMatch
<1>10. FlatMap(Keep(Y, CallsIn(Y)), c) = c
  <2> DEFINE g == [p \in P |-> FlatMap(Keep(Y, CallsIn(Y)), CallPiece(P, m)[p])]
  <2>1. IsMap(CallPiece(P, m), P, O) /\ IsMap(Keep(Y, CallsIn(Y)), Y, Y)
    BY PieceMaps, KeepType
  <2>2. IsMap(CallPiece(P, m), P, Y)
    <3>1. \A s \in Seq(O) : s \in Seq(Y)
      BY <1>2, SeqMonotonic
    <3> HIDE DEF O, Y
    <3> QED
      BY <2>1, <3>1 DEF IsMap
  <2>3. FlatMap(Keep(Y, CallsIn(Y)), c) = FlatMap(g, parts)
    <3> HIDE DEF Y
    <3> QED
      BY <2>1, <2>2, FlatMapTwice
  <2>4. ASSUME NEW p \in P PROVE g[p] = CallPiece(P, m)[p]
    <3>1. PICK f \in Y : f = CallItem(m, p) /\ f.k = "call"
      BY <1>2, ItemsKnown, ItemFields
    <3>2. FlatMap(Keep(Y, CallsIn(Y)), <<f>>) = Keep(Y, CallsIn(Y))[f] /\ FlatMap(Keep(Y, CallsIn(Y)), <<>>) = <<>>
      BY <2>1, FlatMapSingle, FlatMapEmpty
    <3>3. Keep(Y, CallsIn(Y))[f] = <<f>>
      BY <3>1 DEF Keep, CallsIn, IsCall
    <3>4. CallPiece(P, m)[p] = IF p.kind = "call" THEN <<f>> ELSE <<>>
      BY <3>1 DEF CallPiece
    <3>5. g[p] = FlatMap(Keep(Y, CallsIn(Y)), CallPiece(P, m)[p])
      OBVIOUS
    <3> HIDE DEF g, Y
    <3> QED
      BY <3>2, <3>3, <3>4, <3>5
  <2>5. g = CallPiece(P, m)
    BY <2>4 DEF CallPiece
  <2> QED
    BY <2>3, <2>5
<1> HIDE DEF a, w, c, Y, T, O
<1>7. w \o c \in Seq(O) /\ (a \o w) \o c = a \o (w \o c)
  <2>1. w \o c \in Seq(O)
    BY <1>4, <1>5, ConcatProperties
  <2>2. a \in Seq(Y) /\ w \in Seq(Y) /\ c \in Seq(Y)
    BY <1>2, <1>3, <1>4, <1>5, SeqMonotonic
  <2>3. (a \o w) \o c = a \o (w \o c)
    BY <2>2, ConcatAssociative
  <2> QED
    BY <2>1, <2>3
<1>8. /\ a \o (w \o c) \in Seq(Y) /\ Those(a \o (w \o c), IsSeal) = FlatMap(Keep(Y, Seals(Y)), a)
      /\ Those(a \o (w \o c), IsCall) = FlatMap(Keep(Y, CallsIn(Y)), w \o c)
  <2>1. PICK v \in Seq(OtherItems(P, m, t)) : v = w \o c
    BY <1>7 DEF O
  <2>2. a \in Seq(ThoughtItems(P, m))
    BY <1>3 DEF T
  <2> HIDE DEF t
  <2>3. /\ a \o v \in Seq(AllItems(P, m, t))
        /\ Those(a \o v, IsSeal) = FlatMap(Keep(AllItems(P, m, t), Seals(AllItems(P, m, t))), a)
        /\ Those(a \o v, IsCall) = FlatMap(Keep(AllItems(P, m, t), CallsIn(AllItems(P, m, t))), v)
    BY <2>2, SplitKept
  <2> QED
    BY <2>1, <2>3 DEF Y
<1>9. FlatMap(Keep(Y, CallsIn(Y)), w \o c) = c
  <2>1. IsMap(Keep(Y, CallsIn(Y)), Y, Y)
    BY KeepType
  <2>2. w \in Seq(Y) /\ c \in Seq(Y)
    BY <1>2, <1>4, <1>5, SeqMonotonic
  <2>3. FlatMap(Keep(Y, CallsIn(Y)), w \o c) = FlatMap(Keep(Y, CallsIn(Y)), w) \o FlatMap(Keep(Y, CallsIn(Y)), c)
    BY <2>1, <2>2, FlatMapConcat
  <2>4. FlatMap(Keep(Y, CallsIn(Y)), w) = <<>>
    <3> DEFINE X == {e \in O : ~ IsCall(e)}
    <3>1. w \in Seq(X)
      BY <1>5, LenProperties, ElementOfSeq
    <3>2. X \subseteq Y /\ X \cap CallsIn(Y) = {}
      BY <1>2 DEF CallsIn
    <3> HIDE DEF X
    <3> QED
      BY <3>1, <3>2, KeepNone
  <2>5. <<>> \o c = c
    BY <2>2, ConcatEmptySeq
  <2> QED
    BY <1>10, <2>3, <2>4, <2>5
<1>11. \A j \in DOMAIN (a \o (w \o c)) : (a \o (w \o c))[j].k = "thought"
                                    => \A i \in 1 .. j : (a \o (w \o c))[i].k = "thought"
  <2>1. /\ \A e \in T : e.k = "thought"
        /\ \A e \in O : e.k # "thought"
    BY ItemsKnown DEF T, O
  <2> QED
    BY <1>3, <1>7, <2>1, ThoughtsFirst
<1> QED
  BY <1>1, <1>4, <1>6, <1>7, <1>8, <1>9, <1>11 DEF GivesBack, Y

\* Gemini gets its message back.
LEMMA GeminiReturns ==
  ASSUME NEW h, NEW m, NEW P, h[m].role # "tool", h[m].parts \in Seq(P)
  PROVE  /\ GivesBack("gemini", GeminiMessage(h, m), h[m])
         /\ GeminiMessage(h, m) \in Seq(AllItems(P, m, <<>>))
BY GeminiShape, GeminiMatch DEF GivesBack

Elements(s)   == {s[i] : i \in 1 .. Len(s)}
IsSequence(s) == s \in Seq(Elements(s))

\* A sequence over a set has its elements in it.
LEMMA SequenceOver ==
  ASSUME NEW X, NEW s \in Seq(X)
  PROVE  IsSequence(s) /\ Elements(s) \subseteq X /\ Len(s) \in Nat /\ DOMAIN s = 1 .. Len(s)
<1>1. Len(s) \in Nat /\ DOMAIN s = 1 .. Len(s) /\ \A i \in 1 .. Len(s) : s[i] \in X
  BY LenProperties, ElementOfSeq
<1>2. s \in [1 .. Len(s) -> Elements(s)]
  BY <1>1, LenProperties DEF Elements
<1>3. s \in Seq(Elements(s))
  BY <1>1, <1>2, SeqDef
<1> QED
  BY <1>1, <1>3 DEF IsSequence, Elements

\* Joining sequences joins their elements.
LEMMA SequenceJoin ==
  ASSUME NEW s, NEW u, IsSequence(s), IsSequence(u), NEW x
  PROVE  /\ IsSequence(s \o u) /\ Elements(s \o u) \subseteq Elements(s) \cup Elements(u)
         /\ IsSequence(Append(s, x)) /\ IsSequence(<<x>>) /\ Elements(<<x>>) \subseteq {x}
<1> DEFINE X == Elements(s) \cup Elements(u)
           Z == Elements(s) \cup {x}
<1>1. s \in Seq(X) /\ u \in Seq(X) /\ s \in Seq(Z) /\ x \in Z
  BY SeqMonotonic DEF IsSequence
<1> HIDE DEF X, Z
<1>2. s \o u \in Seq(X) /\ Append(s, x) \in Seq(Z)
  BY <1>1, ConcatProperties, AppendProperties
<1>3. <<x>> \in Seq({x})
  BY SingleType
<1> QED
  BY <1>2, <1>3, SequenceOver DEF X

\* The items of one message among those of all of them.
LEMMA ItemsOfMessage ==
  ASSUME NEW n \in Nat, NEW f, f = [i \in 1 .. n |-> f[i]],
         \A i \in 1 .. n : IsSequence(f[i]) /\ \A e \in Elements(f[i]) : e.m = i,
         NEW m \in 1 .. n
  PROVE  ItemsOf(FlattenSeq(f), m) = f[m]
<1> DEFINE Y == UNION {Elements(f[i]) : i \in 1 .. n}
           K == {e \in Y : e.m = m}
           id == [x \in Seq(Y) |-> x]
           g == [i \in 1 .. n |-> FlatMap(Keep(Y, K), f[i])]
<1>1. \A i \in 1 .. n : f[i] \in Seq(Y)
  <2> SUFFICES ASSUME NEW i \in 1 .. n PROVE f[i] \in Seq(Y)
    OBVIOUS
  <2>1. Elements(f[i]) \subseteq Y /\ f[i] \in Seq(Elements(f[i]))
    BY DEF IsSequence
  <2> HIDE DEF Y
  <2> QED
    BY <2>1, SeqMonotonic
<1>2. f \in Seq(Seq(Y)) /\ DOMAIN f = 1 .. n
  <2> HIDE DEF Y
  <2> QED
    BY <1>1
<1>3. FlattenSeq(f) \in Seq(Y)
  BY <1>2, FlattenType
<1>4. Those(FlattenSeq(f), LAMBDA e : e.m = m) = FlatMap(Keep(Y, K), FlattenSeq(f))
  <2> HIDE DEF Y
  <2>3. PICK s \in Seq(Y) : s = FlattenSeq(f)
    BY <1>3
  <2>1. DOMAIN s = 1 .. Len(s) /\ \A i \in DOMAIN s : s[i] \in Y
    BY LenProperties, ElementOfSeq
  <2>2. Those(s, LAMBDA e : e.m = m) = FlatMap(Keep(Y, K), s)
    BY <2>1 DEF Those, Each, When, FlatMap, Keep
  <2> QED
    BY <2>2, <2>3
<1>5. FlattenSeq(f) = FlatMap(id, f)
  <2>1. [i \in DOMAIN f |-> id[f[i]]] = f
    <3> HIDE DEF Y
    <3> QED
      BY <1>1, <1>2
  <2> QED
    BY <2>1 DEF FlatMap
<1>6. FlatMap(Keep(Y, K), FlatMap(id, f)) = FlatMap([x \in Seq(Y) |-> FlatMap(Keep(Y, K), id[x])], f)
  <2>1. IsMap(Keep(Y, K), Y, Y) /\ IsMap(id, Seq(Y), Y)
    BY KeepType DEF IsMap
  <2> HIDE DEF Y, K, id
  <2> QED
    BY <1>2, <2>1, FlatMapTwice
<1>7. [i \in DOMAIN f |-> [x \in Seq(Y) |-> FlatMap(Keep(Y, K), id[x])][f[i]]] = g
  <2> HIDE DEF Y, K
  <2> QED
    BY <1>1, <1>2
<1>8. Those(FlattenSeq(f), LAMBDA e : e.m = m) = FlattenSeq(g)
  BY <1>4, <1>5, <1>6, <1>7 DEF FlatMap
<1>9. ASSUME NEW i \in 1 .. n PROVE g[i] = IF i = m THEN f[m] ELSE <<>>
  <2>1. f[i] \in Seq(Elements(f[i])) /\ Elements(f[i]) \subseteq Y /\ \A e \in Elements(f[i]) : e.m = i
    BY DEF IsSequence
  <2>2. DOMAIN f[i] = 1 .. Len(f[i]) /\ \A j \in DOMAIN f[i] : f[i][j] \in Elements(f[i])
    BY <2>1, LenProperties, ElementOfSeq
  <2>3. CASE i = m
    <3>1. [j \in DOMAIN f[i] |-> Keep(Y, K)[f[i][j]]] = [j \in DOMAIN f[i] |-> Keep(Elements(f[i]), Elements(f[i]))[f[i][j]]]
      BY <2>1, <2>2, <2>3 DEF Keep
    <3>2. FlatMap(Keep(Y, K), f[i]) = FlatMap(Keep(Elements(f[i]), Elements(f[i])), f[i])
      BY <3>1 DEF FlatMap
    <3>3. /\ IsMap(Keep(Elements(f[i]), Elements(f[i])), Elements(f[i]), Elements(f[i]))
          /\ \A x \in Elements(f[i]) : Keep(Elements(f[i]), Elements(f[i]))[x] = <<x>>
      BY KeepType DEF Keep
    <3>4. FlatMap(Keep(Elements(f[i]), Elements(f[i])), f[i]) = f[i]
      BY <2>1, <3>3, FlatMapAllNone
    <3> QED
      BY <2>3, <3>2, <3>4
  <2>4. CASE i # m
    <3>1. Elements(f[i]) \cap K = {}
      BY <2>1, <2>4
    <3>2. FlatMap(Keep(Y, K), f[i]) = <<>>
      <4> HIDE DEF Y, K
      <4> QED
        BY <2>1, <3>1, KeepNone
    <3> QED
      BY <2>4, <3>2
  <2> QED
    BY <2>3, <2>4
<1>10. FlattenSeq(g) = f[m]
  <2>1. g \in Seq(Seq(Y)) /\ DOMAIN g = 1 .. n
    <3>1. \A i \in 1 .. n : g[i] \in Seq(Y)
      BY <1>1, <1>9, EmptySeq
    <3>2. DOMAIN g = 1 .. n
      OBVIOUS
    <3> HIDE DEF Y
    <3>3. g \in [1 .. n -> Seq(Y)]
      BY <3>1
    <3> HIDE DEF g
    <3> QED
      BY <3>2, <3>3, SeqDef
  <2>2. m \in DOMAIN g /\ \A i \in DOMAIN g \ {m} : g[i] = <<>>
    BY <1>9, <2>1
  <2>3. FlattenSeq(g) = g[m]
    <3> HIDE DEF g, Y
    <3> QED
      BY <2>1, <2>2, FlattenOne
  <2> QED
    BY <1>9, <2>3
<1> QED
  BY <1>8, <1>10 DEF ItemsOf

Written(m, q) == IsSequence(q) /\ \A e \in Elements(q) : e.m = m

\* Items of one message are written for it.
LEMMA WrittenOver ==
  ASSUME NEW m, NEW X, \A e \in X : e.m = m, NEW q \in Seq(X)
  PROVE  Written(m, q)
BY SequenceOver DEF Written

\* The results of a tool message, by whatever name each is answered.
LEMMA ResultsWritten ==
  ASSUME NEW m, NEW s, IsSequence(s), NEW name
  PROVE  Written(m, FlattenSeq([i \in DOMAIN s |-> <<ResultItem(m, s[i], name[i])>>]))
<1> DEFINE X == {ResultItem(m, s[i], name[i]) : i \in DOMAIN s}
           f == [i \in DOMAIN s |-> <<ResultItem(m, s[i], name[i])>>]
<1>1. DOMAIN s = 1 .. Len(s) /\ Len(s) \in Nat
  BY LenProperties DEF IsSequence
<1>2. \A e \in X : e.m = m
  BY DEF ResultItem
<1>3. \A i \in DOMAIN s : <<ResultItem(m, s[i], name[i])>> \in Seq(X)
  <2> SUFFICES ASSUME NEW i \in DOMAIN s PROVE <<ResultItem(m, s[i], name[i])>> \in Seq(X)
    OBVIOUS
  <2>1. ResultItem(m, s[i], name[i]) \in X
    OBVIOUS
  <2> HIDE DEF X
  <2> QED
    BY <2>1, SingleType
<1>4. f \in Seq(Seq(X))
  <2> HIDE DEF X
  <2> QED
    BY <1>1, <1>3
<1>5. FlattenSeq(f) \in Seq(X)
  BY <1>4, FlattenType
<1> HIDE DEF X
<1> QED
  BY <1>2, <1>5, WrittenOver

\* The messages whose parts are a sequence; those that a provider gave are the assistant's.
MessageShape(msg) == IsSequence(msg.parts) /\ (msg.from # "" => msg.role = "assistant")
HistoryShape(h)   == IsSequence(h) /\ \A msg \in Elements(h) : MessageShape(msg)

\* Every message of a history is written as items marked with it, by the dialects that
\* seal their reasoning.
LEMMA MessageWritten ==
  ASSUME NEW h, NEW m, IsSequence(h[m].parts)
  PROVE  /\ Written(m, AnthropicMessage(h, m))
         /\ Written(m, ResponsesMessage(h, m))
         /\ Written(m, GeminiMessage(h, m))
<1> DEFINE P == Elements(h[m].parts)
           results == OfKind(h[m], "result")
<1>1. h[m].parts \in Seq(P)
  BY DEF IsSequence
<1>2. \A t : \A e \in AllItems(P, m, t) : e.m = m
  BY ItemsKnown DEF AllItems
<1>3. IsSequence(results)
  <2>1. results = FlatMap(Keep(P, {p \in P : p.kind = "result"}), h[m].parts)
    BY <1>1, OfKindKept
  <2>2. results \in Seq(P)
    BY <1>1, <2>1, KeepType, FlatMapType
  <2> QED
    BY <2>2, SequenceOver
<1>4. Written(m, FlattenSeq([i \in DOMAIN results |-> <<ResultItem(m, results[i], <<>>)>>]))
  <2> DEFINE name == [i \in DOMAIN results |-> <<>>]
  <2>1. Written(m, FlattenSeq([i \in DOMAIN results |-> <<ResultItem(m, results[i], name[i])>>]))
    <3> HIDE DEF name, results
    <3> QED
      BY <1>3, ResultsWritten
  <2>2. [i \in DOMAIN results |-> <<ResultItem(m, results[i], name[i])>>]
          = [i \in DOMAIN results |-> <<ResultItem(m, results[i], <<>>)>>]
    OBVIOUS
  <2> QED
    BY <2>1, <2>2
<1>5. Written(m, FlattenSeq([i \in DOMAIN results |-> <<ResultItem(m, results[i], NameOf(h, m, results[i].id))>>]))
  <2> DEFINE name == [i \in DOMAIN results |-> NameOf(h, m, results[i].id)]
  <2>1. Written(m, FlattenSeq([i \in DOMAIN results |-> <<ResultItem(m, results[i], name[i])>>]))
    <3> HIDE DEF name, results
    <3> QED
      BY <1>3, ResultsWritten
  <2>2. [i \in DOMAIN results |-> <<ResultItem(m, results[i], name[i])>>]
          = [i \in DOMAIN results |-> <<ResultItem(m, results[i], NameOf(h, m, results[i].id))>>]
    OBVIOUS
  <2> QED
    BY <2>1, <2>2
<1>6. Written(m, <<TextItem(m, Text(h[m]))>>)
  <2>1. PICK e : e = TextItem(m, Text(h[m])) /\ e.m = m
    BY ItemFields
  <2>2. <<e>> \in Seq({e})
    BY SingleType
  <2>3. Written(m, <<e>>)
    BY <2>1, <2>2, WrittenOver
  <2> QED
    BY <2>1, <2>3
<1>7. CASE h[m].role = "tool"
  <2>1. /\ AnthropicMessage(h, m) = FlattenSeq([i \in DOMAIN results |-> <<ResultItem(m, results[i], <<>>)>>])
        /\ ResponsesMessage(h, m) = FlattenSeq([i \in DOMAIN results |-> <<ResultItem(m, results[i], <<>>)>>])
    BY <1>7 DEF AnthropicMessage, ResponsesMessage, ResultItems, Each
  <2>2. GeminiMessage(h, m)
          = FlattenSeq([i \in DOMAIN results |-> <<ResultItem(m, results[i], NameOf(h, m, results[i].id))>>])
    BY <1>7 DEF GeminiMessage, ResultItems, Each
  <2> QED
    BY <1>4, <1>5, <2>1, <2>2
<1>8. ASSUME h[m].role # "tool" PROVE Written(m, GeminiMessage(h, m))
  BY <1>1, <1>2, <1>8, GeminiReturns, WrittenOver
<1>9. CASE h[m].role = "assistant"
  BY <1>1, <1>2, <1>8, <1>9, AnthropicReturns, ResponsesReturns, WrittenOver
<1>10. CASE h[m].role \notin {"tool", "assistant"}
  <2>1. /\ AnthropicMessage(h, m) = <<TextItem(m, Text(h[m]))>>
        /\ ResponsesMessage(h, m) = <<TextItem(m, Text(h[m]))>>
    BY <1>10 DEF AnthropicMessage, ResponsesMessage
  <2> QED
    BY <1>6, <1>8, <1>10, <2>1
<1> QED
  BY <1>7, <1>9, <1>10

\* A request returns every message of its own provider.
LEMMA HistoryReplayed ==
  ASSUME HistoryShape(history), NEW m \in DOMAIN history,
         NEW d \in {"responses", "anthropic", "gemini"}, history[m].from = d
  PROVE  Replayed(d, m)
<1> DEFINE n == Len(history)
           f == [i \in DOMAIN history |->
                   CASE d = "chat"      -> ChatMessage(history, i)
                     [] d = "responses" -> ResponsesMessage(history, i)
                     [] d = "anthropic" -> AnthropicMessage(history, i)
                     [] d = "gemini"    -> GeminiMessage(history, i)
                     [] d = "ollama"    -> OllamaMessage(history, i)]
           q == ItemsOf(Encode(d, history), m)
<1>1. /\ n \in Nat /\ DOMAIN history = 1 .. n
      /\ \A i \in 1 .. n : MessageShape(history[i])
  BY SequenceOver DEF HistoryShape, IsSequence, Elements
<1>2. Encode(d, history) = FlattenSeq(f)
  BY DEF Encode
<1>3. \A i \in 1 .. n : f[i] = IF d = "responses" THEN ResponsesMessage(history, i)
                              ELSE IF d = "anthropic" THEN AnthropicMessage(history, i)
                              ELSE GeminiMessage(history, i)
  BY <1>1
<1>4. f = [i \in 1 .. n |-> f[i]]
  BY <1>1
<1> HIDE DEF f
<1>5. \A i \in 1 .. n : Written(i, f[i])
  BY <1>1, <1>3, MessageWritten DEF MessageShape
<1>6. q = f[m]
  <2>1. \A i \in 1 .. n : IsSequence(f[i]) /\ \A e \in Elements(f[i]) : e.m = i
    BY <1>5 DEF Written
  <2>2. ItemsOf(FlattenSeq(f), m) = f[m]
    <3> HIDE DEF n
    <3>1. n \in Nat /\ m \in 1 .. n
      BY <1>1
    <3> QED
      BY <1>4, <2>1, <3>1, ItemsOfMessage
  <2> QED
    BY <1>2, <2>2
<1>7. GivesBack(d, f[m], history[m])
  <2>1. MessageShape(history[m]) /\ history[m].role = "assistant"
    BY <1>1 DEF MessageShape
  <2>2. history[m].parts \in Seq(Elements(history[m].parts))
    BY <2>1 DEF MessageShape, IsSequence
  <2>3. /\ GivesBack("anthropic", AnthropicMessage(history, m), history[m])
        /\ GivesBack("responses", ResponsesMessage(history, m), history[m])
        /\ GivesBack("gemini", GeminiMessage(history, m), history[m])
    BY <2>1, <2>2, AnthropicReturns, ResponsesReturns, GeminiReturns
  <2> QED
    BY <1>1, <1>3, <2>3
<1> QED
  BY <1>6, <1>7 DEF Replayed, GivesBack
(* The invariant *)

AccShape(a) ==
    /\ a = [parts |-> a.parts, kind |-> a.kind, text |-> a.text, calls |-> a.calls, stop |-> a.stop]
    /\ IsSequence(a.parts) /\ IsSequence(a.calls)

ShapeInv == AccShape(acc) /\ HistoryShape(history)

\* The accumulator keeps its parts a sequence: ending a part,
LEMMA FlushShape == ASSUME NEW a, AccShape(a), NEW sig PROVE AccShape(Flush(a, sig))
<1> DEFINE part == IF a.kind = "thought" THEN [kind |-> "thought", text |-> a.text, sig |-> sig]
                                      ELSE [kind |-> "text", text |-> a.text]
<1>1. IsSequence(Append(a.parts, part))
  <2> HIDE DEF part
  <2> QED
    BY SequenceJoin DEF AccShape
<1>2. PICK p : p = part
  OBVIOUS
<1>3. Flush(a, sig) = IF a.kind = "" \/ (a.text = <<>> /\ sig = <<>>) THEN [a EXCEPT !.kind = ""]
                      ELSE [a EXCEPT !.parts = Append(@, p), !.kind = "", !.text = <<>>]
  BY <1>2 DEF Flush
<1> HIDE DEF part
<1> QED
  BY <1>1, <1>2, <1>3 DEF AccShape

\* a delta,
LEMMA DeltaShape == ASSUME NEW a, AccShape(a), NEW kind, NEW text PROVE AccShape(Delta(a, kind, text))
<1>1. PICK f : f = Flush(a, <<>>) /\ AccShape(f)
  BY FlushShape
<1>2. PICK b : b = (IF a.kind = kind THEN a ELSE [f EXCEPT !.kind = kind])
  OBVIOUS
<1>3. AccShape(b)
  BY <1>1, <1>2 DEF AccShape
<1>4. Delta(a, kind, text) = [b EXCEPT !.text = @ \o text]
  BY <1>1, <1>2 DEF Delta
<1> QED
  BY <1>3, <1>4 DEF AccShape

\* any event,
LEMMA ConsumeShape == ASSUME NEW a, AccShape(a), NEW e PROVE AccShape(Consume(a, e))
<1>1. CASE e.type = "text_delta"
  BY <1>1, DeltaShape DEF Consume
<1>2. CASE e.type = "reasoning_delta"
  BY <1>2, DeltaShape DEF Consume
<1>3. CASE e.type = "reasoning_done"
  BY <1>3, DeltaShape, FlushShape DEF Consume
<1>4. CASE e.type = "tool_call_end"
  <2>1. PICK f : f = Flush(a, <<>>) /\ AccShape(f)
    BY FlushShape
  <2>2. PICK c, p : Consume(a, e) = [f EXCEPT !.calls = Append(@, c), !.parts = Append(@, p)]
    BY <1>4, <2>1 DEF Consume
  <2>3. IsSequence(Append(f.calls, c)) /\ IsSequence(Append(f.parts, p))
    BY <2>1, SequenceJoin DEF AccShape
  <2> QED
    BY <2>1, <2>2, <2>3 DEF AccShape
<1>5. CASE e.type = "message_done"
  BY <1>5 DEF Consume, AccShape
<1>6. CASE e.type \notin {"text_delta", "reasoning_delta", "reasoning_done", "tool_call_end", "message_done"}
  BY <1>6 DEF Consume
<1> QED
  BY <1>1, <1>2, <1>3, <1>4, <1>5, <1>6

\* and the empty accumulator to begin with.
LEMMA NothingShape == AccShape(Nothing)
<1>1. <<>> \in Seq(Elements(<<>>))
  BY EmptySeq
<1> QED
  BY <1>1 DEF AccShape, Nothing, IsSequence

\* The history keeps its shape as it grows: by a well-formed continuation,
LEMMA HistoryGrows ==
  ASSUME NEW h, NEW g, HistoryShape(h), HistoryShape(g)
  PROVE  HistoryShape(h \o g)
<1>1. IsSequence(h \o g) /\ Elements(h \o g) \subseteq Elements(h) \cup Elements(g)
  BY SequenceJoin DEF HistoryShape
<1> QED
  BY <1>1 DEF HistoryShape

\* which one message is,
LEMMA OneMessage ==
  ASSUME NEW msg, MessageShape(msg)
  PROVE  HistoryShape(<<msg>>)
<1>1. IsSequence(<<>>)
  BY EmptySeq DEF IsSequence
<1>2. IsSequence(<<msg>>) /\ Elements(<<msg>>) \subseteq {msg}
  BY <1>1, SequenceJoin
<1> QED
  BY <1>2 DEF HistoryShape

\* and none,
LEMMA NoMessage == HistoryShape(<<>>)
<1>1. <<>> \in Seq(Elements(<<>>)) /\ Elements(<<>>) = {}
  BY EmptySeq DEF Elements
<1> QED
  BY <1>1 DEF HistoryShape, IsSequence

\* and the user's next turn.
LEMMA UserShape == HistoryShape(<<User>>)
<1>1. IsSequence(User.parts)
  <2>1. PICK p : User.parts = <<p>>
    BY DEF User
  <2>2. <<p>> \in Seq({p})
    BY SingleType
  <2> QED
    BY <2>1, <2>2, SequenceOver
<1>2. User.from = ""
  BY DEF User
<1> QED
  BY <1>1, <1>2, OneMessage DEF MessageShape

\* Every step keeps the shape of the conversation.
LEMMA ShapeNext == ShapeInv /\ [WireNext]_wireVars => ShapeInv'
<1> SUFFICES ASSUME ShapeInv, [WireNext]_wireVars PROVE ShapeInv'
  OBVIOUS
<1>1. CASE Deliver
  <2>1. acc' = Consume(acc, Head(out)) /\ history' = history
    BY <1>1 DEF Deliver
  <2>2. AccShape(Consume(acc, Head(out)))
    BY ConsumeShape DEF ShapeInv
  <2>3. AccShape(acc)'
    BY <2>1, <2>2
  <2> QED
    BY <2>1, <2>3 DEF ShapeInv
<1>2. CASE Close
  <2> DEFINE said == When(Message # <<>>, [role |-> "assistant", parts |-> Message, from |-> dialect])
             rest == IF acc.calls = <<>> THEN <<User>> ELSE Results
  <2>1. acc' = Nothing /\ history' = history \o said \o rest
    BY <1>2 DEF Close, NoStream
  <2>2. HistoryShape(said)
    <3>1. IsSequence(Message)
      BY FlushShape DEF ShapeInv, Message, AccShape
    <3>2. PICK msg : msg = [role |-> "assistant", parts |-> Message, from |-> dialect]
      OBVIOUS
    <3>3. MessageShape(msg)
      BY <3>1, <3>2 DEF MessageShape
    <3>4. said = IF Message # <<>> THEN <<msg>> ELSE <<>>
      BY <3>2 DEF When
    <3> HIDE DEF said
    <3> QED
      BY <3>3, <3>4, OneMessage, NoMessage
  <2>3. HistoryShape(Results)
    <3> DEFINE result(i) == [role |-> "tool", from |-> "",
               parts |-> <<[kind |-> "result", id |-> acc.calls[i].id, of |-> <<turn, i>>]>>]
               X == {result(i) : i \in 1 .. Len(acc.calls)}
    <3>1. DOMAIN acc.calls = 1 .. Len(acc.calls) /\ Len(acc.calls) \in Nat
      BY LenProperties DEF ShapeInv, AccShape, IsSequence
    <3>2. Results = [i \in 1 .. Len(acc.calls) |-> result(i)]
      BY <3>1 DEF Results
    <3>3. Results \in Seq(X)
      <4>1. \A i \in 1 .. Len(acc.calls) : result(i) \in X
        OBVIOUS
      <4> HIDE DEF X, result
      <4> QED
        BY <3>1, <3>2, <4>1
    <3>4. \A msg \in X : MessageShape(msg)
      <4> SUFFICES ASSUME NEW i \in 1 .. Len(acc.calls) PROVE MessageShape(result(i))
        OBVIOUS
      <4>1. PICK p : p = [kind |-> "result", id |-> acc.calls[i].id, of |-> <<turn, i>>]
        OBVIOUS
      <4>2. IsSequence(<<p>>)
        BY SingleType, SequenceOver
      <4>3. result(i).parts = <<p>> /\ result(i).from = ""
        BY <4>1
      <4> HIDE DEF result
      <4> QED
        BY <4>2, <4>3 DEF MessageShape
    <3> HIDE DEF X
    <3> QED
      BY <3>3, <3>4, SequenceOver DEF HistoryShape
  <2>4. HistoryShape(rest)
    BY <2>3, UserShape
  <2> HIDE DEF said, rest
  <2>5. HistoryShape(history \o said \o rest)
    <3>1. HistoryShape(history \o said)
      BY <2>2, HistoryGrows DEF ShapeInv
    <3> QED
      BY <2>4, <3>1, HistoryGrows
  <2>6. HistoryShape(history)'
    BY <2>1, <2>5
  <2>7. AccShape(acc)'
    BY <2>1, NothingShape
  <2> QED
    BY <2>6, <2>7 DEF ShapeInv
<1>3. CASE acc' = Nothing /\ history' = history
  <2>1. AccShape(acc)'
    BY <1>3, NothingShape
  <2> QED
    BY <1>3, <2>1 DEF ShapeInv
<1>4. CASE UNCHANGED <<acc, history>>
  BY <1>4 DEF ShapeInv
<1>5. \/ Deliver \/ Close \/ (acc' = Nothing /\ history' = history) \/ UNCHANGED <<acc, history>>
  BY DEF WireNext, wireVars, stream, Ask, AttemptFails, AskFails, Answer, ReadChunk, ReadEnd, ReadFails,
     EndsEarly, DeliverError, Cancel, NoStream
<1> QED
  BY <1>1, <1>2, <1>3, <1>4, <1>5

\* Whatever is said in whatever order, over any number of turns and any providers: a
\* provider that seals its reasoning is sent every sealed block it gave with its seal, in
\* order, with the calls, and where the dialect wants it ahead of the rest (encode.go,
\* responses_types.go, assistantAccum).
THEOREM SealsReplayed == WireSpec => []ThoughtsReplayed
<1>1. WireInit => ShapeInv
  <2> SUFFICES ASSUME WireInit PROVE ShapeInv
    OBVIOUS
  <2> QED
    BY NothingShape, UserShape DEF WireInit, ShapeInv
<1>2. ShapeInv => ThoughtsReplayed
  BY HistoryReplayed DEF ShapeInv, ThoughtsReplayed
<1> QED
  BY <1>1, <1>2, ShapeNext, PTL DEF WireSpec
-----------------------------------------------------------------------------
(* Every call has its answer in the next request                           *)

\* What message m of a history is written as.
EncodedMessage(d, h, m) ==
    CASE d = "chat"      -> ChatMessage(h, m)
      [] d = "responses" -> ResponsesMessage(h, m)
      [] d = "anthropic" -> AnthropicMessage(h, m)
      [] d = "gemini"    -> GeminiMessage(h, m)
      [] d = "ollama"    -> OllamaMessage(h, m)

\* Items without calls, then the items of the calls.
LEMMA CallsAfter ==
  ASSUME NEW P, NEW m, NEW t, NEW a, NEW parts \in Seq(P),
         a \in Seq({e \in AllItems(P, m, t) : ~ IsCall(e)})
  PROVE  /\ a \o FlatMap(CallPiece(P, m), parts) \in Seq(AllItems(P, m, t))
         /\ Those(a \o FlatMap(CallPiece(P, m), parts), IsCall) = FlatMap(CallPiece(P, m), parts)
<1> DEFINE Y == AllItems(P, m, t)
           X == {e \in Y : ~ IsCall(e)}
           O == OtherItems(P, m, t)
           c == FlatMap(CallPiece(P, m), parts)
           K == CallsIn(Y)
           g == [p \in P |-> FlatMap(Keep(Y, K), CallPiece(P, m)[p])]
<1>1. IsMap(CallPiece(P, m), P, O) /\ IsMap(Keep(Y, K), Y, Y)
  BY PieceMaps, KeepType
<1>2. IsMap(CallPiece(P, m), P, Y)
  <2>1. \A s \in Seq(O) : s \in Seq(Y)
    BY SeqMonotonic DEF AllItems
  <2> HIDE DEF O, Y
  <2> QED
    BY <1>1, <2>1 DEF IsMap
<1>3. FlatMap(Keep(Y, K), c) = FlatMap(g, parts)
  <2> HIDE DEF Y, K
  <2> QED
    BY <1>1, <1>2, FlatMapTwice
<1>4. ASSUME NEW p \in P PROVE g[p] = CallPiece(P, m)[p]
  <2>1. PICK f \in Y : f = CallItem(m, p) /\ f.k = "call"
    BY ItemsKnown, ItemFields DEF AllItems
  <2>2. FlatMap(Keep(Y, K), <<f>>) = Keep(Y, K)[f] /\ FlatMap(Keep(Y, K), <<>>) = <<>>
    BY <1>1, FlatMapSingle, FlatMapEmpty
  <2>3. Keep(Y, K)[f] = <<f>>
    BY <2>1 DEF Keep, CallsIn, IsCall
  <2>4. CallPiece(P, m)[p] = IF p.kind = "call" THEN <<f>> ELSE <<>>
    BY <2>1 DEF CallPiece
  <2>5. g[p] = FlatMap(Keep(Y, K), CallPiece(P, m)[p])
    OBVIOUS
  <2> HIDE DEF g, Y, K
  <2> QED
    BY <2>2, <2>3, <2>4, <2>5
<1>5. g = CallPiece(P, m)
  BY <1>4 DEF CallPiece
<1>6. FlatMap(Keep(Y, K), c) = c
  BY <1>3, <1>5
<1>7. c \in Seq(Y)
  <2> HIDE DEF Y
  <2> QED
    BY <1>2, FlatMapType
<1>8. X \subseteq Y /\ X \cap K = {} /\ a \in Seq(X)
  BY DEF CallsIn
<1> HIDE DEF Y, X, O, c, K
<1>9. a \in Seq(Y)
  BY <1>8, SeqMonotonic
<1>10. a \o c \in Seq(Y)
  BY <1>7, <1>9, ConcatProperties
<1>11. Those(a \o c, IsCall) = FlatMap(Keep(Y, K), a \o c)
  <2>1. \A s \in Seq(Y) : Those(s, IsCall) = FlatMap(Keep(Y, CallsIn(Y)), s)
    BY ThoseKept DEF CallsIn
  <2> QED
    BY <1>10, <2>1 DEF K
<1>12. FlatMap(Keep(Y, K), a \o c) = FlatMap(Keep(Y, K), a) \o FlatMap(Keep(Y, K), c)
  BY <1>1, <1>7, <1>9, FlatMapConcat
<1>13. FlatMap(Keep(Y, K), a) = <<>>
  BY <1>8, KeepNone
<1>14. <<>> \o c = c
  BY <1>7, ConcatEmptySeq
<1> QED
  BY <1>6, <1>10, <1>11, <1>12, <1>13, <1>14 DEF Y, c

\* The calls Gemini is sent of a message.
LEMMA GeminiCalls ==
  ASSUME NEW P, NEW m, NEW t, NEW parts \in Seq(P)
  PROVE  Those(FlatMap(GeminiPiece(P, m), parts), IsCall) = FlatMap(CallPiece(P, m), parts)
<1> DEFINE Y == AllItems(P, m, t)
           K == CallsIn(Y)
           g == [p \in P |-> FlatMap(Keep(Y, K), GeminiPiece(P, m)[p])]
<1>1. IsMap(GeminiPiece(P, m), P, Y) /\ IsMap(Keep(Y, K), Y, Y)
  BY PieceMaps, KeepType
<1>2. FlatMap(Keep(Y, K), FlatMap(GeminiPiece(P, m), parts)) = FlatMap(g, parts)
  <2> HIDE DEF Y, K
  <2> QED
    BY <1>1, FlatMapTwice
<1>3. ASSUME NEW p \in P PROVE g[p] = CallPiece(P, m)[p]
  <2>9. TextItem(m, p.text) \in Y /\ CallItem(m, p) \in Y /\ ThoughtItem(m, p) \in Y
    BY ItemsKnown DEF AllItems
  <2>1. PICK e \in Y : e = TextItem(m, p.text) /\ e.k = "text"
    BY <2>9, ItemFields
  <2>2. PICK f \in Y : f = CallItem(m, p) /\ f.k = "call"
    BY <2>9, ItemFields
  <2>3. PICK r \in Y : r = ThoughtItem(m, p) /\ r.k = "thought" /\ r.sig = p.sig
    BY <2>9, ItemFields
  <2>4. /\ FlatMap(Keep(Y, K), <<e>>) = Keep(Y, K)[e]
        /\ FlatMap(Keep(Y, K), <<f>>) = Keep(Y, K)[f]
        /\ FlatMap(Keep(Y, K), <<r>>) = Keep(Y, K)[r]
        /\ FlatMap(Keep(Y, K), <<>>) = <<>>
    <3> HIDE DEF Y, K
    <3> QED
      BY <1>1, FlatMapSingle, FlatMapEmpty
  <2>5. Keep(Y, K)[e] = <<>> /\ Keep(Y, K)[f] = <<f>> /\ Keep(Y, K)[r] = <<>>
    <3> HIDE DEF Y
    <3> QED
      BY <2>1, <2>2, <2>3 DEF Keep, IsCall, CallsIn
  <2>6. GeminiPiece(P, m)[p] = IF p.kind = "text" THEN <<e>>
                               ELSE IF p.kind = "call" THEN <<f>>
                               ELSE IF p.kind = "thought" /\ p.sig # <<>> THEN <<r>> ELSE <<>>
    BY <2>1, <2>2, <2>3 DEF GeminiPiece, When
  <2>7. g[p] = FlatMap(Keep(Y, K), GeminiPiece(P, m)[p])
    OBVIOUS
  <2>8. CallPiece(P, m)[p] = IF p.kind = "call" THEN <<f>> ELSE <<>>
    BY <2>2 DEF CallPiece
  <2> HIDE DEF g, K, Y
  <2> QED
    BY <2>4, <2>5, <2>6, <2>7, <2>8
<1>4. g = CallPiece(P, m)
  BY <1>3 DEF CallPiece
<1>5. FlatMap(GeminiPiece(P, m), parts) \in Seq(Y)
  <2> HIDE DEF Y
  <2> QED
    BY <1>1, FlatMapType
<1>6. Those(FlatMap(GeminiPiece(P, m), parts), IsCall) = FlatMap(Keep(Y, K), FlatMap(GeminiPiece(P, m), parts))
  <2> HIDE DEF Y
  <2> QED
    BY <1>5, ThoseKept DEF CallsIn
<1> QED
  BY <1>2, <1>4, <1>6

\* The calls Anthropic is sent of a message.
LEMMA AnthropicCalls ==
  ASSUME NEW P, NEW m, NEW t, NEW parts \in Seq(P)
  PROVE  /\ FlatMap(ThoughtPiece(P, m), parts) \o FlatMap(BlockPiece(P, m), parts) \in Seq(AllItems(P, m, t))
         /\ Those(FlatMap(ThoughtPiece(P, m), parts) \o FlatMap(BlockPiece(P, m), parts), IsCall)
              = FlatMap(CallPiece(P, m), parts)
<1> DEFINE Y == AllItems(P, m, t)
           a == FlatMap(ThoughtPiece(P, m), parts)
           b == FlatMap(BlockPiece(P, m), parts)
<1>1. a \in Seq(ThoughtItems(P, m))
  BY PieceMaps, FlatMapType
<1>2. OtherItems(P, m, t) \subseteq Y
  BY DEF AllItems
<1>3. b \in Seq(OtherItems(P, m, t)) /\ FlatMap(Keep(Y, CallsIn(Y)), b) = FlatMap(CallPiece(P, m), parts)
  <2> HIDE DEF Y
  <2> QED
    BY <1>2, BlockCalls
<1> HIDE DEF a, b
<1>4. a \o b \in Seq(Y) /\ Those(a \o b, IsCall) = FlatMap(Keep(Y, CallsIn(Y)), b)
  BY <1>1, <1>3, SplitKept
<1> QED
  BY <1>3, <1>4 DEF a, b

\* The calls of an assistant message are written one by one, in every dialect.
LEMMA EncodedCalls ==
  ASSUME NEW h, NEW m, NEW P, h[m].role = "assistant", h[m].parts \in Seq(P), NEW d \in DialectNames
  PROVE  /\ Those(EncodedMessage(d, h, m), IsCall) = FlatMap(CallPiece(P, m), h[m].parts)
         /\ EncodedMessage(d, h, m) \in Seq(AllItems(P, m, Text(h[m])))
<1> DEFINE parts == h[m].parts
           t == Text(h[m])
           Y == AllItems(P, m, t)
           X == {e \in Y : ~ IsCall(e)}
           c == FlatMap(CallPiece(P, m), parts)
<1>1. PICK e : e = TextItem(m, t)
  OBVIOUS
<1>2. e \in X
  BY <1>1, ItemsKnown, ItemFields DEF AllItems, IsCall
<1>3. <<e>> \in Seq(X) /\ <<>> \in Seq(X)
  <2> HIDE DEF X
  <2> QED
    BY <1>2, SingleType, EmptySeq
<1>4. parts \in Seq(P)
  OBVIOUS
<1>5. ASSUME NEW a \in Seq(X) PROVE a \o c \in Seq(Y) /\ Those(a \o c, IsCall) = c
  <2> HIDE DEF parts, t
  <2> QED
    BY <1>4, <1>5, CallsAfter
<1>6. CASE d = "chat"
  <2>1. ChatMessage(h, m) = (IF t # <<>> \/ OfKind(h[m], "call") = <<>> THEN <<e>> ELSE <<>>) \o CallItems(h, m)
    BY <1>1 DEF ChatMessage, When
  <2>2. CallItems(h, m) = c
    BY CallItemsShape
  <2> HIDE DEF X, Y, c, parts, t
  <2> QED
    BY <1>3, <1>5, <1>6, <2>1, <2>2 DEF EncodedMessage, c, parts, t, Y
<1>7. CASE d = "ollama"
  <2>1. OllamaMessage(h, m) = <<e>> \o CallItems(h, m)
    BY <1>1 DEF OllamaMessage
  <2>2. CallItems(h, m) = c
    BY CallItemsShape
  <2> HIDE DEF X, Y, c, parts, t
  <2> QED
    BY <1>3, <1>5, <1>7, <2>1, <2>2 DEF EncodedMessage, c, parts, t, Y
<1>8. CASE d = "responses"
  <2> DEFINE s == FlatMap(SealPiece(P, m), parts)
             w == IF t # <<>> THEN <<e>> ELSE <<>>
  <2>1. ResponsesMessage(h, m) = (s \o w) \o c
    BY <1>1, ResponsesShape DEF When
  <2>2. s \in Seq(ThoughtItems(P, m))
    BY PieceMaps, FlatMapType
  <2>3. ThoughtItems(P, m) \subseteq X
    BY ItemsKnown DEF AllItems, IsCall
  <2> HIDE DEF X, Y, c, parts, t, s
  <2>4. s \in Seq(X) /\ w \in Seq(X)
    BY <1>3, <2>2, <2>3, SeqMonotonic
  <2>5. s \o w \in Seq(X)
    BY <2>4, ConcatProperties
  <2> HIDE DEF w
  <2> QED
    BY <1>5, <1>8, <2>1, <2>5 DEF EncodedMessage, c, parts, t, Y
<1>9. CASE d = "anthropic"
  <2> DEFINE q == FlatMap(ThoughtPiece(P, m), parts) \o FlatMap(BlockPiece(P, m), parts)
  <2>1. AnthropicMessage(h, m) = q
    BY AnthropicShape
  <2>2. q \in Seq(Y) /\ Those(q, IsCall) = c
    <3> HIDE DEF t, parts
    <3> QED
      BY <1>4, AnthropicCalls
  <2> HIDE DEF q, c, parts, t, Y
  <2> QED
    BY <1>9, <2>1, <2>2 DEF EncodedMessage, c, parts, t, Y
<1>10. CASE d = "gemini"
  <2>1. GeminiMessage(h, m) = FlatMap(GeminiPiece(P, m), parts)
    BY GeminiShape
  <2>2. FlatMap(GeminiPiece(P, m), parts) \in Seq(Y)
    <3>1. IsMap(GeminiPiece(P, m), P, Y)
      BY PieceMaps
    <3> HIDE DEF Y
    <3> QED
      BY <3>1, FlatMapType
  <2>3. Those(FlatMap(GeminiPiece(P, m), parts), IsCall) = c
    <3> HIDE DEF parts
    <3> QED
      BY <1>4, GeminiCalls
  <2> HIDE DEF Y, c, parts, t
  <2> QED
    BY <1>10, <2>1, <2>2, <2>3 DEF EncodedMessage, c, parts, t, Y
<1> QED
  BY <1>6, <1>7, <1>8, <1>9, <1>10 DEF DialectNames

\* What is sent of a message of the user.
LEMMA UserFields == User.role = "user" /\ \E p : User.parts = <<p>> /\ p.kind = "text"
BY DEF User

\* The user's turn is no answer and no call.
LEMMA EncodedUser ==
  ASSUME NEW h, NEW m, h[m] = User, NEW d \in DialectNames
  PROVE  \E t : EncodedMessage(d, h, m) = <<TextItem(m, t)>>
<1>1. h[m].role = "user"
  BY UserFields
<1>2. CASE d # "gemini"
  <2>1. EncodedMessage(d, h, m) = <<TextItem(m, Text(h[m]))>>
    BY <1>1, <1>2 DEF EncodedMessage, ChatMessage, ResponsesMessage, AnthropicMessage, OllamaMessage, DialectNames
  <2> QED
    BY <2>1
<1>3. CASE d = "gemini"
  <2>1. PICK p : h[m].parts = <<p>> /\ p.kind = "text"
    BY UserFields
  <2>2. <<p>> \in Seq({p})
    BY SingleType
  <2>3. GeminiMessage(h, m) = FlatMap(GeminiPiece({p}, m), <<p>>)
    BY <1>1, <2>1, <2>2, GeminiShape
  <2>4. IsMap(GeminiPiece({p}, m), {p}, AllItems({p}, m, <<>>))
    BY PieceMaps
  <2>5. FlatMap(GeminiPiece({p}, m), <<p>>) = GeminiPiece({p}, m)[p]
    BY <2>4, FlatMapSingle
  <2>6. GeminiPiece({p}, m)[p] = <<TextItem(m, p.text)>>
    BY <2>1 DEF GeminiPiece
  <2> QED
    BY <1>3, <2>3, <2>5, <2>6 DEF EncodedMessage
<1> QED
  BY <1>2, <1>3

\* The message in which a tool answers a tc.
AnswerTo(tc) == [role |-> "tool", from |-> "",
                   parts |-> <<[kind |-> "result", id |-> tc.id, of |-> tc.of]>>]

\* What is sent of the answer to a call: one result.
LEMMA EncodedAnswer ==
  ASSUME NEW h, NEW m, NEW tc, h[m] = AnswerTo(tc), NEW d \in DialectNames
  PROVE  \E r : /\ EncodedMessage(d, h, m) = <<r>>
                /\ r.k = "result" /\ r.m = m /\ r.id = tc.id /\ r.of = tc.of
                /\ d \in ByName => r.name = NameOf(h, m, tc.id)
<1>1. PICK p : p = [kind |-> "result", id |-> tc.id, of |-> tc.of]
  OBVIOUS
<1>2. AnswerTo(tc).role = "tool" /\ AnswerTo(tc).parts = <<p>>
  BY <1>1 DEF AnswerTo
<1>9. h[m].role = "tool" /\ h[m].parts = <<p>> /\ p.kind = "result" /\ p.id = tc.id /\ p.of = tc.of
  BY <1>1, <1>2
<1>3. OfKind(h[m], "result") = <<p>>
  <2>1. <<p>> \in Seq({p})
    BY SingleType
  <2>5. h[m].parts \in Seq({p})
    BY <1>9, <2>1
  <2>6. OfKind(h[m], "result") = FlatMap(Keep({p}, {q \in {p} : q.kind = "result"}), h[m].parts)
    BY <2>5, OfKindKept
  <2>2. OfKind(h[m], "result") = FlatMap(Keep({p}, {q \in {p} : q.kind = "result"}), <<p>>)
    BY <1>9, <2>6
  <2>3. Keep({p}, {q \in {p} : q.kind = "result"})[p] = <<p>>
    BY <1>9 DEF Keep
  <2>4. IsMap(Keep({p}, {q \in {p} : q.kind = "result"}), {p}, {p})
    BY KeepType
  <2> QED
    BY <2>2, <2>3, <2>4, FlatMapSingle
<1>4. ASSUME NEW r PROVE FlattenSeq([i \in DOMAIN <<p>> |-> <<r>>]) = <<r>>
  <2> DEFINE f == [i \in DOMAIN <<p>> |-> <<r>>]
  <2>1. f = << <<r>> >> /\ DOMAIN f = {1} /\ f[1] = <<r>>
    OBVIOUS
  <2>2. <<r>> \in Seq({r})
    BY SingleType
  <2>3. << <<r>> >> \in Seq(Seq({r}))
    BY <2>2, SingleType
  <2> HIDE DEF f
  <2>4. f \in Seq(Seq({r})) /\ 1 \in DOMAIN f /\ \A i \in DOMAIN f \ {1} : f[i] = <<>>
    BY <2>1, <2>3
  <2>5. FlattenSeq(f) = f[1]
    BY ONLY <2>4, FlattenOne
  <2>6. FlattenSeq(f) = <<r>>
    BY <2>1, <2>5
  <2> QED
    BY <2>6 DEF f
<1>5. PICK plain : plain = ResultItem(m, p, <<>>)
  OBVIOUS
<1>6. PICK named : named = ResultItem(m, p, NameOf(h, m, p.id))
  OBVIOUS
<1>7. CASE d \notin ByName
  <2>1. EncodedMessage(d, h, m) = FlattenSeq([i \in DOMAIN <<p>> |-> <<plain>>])
    <3>1. [i \in DOMAIN <<p>> |-> <<ResultItem(m, <<p>>[i], <<>>)>>] = [i \in DOMAIN <<p>> |-> <<plain>>]
      BY <1>5
    <3>2. EncodedMessage(d, h, m) = FlattenSeq([i \in DOMAIN <<p>> |-> <<ResultItem(m, <<p>>[i], <<>>)>>])
      BY <1>9, <1>3, <1>7
        DEF EncodedMessage, ChatMessage, ResponsesMessage, AnthropicMessage, ResultItems, Each, DialectNames, ByName
    <3> QED
      BY <3>1, <3>2
  <2>2. plain.k = "result" /\ plain.m = m /\ plain.id = tc.id /\ plain.of = tc.of
    BY <1>9, <1>5 DEF ResultItem
  <2> QED
    BY <1>4, <1>7, <2>1, <2>2
<1>8. CASE d \in ByName
  <2>1. EncodedMessage(d, h, m) = FlattenSeq([i \in DOMAIN <<p>> |-> <<named>>])
    <3>1. [i \in DOMAIN <<p>> |-> <<ResultItem(m, <<p>>[i], NameOf(h, m, <<p>>[i].id))>>]
            = [i \in DOMAIN <<p>> |-> <<named>>]
      BY <1>6
    <3>2. EncodedMessage(d, h, m)
            = FlattenSeq([i \in DOMAIN <<p>> |-> <<ResultItem(m, <<p>>[i], NameOf(h, m, <<p>>[i].id))>>])
      BY <1>9, <1>3, <1>8 DEF EncodedMessage, GeminiMessage, OllamaMessage, ResultItems, Each, ByName
    <3> QED
      BY <3>1, <3>2
  <2>2. /\ named.k = "result" /\ named.m = m /\ named.id = tc.id /\ named.of = tc.of
        /\ named.name = NameOf(h, m, tc.id)
    BY <1>9, <1>6 DEF ResultItem
  <2> QED
    BY <1>4, <1>8, <2>1, <2>2
<1> QED
  BY <1>7, <1>8
(* The conversation: what a tool says answers a call of the message before  *)

Ids(calls)     == {calls[i].id : i \in 1 .. Len(calls)}
IdsOnce(calls) == \A i, j \in 1 .. Len(calls) : calls[i].id = calls[j].id => i = j

\* Message m is followed by one answer to each of its calls.
Asks(h, m) ==
    LET calls == OfKind(h[m], "call") IN
    /\ IdsOnce(calls)
    /\ \A i \in 1 .. Len(calls) : m + i \in 1 .. Len(h) /\ h[m + i] = AnswerTo(calls[i])

\* Message m is an answer to a call.
IsAsked(h, m) ==
    \E a \in 1 .. Len(h) : /\ h[a].role = "assistant"
                           /\ \E i \in 1 .. Len(OfKind(h[a], "call")) : m = a + i

Conversed(h) ==
    \A m \in 1 .. Len(h) :
      /\ h[m].role = "assistant" => Asks(h, m)
      /\ h[m].role = "tool" => IsAsked(h, m)
      /\ h[m].role \notin {"assistant", "tool"} => h[m] = User

\* The calls of a well-formed message are a sequence.
LEMMA CallsType ==
  ASSUME NEW msg, IsSequence(msg.parts), NEW kind
  PROVE  /\ OfKind(msg, kind) \in Seq(Elements(msg.parts))
         /\ IsSequence(OfKind(msg, kind))
         /\ Len(OfKind(msg, kind)) \in Nat
         /\ DOMAIN OfKind(msg, kind) = 1 .. Len(OfKind(msg, kind))
<1> DEFINE P == Elements(msg.parts)
           K == {p \in P : p.kind = kind}
<1>1. msg.parts \in Seq(P)
  BY DEF IsSequence
<1>2. OfKind(msg, kind) = FlatMap(Keep(P, K), msg.parts)
  BY <1>1, OfKindKept
<1> HIDE DEF P, K
<1>3. OfKind(msg, kind) \in Seq(P)
  BY <1>1, <1>2, KeepType, FlatMapType
<1>4. PICK s \in Seq(P) : s = OfKind(msg, kind)
  BY <1>3
<1>5. IsSequence(s) /\ Len(s) \in Nat /\ DOMAIN s = 1 .. Len(s)
  BY SequenceOver
<1> QED
  BY <1>4, <1>5 DEF P

\* The parts of another kind are none.
LEMMA OfOneKind ==
  ASSUME NEW msg, NEW p, msg.parts = <<p>>, NEW kind
  PROVE  OfKind(msg, kind) = IF p.kind = kind THEN <<p>> ELSE <<>>
<1>1. <<p>> \in Seq({p}) /\ msg.parts \in Seq({p})
  BY SingleType
<1>2. OfKind(msg, kind) = FlatMap(Keep({p}, {q \in {p} : q.kind = kind}), msg.parts)
  BY <1>1, OfKindKept
<1>3. IsMap(Keep({p}, {q \in {p} : q.kind = kind}), {p}, {p})
  BY KeepType
<1>4. FlatMap(Keep({p}, {q \in {p} : q.kind = kind}), <<p>>) = Keep({p}, {q \in {p} : q.kind = kind})[p]
  BY <1>3, FlatMapSingle
<1>5. Keep({p}, {q \in {p} : q.kind = kind})[p] = IF p.kind = kind THEN <<p>> ELSE <<>>
  BY DEF Keep
<1> QED
  BY <1>2, <1>4, <1>5

\* An answer and what the user says make no calls.
LEMMA NoCalls ==
  /\ \A tc : OfKind(AnswerTo(tc), "call") = <<>>
  /\ OfKind(User, "call") = <<>>
<1>1. ASSUME NEW tc PROVE OfKind(AnswerTo(tc), "call") = <<>>
  <2>1. PICK p : p = [kind |-> "result", id |-> tc.id, of |-> tc.of]
    OBVIOUS
  <2>2. AnswerTo(tc).parts = <<p>> /\ p.kind # "call"
    BY <2>1 DEF AnswerTo
  <2> QED
    BY <2>2, OfOneKind
<1>2. OfKind(User, "call") = <<>>
  BY UserFields, OfOneKind
<1> QED
  BY <1>1, <1>2

\* The last place of an id.
LastWith(s, id) == SelectLastInSeq(s, LAMBDA p : p.id = id)

\* The last place a call of some id has.
LEMMA LastPlace ==
  ASSUME NEW X, NEW s \in Seq(X), NEW id, NEW k \in 1 .. Len(s), s[k].id = id,
         \A i \in 1 .. Len(s) : i > k => s[i].id # id
  PROVE  LastWith(s, id) = k
<1> DEFINE I == {i \in 1 .. Len(s) : s[i].id = id}
<1>1. Len(s) \in Nat
  BY LenProperties
<1>2. k \in I /\ \A i \in I : k >= i
  BY <1>1
<1>3. \A x \in I : (\A y \in I : x >= y) => x = k
  BY <1>1, <1>2
<1>4. Max(I) = k
  <2> HIDE DEF I
  <2> QED
    BY <1>2, <1>3 DEF Max
<1> QED
  BY <1>2, <1>4 DEF LastWith, SelectLastInSeq

\* The calls of a stretch of the history.
StretchOfCalls(h) == Each(h, LAMBDA msg : OfKind(msg, "call"))

\* The calls of a stretch of messages.
LEMMA StretchCalls ==
  ASSUME NEW X, NEW P, \A x \in X : OfKind(x, "call") \in Seq(P), NEW s \in Seq(X), NEW u \in Seq(X)
  PROVE  /\ StretchOfCalls(s) \in Seq(P)
         /\ StretchOfCalls(s \o u) = StretchOfCalls(s) \o StretchOfCalls(u)
         /\ \A x \in X : StretchOfCalls(<<x>>) = OfKind(x, "call")
         /\ (\A i \in 1 .. Len(u) : OfKind(u[i], "call") = <<>>) => StretchOfCalls(u) = <<>>
<1> DEFINE g == [x \in X |-> OfKind(x, "call")]
<1>1. IsMap(g, X, P)
  BY DEF IsMap
<1>2. ASSUME NEW v \in Seq(X) PROVE StretchOfCalls(v) = FlatMap(g, v)
  <2>1. DOMAIN v = 1 .. Len(v) /\ \A i \in DOMAIN v : v[i] \in X
    BY LenProperties, ElementOfSeq
  <2>2. [i \in DOMAIN v |-> OfKind(v[i], "call")] = [i \in DOMAIN v |-> g[v[i]]]
    BY <2>1
  <2> QED
    BY <2>2 DEF StretchOfCalls, Each, FlatMap
<1>3. \A x \in X : g[x] = OfKind(x, "call")
  OBVIOUS
<1>4. s \o u \in Seq(X)
  BY ConcatProperties
<1>5. ASSUME \A i \in 1 .. Len(u) : OfKind(u[i], "call") = <<>> PROVE StretchOfCalls(u) = <<>>
  <2> DEFINE V == {x \in X : OfKind(x, "call") = <<>>}
             n == [x \in V |-> <<>>]
  <2>1. DOMAIN u = 1 .. Len(u) /\ Len(u) \in Nat /\ \A i \in DOMAIN u : u[i] \in V
    BY <1>5, LenProperties, ElementOfSeq
  <2>2. u \in Seq(V)
    <3> HIDE DEF V
    <3>1. u \in [1 .. Len(u) -> V]
      BY <2>1, LenProperties
    <3>2. PICK k \in Nat : k = Len(u)
      BY <2>1
    <3>3. u \in [1 .. k -> V]
      BY <3>1, <3>2
    <3> QED
      BY ONLY <3>2, <3>3, SeqDef
  <2>3. [i \in DOMAIN u |-> OfKind(u[i], "call")] = [i \in DOMAIN u |-> n[u[i]]]
    BY <2>1
  <2>4. StretchOfCalls(u) = FlatMap(n, u)
    BY <2>3 DEF StretchOfCalls, Each, FlatMap
  <2>5. IsMap(n, V, P) /\ \A x \in V : n[x] = <<>>
    <3> HIDE DEF V
    <3> QED
      BY EmptySeq DEF IsMap
  <2> HIDE DEF n, V
  <2> QED
    BY <2>2, <2>4, <2>5, FlatMapAllNone
<1>6. ASSUME NEW x \in X PROVE StretchOfCalls(<<x>>) = OfKind(x, "call")
  <2>1. <<x>> \in Seq(X)
    BY SingleType
  <2> HIDE DEF g
  <2> QED
    BY <1>1, <1>2, <1>3, <2>1, FlatMapSingle
<1> HIDE DEF g
<1>7. StretchOfCalls(s) \in Seq(P)
  BY <1>1, <1>2, FlatMapType
<1>8. StretchOfCalls(s \o u) = StretchOfCalls(s) \o StretchOfCalls(u)
  <2>1. FlatMap(g, s \o u) = FlatMap(g, s) \o FlatMap(g, u)
    BY <1>1, FlatMapConcat
  <2>2. StretchOfCalls(s \o u) = FlatMap(g, s \o u) /\ StretchOfCalls(s) = FlatMap(g, s) /\ StretchOfCalls(u) = FlatMap(g, u)
    BY <1>2, <1>4
  <2> QED
    BY <2>1, <2>2
<1> QED
  BY <1>5, <1>6, <1>7, <1>8

\* The first n messages end with message a and the answers to it.
LEMMA CutHistory ==
  ASSUME NEW X, NEW h \in Seq(X), NEW a \in 1 .. Len(h), NEW n \in a .. Len(h)
  PROVE  /\ SubSeq(h, 1, a - 1) \in Seq(X) /\ SubSeq(h, a + 1, n) \in Seq(X)
         /\ SubSeq(h, 1, n) = SubSeq(h, 1, a - 1) \o (<<h[a]>> \o SubSeq(h, a + 1, n))
         /\ Len(SubSeq(h, a + 1, n)) = n - a
         /\ \A j \in 1 .. n - a : SubSeq(h, a + 1, n)[j] = h[a + j]
<1> DEFINE u == SubSeq(h, 1, a - 1)
           v == SubSeq(h, a + 1, n)
           w == SubSeq(h, 1, n)
<1>1. Len(h) \in Nat /\ \A i \in 1 .. Len(h) : h[i] \in X
  BY LenProperties, ElementOfSeq
<1>12. a \in Nat /\ n \in Nat /\ 1 <= a /\ a <= n /\ n <= Len(h)
  BY <1>1
<1>2. u \in Seq(X) /\ Len(u) = a - 1 /\ \A i \in 1 .. a - 1 : u[i] = h[i]
  BY <1>1
<1>3. v \in Seq(X) /\ Len(v) = n - a /\ \A j \in 1 .. n - a : v[j] = h[a + j]
  BY <1>1
<1>4. w \in Seq(X) /\ Len(w) = n /\ \A i \in 1 .. n : w[i] = h[i]
  BY <1>1
<1>5. PICK x \in X : x = h[a]
  BY <1>1
<1> HIDE DEF u, v, w
<1>6. <<x>> \o v \in Seq(X) /\ Len(<<x>> \o v) = n - a + 1
  BY <1>3
<1>7. \A j \in 1 .. n - a + 1 : (<<x>> \o v)[j] = IF j = 1 THEN x ELSE v[j - 1]
  BY <1>3
<1>8. PICK y \in Seq(X) : y = <<x>> \o v
  BY <1>6
<1>9. u \o y \in Seq(X) /\ Len(u \o y) = n /\ \A i \in 1 .. n : (u \o y)[i] = IF i <= a - 1 THEN u[i] ELSE y[i - (a - 1)]
  <2>1. Len(y) = n - a + 1
    BY <1>6, <1>8
  <2>2. /\ u \o y \in Seq(X) /\ Len(u \o y) = Len(u) + Len(y)
        /\ \A i \in 1 .. Len(u) + Len(y) : (u \o y)[i] = IF i <= Len(u) THEN u[i] ELSE y[i - Len(u)]
    BY <1>2, ConcatProperties
  <2>3. Len(u) + Len(y) = n
    BY <1>2, <1>12, <2>1
  <2> QED
    BY <1>2, <2>2, <2>3
<1>10. \A i \in 1 .. n : (u \o y)[i] = w[i]
  <2> SUFFICES ASSUME NEW i \in 1 .. n PROVE (u \o y)[i] = w[i]
    OBVIOUS
  <2>1. CASE i <= a - 1
    <3>1. i \in 1 .. a - 1
      BY <1>12, <2>1
    <3> QED
      BY <1>2, <1>4, <1>9, <2>1, <3>1
  <2>2. CASE i = a
    <3>1. i - (a - 1) = 1 /\ ~ (i <= a - 1) /\ 1 \in 1 .. n - a + 1
      BY <1>12, <2>2
    <3>2. y[1] = x
      BY <1>7, <1>8, <3>1
    <3> QED
      BY <1>4, <1>5, <1>9, <2>2, <3>1, <3>2
  <2>3. CASE i > a
    <3>1. i - (a - 1) \in 1 .. n - a + 1 /\ i - (a - 1) # 1 /\ i - (a - 1) - 1 = i - a /\ i - a \in 1 .. n - a
      BY <1>12, <2>3
    <3>2. y[i - (a - 1)] = v[i - a]
      BY <1>7, <1>8, <3>1
    <3>3. v[i - a] = h[a + (i - a)] /\ a + (i - a) = i
      BY <1>3, <3>1
    <3> QED
      BY <1>4, <1>9, <1>12, <2>3, <3>2, <3>3
  <2>4. i <= a - 1 \/ i = a \/ i > a
    BY <1>12
  <2> QED
    BY <2>1, <2>2, <2>3, <2>4, Zenon
<1>11. u \o y = w
  BY <1>4, <1>9, <1>10, SeqEqual
<1> QED
  BY <1>2, <1>3, <1>5, <1>8, <1>11 DEF u, v, w

\* The shape of the history, message by message.
LEMMA HistoryParts ==
  ASSUME NEW h, HistoryShape(h)
  PROVE  /\ h \in Seq(Elements(h)) /\ Len(h) \in Nat /\ DOMAIN h = 1 .. Len(h)
         /\ \A m \in 1 .. Len(h) : h[m] \in Elements(h) /\ MessageShape(h[m]) /\ IsSequence(h[m].parts)
         /\ \A x \in Elements(h) : OfKind(x, "call") \in Seq(UNION {Elements(y.parts) : y \in Elements(h)})
<1>1. h \in Seq(Elements(h)) /\ \A x \in Elements(h) : MessageShape(x)
  BY DEF HistoryShape, IsSequence
<1>2. Len(h) \in Nat /\ DOMAIN h = 1 .. Len(h) /\ \A m \in 1 .. Len(h) : h[m] \in Elements(h)
  BY <1>1, LenProperties DEF Elements
<1>3. ASSUME NEW x \in Elements(h)
      PROVE  OfKind(x, "call") \in Seq(UNION {Elements(y.parts) : y \in Elements(h)})
  <2> DEFINE P == UNION {Elements(y.parts) : y \in Elements(h)}
  <2>1. Elements(x.parts) \subseteq P
    OBVIOUS
  <2>2. OfKind(x, "call") \in Seq(Elements(x.parts))
    BY <1>1, CallsType DEF MessageShape
  <2> HIDE DEF P
  <2>3. OfKind(x, "call") \in Seq(P)
    BY <2>1, <2>2, SeqMonotonic
  <2> QED
    BY <2>3 DEF P
<1> QED
  BY <1>1, <1>2, <1>3 DEF MessageShape

\* An answer is sent under the name of the tool that was called.
LEMMA AnswerNamed ==
  ASSUME NEW h, HistoryShape(h), Conversed(h), NEW a \in 1 .. Len(h), h[a].role = "assistant",
         NEW i \in 1 .. Len(OfKind(h[a], "call"))
  PROVE  NameOf(h, a + i, OfKind(h[a], "call")[i].id) = <<OfKind(h[a], "call")[i].name>>
<1> DEFINE X == Elements(h)
           P == UNION {Elements(y.parts) : y \in X}
<1>0. PICK n : n = a + i - 1
  OBVIOUS
<1> DEFINE u == SubSeq(h, 1, a - 1)
           v == SubSeq(h, a + 1, n)
           w == SubSeq(h, 1, n)
<1>1. /\ h \in Seq(X) /\ Len(h) \in Nat /\ \A m \in 1 .. Len(h) : h[m] \in X /\ IsSequence(h[m].parts)
      /\ \A x \in X : OfKind(x, "call") \in Seq(P)
  BY HistoryParts
<1>2. PICK c : c = OfKind(h[a], "call")
  OBVIOUS
<1>3. c \in Seq(P) /\ Len(c) \in Nat /\ i \in 1 .. Len(c)
  BY <1>1, <1>2, CallsType
<1>4. IdsOnce(c) /\ \A j \in 1 .. Len(c) : a + j \in 1 .. Len(h) /\ h[a + j] = AnswerTo(c[j])
  BY <1>2 DEF Conversed, Asks
<1>5. a + i \in 1 .. Len(h) /\ n \in a .. Len(h) /\ n - a = i - 1
  BY <1>0, <1>1, <1>3, <1>4
<1> HIDE DEF X, P
<1>6. /\ u \in Seq(X) /\ v \in Seq(X) /\ w = u \o (<<h[a]>> \o v)
      /\ Len(v) = i - 1 /\ \A j \in 1 .. i - 1 : v[j] = h[a + j]
  <2>1. /\ SubSeq(h, 1, a - 1) \in Seq(X) /\ SubSeq(h, a + 1, n) \in Seq(X)
        /\ SubSeq(h, 1, n) = SubSeq(h, 1, a - 1) \o (<<h[a]>> \o SubSeq(h, a + 1, n))
        /\ Len(SubSeq(h, a + 1, n)) = n - a
        /\ \A j \in 1 .. n - a : SubSeq(h, a + 1, n)[j] = h[a + j]
    BY <1>1, <1>5, CutHistory
  <2> QED
    BY <1>5, <2>1
<1> HIDE DEF u, v, w
<1>7. StretchOfCalls(v) = <<>>
  <2>1. \A j \in 1 .. Len(v) : OfKind(v[j], "call") = <<>>
    <3> SUFFICES ASSUME NEW j \in 1 .. Len(v) PROVE OfKind(v[j], "call") = <<>>
      OBVIOUS
    <3>1. j \in 1 .. i - 1 /\ j \in 1 .. Len(c)
      BY <1>3, <1>6
    <3>2. v[j] = AnswerTo(c[j])
      BY <1>4, <1>6, <3>1
    <3> QED
      BY <3>2, NoCalls
  <2> QED
    BY <1>1, <1>6, <2>1, StretchCalls
<1>8. StretchOfCalls(w) = StretchOfCalls(u) \o c /\ StretchOfCalls(u) \in Seq(P)
  <2>1. PICK x \in X : x = h[a]
    BY <1>1
  <2>2. <<x>> \in Seq(X)
    BY SingleType
  <2>3. <<x>> \o v \in Seq(X)
    BY <1>6, <2>2, ConcatProperties
  <2>4. StretchOfCalls(<<x>> \o v) = StretchOfCalls(<<x>>) \o StretchOfCalls(v)
    BY <1>1, <1>6, <2>2, StretchCalls
  <2>5. StretchOfCalls(<<x>>) = c
    BY <1>1, <1>2, <2>1, <2>2, StretchCalls
  <2>6. c \o <<>> = c
    BY <1>3, ConcatEmptySeq
  <2>7. StretchOfCalls(u \o (<<x>> \o v)) = StretchOfCalls(u) \o StretchOfCalls(<<x>> \o v)
    BY <1>1, <1>6, <2>3, StretchCalls
  <2>8. StretchOfCalls(u) \in Seq(P)
    BY <1>1, <1>6, StretchCalls
  <2> QED
    BY <1>6, <1>7, <2>1, <2>4, <2>5, <2>6, <2>7, <2>8
<1>9. PICK b \in Seq(P) : b = StretchOfCalls(u)
  BY <1>8
<1>10. PICK s \in Seq(P) : s = b \o c
  BY <1>3, ConcatProperties
<1>11. /\ Len(s) = Len(b) + Len(c) /\ Len(b) \in Nat
       /\ \A j \in 1 .. Len(b) + Len(c) : s[j] = IF j <= Len(b) THEN b[j] ELSE c[j - Len(b)]
  BY <1>3, <1>10, ConcatProperties, LenProperties
<1>12. PICK k : k = Len(b) + i
  OBVIOUS
<1>13. k \in 1 .. Len(s) /\ s[k] = c[i] /\ k # 0
  <2>1. k \in 1 .. Len(b) + Len(c) /\ ~ (k <= Len(b)) /\ k - Len(b) = i
    BY <1>3, <1>11, <1>12
  <2>2. s[k] = c[k - Len(b)]
    BY <1>11, <2>1
  <2> QED
    BY <1>11, <2>1, <2>2
<1>14. \A j \in 1 .. Len(s) : j > k => s[j].id # c[i].id
  <2> SUFFICES ASSUME NEW j \in 1 .. Len(s), j > k PROVE s[j].id # c[i].id
    OBVIOUS
  <2>1. j - Len(b) \in 1 .. Len(c) /\ j - Len(b) # i /\ s[j] = c[j - Len(b)]
    BY <1>3, <1>11, <1>12
  <2> QED
    BY <1>3, <1>4, <2>1 DEF IdsOnce
<1>15. LastWith(s, c[i].id) = k
  <2>1. PICK id : id = c[i].id
    OBVIOUS
  <2>2. s[k].id = id /\ \A j \in 1 .. Len(s) : j > k => s[j].id # id
    BY <1>13, <1>14, <2>1
  <2>3. k \in 1 .. Len(s)
    BY <1>13
  <2>4. LastWith(s, id) = k
    BY <2>2, <2>3, LastPlace
  <2> QED
    BY <2>1, <2>4
<1>16. NameOf(h, a + i, c[i].id)
         = IF LastWith(StretchOfCalls(SubSeq(h, 1, a + i - 1)), c[i].id) = 0 THEN c[i].id
           ELSE <<StretchOfCalls(SubSeq(h, 1, a + i - 1))[LastWith(StretchOfCalls(SubSeq(h, 1, a + i - 1)), c[i].id)].name>>
  BY DEF NameOf, StretchOfCalls, LastWith
<1>17. StretchOfCalls(SubSeq(h, 1, a + i - 1)) = s
  BY <1>0, <1>8, <1>9, <1>10 DEF w
<1>18. NameOf(h, a + i, c[i].id) = <<s[k].name>>
  BY <1>13, <1>15, <1>16, <1>17
<1> QED
  BY <1>2, <1>13, <1>18

\* What is written of one message of a conversation.
LEMMA EncodedKnown ==
  ASSUME NEW h, HistoryShape(h), Conversed(h), NEW m \in 1 .. Len(h), NEW d \in DialectNames
  PROVE  /\ Written(m, EncodedMessage(d, h, m))
         /\ \A e \in Elements(EncodedMessage(d, h, m)) : e.k = "result" => IsAsked(h, m)
         /\ h[m].role = "assistant" =>
              Those(EncodedMessage(d, h, m), IsCall) = FlatMap(CallPiece(Elements(h[m].parts), m), h[m].parts)
         /\ h[m].role # "assistant" => Those(EncodedMessage(d, h, m), IsCall) = <<>>
<1> DEFINE P == Elements(h[m].parts)
<1>1. IsSequence(h[m].parts) /\ h[m].parts \in Seq(P)
  BY HistoryParts DEF IsSequence
<1>2. ASSUME NEW e, e.m = m, ~ IsCall(e)
      PROVE  Written(m, <<e>>) /\ Elements(<<e>>) = {e} /\ Those(<<e>>, IsCall) = <<>>
  <2>1. <<e>> \in Seq({e})
    BY SingleType
  <2>2. Written(m, <<e>>)
    BY <1>2, <2>1, WrittenOver
  <2>3. Elements(<<e>>) = {e}
    BY DEF Elements
  <2>4. Those(<<e>>, IsCall) = FlatMap(Keep({e}, {x \in {e} : IsCall(x)}), <<e>>)
    BY <2>1, ThoseKept
  <2>5. {e} \cap {x \in {e} : IsCall(x)} = {}
    BY <1>2
  <2>6. FlatMap(Keep({e}, {x \in {e} : IsCall(x)}), <<e>>) = <<>>
    BY <2>1, <2>5, KeepNone
  <2> QED
    BY <2>2, <2>3, <2>4, <2>6
<1>3. CASE h[m].role = "assistant"
  <2>1. PICK q : q = EncodedMessage(d, h, m)
    OBVIOUS
  <2>2. /\ Those(q, IsCall) = FlatMap(CallPiece(P, m), h[m].parts)
        /\ q \in Seq(AllItems(P, m, Text(h[m])))
    BY <1>1, <1>3, <2>1, EncodedCalls
  <2>3. \A e \in AllItems(P, m, Text(h[m])) : e.m = m /\ e.k # "result"
    BY ItemsKnown DEF AllItems
  <2>4. Written(m, q) /\ Elements(q) \subseteq AllItems(P, m, Text(h[m]))
    BY <2>2, <2>3, WrittenOver, SequenceOver
  <2> HIDE DEF P
  <2> QED
    BY <1>3, <2>1, <2>2, <2>3, <2>4 DEF P
<1>4. CASE h[m].role = "tool"
  <2>4. IsAsked(h, m)
    BY <1>4 DEF Conversed
  <2>5. PICK a \in 1 .. Len(h) : /\ h[a].role = "assistant"
                                 /\ \E i \in 1 .. Len(OfKind(h[a], "call")) : m = a + i
    BY <2>4 DEF IsAsked
  <2>1. PICK i \in 1 .. Len(OfKind(h[a], "call")) : m = a + i
    BY <2>5
  <2>2. h[m] = AnswerTo(OfKind(h[a], "call")[i])
    BY <2>1, <2>5 DEF Conversed, Asks
  <2>3. PICK r : EncodedMessage(d, h, m) = <<r>> /\ r.k = "result" /\ r.m = m
    BY <2>2, EncodedAnswer
  <2> QED
    BY <1>2, <1>4, <2>3, <2>4 DEF IsCall
<1>5. CASE h[m].role \notin {"assistant", "tool"}
  <2>1. h[m] = User
    BY <1>5 DEF Conversed
  <2>2. PICK t : EncodedMessage(d, h, m) = <<TextItem(m, t)>>
    BY <2>1, EncodedUser
  <2>3. PICK e : e = TextItem(m, t) /\ e.k = "text" /\ e.m = m
    BY ItemFields
  <2> QED
    BY <1>2, <1>5, <2>2, <2>3 DEF IsCall
<1> QED
  BY <1>3, <1>4, <1>5

\* The items of a request: what each message was written as, and nothing else.
LEMMA EncodedItems ==
  ASSUME NEW h, HistoryShape(h), Conversed(h), NEW d \in DialectNames
  PROVE  /\ \A m \in 1 .. Len(h) : ItemsOf(Encode(d, h), m) = EncodedMessage(d, h, m)
         /\ \A j \in DOMAIN Encode(d, h) : \E m \in 1 .. Len(h) :
              Encode(d, h)[j].m = m /\ Encode(d, h)[j] \in Elements(EncodedMessage(d, h, m))
<1>1. Len(h) \in Nat /\ DOMAIN h = 1 .. Len(h)
  BY HistoryParts
<1>2. PICK n \in Nat : n = Len(h)
  BY <1>1
<1>3. PICK f : f = [m \in 1 .. n |-> EncodedMessage(d, h, m)]
  OBVIOUS
<1>4. Encode(d, h) = FlattenSeq(f)
  BY <1>1, <1>2, <1>3 DEF Encode, EncodedMessage
<1>5. f = [m \in 1 .. n |-> f[m]] /\ \A m \in 1 .. n : f[m] = EncodedMessage(d, h, m)
  BY <1>3
<1>6. \A m \in 1 .. n : IsSequence(f[m]) /\ \A e \in Elements(f[m]) : e.m = m
  BY <1>2, <1>5, EncodedKnown DEF Written
<1>7. \A m \in 1 .. n : ItemsOf(FlattenSeq(f), m) = f[m]
  BY <1>5, <1>6, ItemsOfMessage
<1>8. ASSUME NEW j \in DOMAIN FlattenSeq(f)
      PROVE  \E m \in 1 .. n : FlattenSeq(f)[j].m = m /\ FlattenSeq(f)[j] \in Elements(f[m])
  <2> DEFINE Y == UNION {Elements(f[m]) : m \in 1 .. n}
  <2>1. \A m \in 1 .. n : f[m] \in Seq(Y)
    <3> SUFFICES ASSUME NEW m \in 1 .. n PROVE f[m] \in Seq(Y)
      OBVIOUS
    <3>1. Elements(f[m]) \subseteq Y /\ f[m] \in Seq(Elements(f[m]))
      BY <1>6 DEF IsSequence
    <3> HIDE DEF Y
    <3> QED
      BY <3>1, SeqMonotonic
  <2> HIDE DEF Y
  <2>2. f \in Seq(Seq(Y))
    BY <1>5, <2>1
  <2>3. PICK q \in Seq(Y) : q = FlattenSeq(f)
    BY <2>2, FlattenType
  <2>4. q[j] \in Y
    BY <1>8, <2>3, LenProperties, ElementOfSeq
  <2>5. PICK m \in 1 .. n : q[j] \in Elements(f[m])
    BY <2>4 DEF Y
  <2> QED
    BY <1>6, <2>3, <2>5
<1>9. ASSUME NEW m \in 1 .. Len(h) PROVE ItemsOf(Encode(d, h), m) = EncodedMessage(d, h, m)
  BY <1>2, <1>4, <1>5, <1>7
<1>10. ASSUME NEW j \in DOMAIN Encode(d, h)
       PROVE  \E m \in 1 .. Len(h) : Encode(d, h)[j].m = m /\ Encode(d, h)[j] \in Elements(EncodedMessage(d, h, m))
  <2>1. PICK m \in 1 .. n : FlattenSeq(f)[j].m = m /\ FlattenSeq(f)[j] \in Elements(f[m])
    BY <1>4, <1>8
  <2>2. f[m] = EncodedMessage(d, h, m) /\ m \in 1 .. Len(h)
    BY <1>2, <1>5
  <2> QED
    BY <1>4, <2>1, <2>2
<1> QED
  BY <1>9, <1>10

\* The calls of a message and the items they are written as.
LEMMA CallsWritten ==
  ASSUME NEW h, HistoryShape(h), Conversed(h), NEW d \in DialectNames, NEW m \in 1 .. Len(h),
         h[m].role = "assistant"
  PROVE  LET items == CallsOf(Encode(d, h), m)
             calls == OfKind(h[m], "call") IN
         /\ DOMAIN items = 1 .. Len(calls) /\ DOMAIN calls = 1 .. Len(calls)
         /\ \A i \in 1 .. Len(calls) :
              items[i].id = calls[i].id /\ items[i].of = calls[i].of /\ items[i].name = <<calls[i].name>>
<1> DEFINE P == Elements(h[m].parts)
           K == {p \in P : p.kind = "call"}
<1>1. IsSequence(h[m].parts) /\ h[m].parts \in Seq(P)
  BY HistoryParts DEF IsSequence
<1>2. CallsOf(Encode(d, h), m) = FlatMap(CallPiece(P, m), h[m].parts)
  BY EncodedItems, EncodedKnown DEF CallsOf
<1>3. /\ FlatMap(CallPiece(P, m), h[m].parts) \in Seq(OtherItems(P, m, <<>>))
      /\ Matches(d, FlatMap(CallPiece(P, m), h[m].parts), OfKind(h[m], "call"))
  BY <1>1, CallsMatch
<1>4. OfKind(h[m], "call") \in Seq(K)
  <2>1. OfKind(h[m], "call") = FlatMap(Keep(P, K), h[m].parts)
    BY <1>1, OfKindKept
  <2>2. IsMap(Keep(P, K), P, K)
    <3>1. \A p \in P : Keep(P, K)[p] \in Seq(K)
      <4> SUFFICES ASSUME NEW p \in P PROVE Keep(P, K)[p] \in Seq(K)
        OBVIOUS
      <4>1. Keep(P, K)[p] = IF p \in K THEN <<p>> ELSE <<>>
        BY DEF Keep
      <4> HIDE DEF K, P
      <4> QED
        BY <4>1, EmptySeq
    <3> QED
      BY <3>1 DEF IsMap, Keep
  <2> HIDE DEF P, K
  <2> QED
    BY <1>1, <2>1, <2>2, FlatMapType
<1>5. PICK items : items = CallsOf(Encode(d, h), m)
  OBVIOUS
<1>6. PICK calls : calls = OfKind(h[m], "call")
  OBVIOUS
<1>7. items \in Seq(OtherItems(P, m, <<>>)) /\ Matches(d, items, calls)
  BY <1>2, <1>3, <1>5, <1>6
<1>8. calls \in Seq(K) /\ DOMAIN calls = 1 .. Len(calls) /\ \A i \in 1 .. Len(calls) : calls[i].kind = "call"
  <2>1. calls \in Seq(K)
    BY <1>4, <1>6
  <2>2. DOMAIN calls = 1 .. Len(calls) /\ \A i \in 1 .. Len(calls) : calls[i] \in K
    <3> HIDE DEF K
    <3> QED
      BY <2>1, LenProperties, ElementOfSeq
  <2> QED
    BY <2>1, <2>2
<1>9. DOMAIN items = 1 .. Len(calls)
  BY <1>7, LenProperties DEF Matches
<1>10. \A i \in 1 .. Len(calls) :
         items[i].id = calls[i].id /\ items[i].of = calls[i].of /\ items[i].name = <<calls[i].name>>
  BY <1>7, <1>8 DEF Matches, Same
<1> QED
  BY <1>5, <1>6, <1>8, <1>9, <1>10

\* In a well-formed conversation every call is answered, and no more.
LEMMA ConversationAnswered ==
  ASSUME HistoryShape(history), Conversed(history), NEW d \in DialectNames
  PROVE  Answers(d, Encode(d, history))
<1>1. PICK q : q = Encode(d, history)
  OBVIOUS
<1>2. DOMAIN history = 1 .. Len(history) /\ Len(history) \in Nat
  BY HistoryParts
<1>3. \A m \in 1 .. Len(history) : ItemsOf(q, m) = EncodedMessage(d, history, m)
  BY <1>1, EncodedItems
<1>4. ASSUME NEW m \in 1 .. Len(history), NEW i \in DOMAIN CallsOf(q, m)
      PROVE  Answered(d, CallsOf(q, m), i, ItemsOf(q, m + i))
  <2>1. history[m].role = "assistant"
    <3> SUFFICES ASSUME history[m].role # "assistant" PROVE FALSE
      OBVIOUS
    <3>1. CallsOf(q, m) = <<>>
      BY <1>3, EncodedKnown DEF CallsOf
    <3> QED
      BY <1>4, <3>1
  <2>2. PICK items : items = CallsOf(q, m)
    OBVIOUS
  <2>3. PICK calls : calls = OfKind(history[m], "call")
    OBVIOUS
  <2>4. /\ DOMAIN items = 1 .. Len(calls)
        /\ \A j \in 1 .. Len(calls) :
             items[j].id = calls[j].id /\ items[j].of = calls[j].of /\ items[j].name = <<calls[j].name>>
    BY <1>1, <2>1, <2>2, <2>3, CallsWritten
  <2>5. i \in 1 .. Len(calls)
    BY <1>4, <2>2, <2>4
  <2>6. IdsOnce(calls) /\ m + i \in 1 .. Len(history) /\ history[m + i] = AnswerTo(calls[i])
    BY <2>1, <2>3, <2>5 DEF Conversed, Asks
  <2>7. PICK k : k = m + i
    OBVIOUS
  <2>8. PICK r : /\ EncodedMessage(d, history, k) = <<r>>
                 /\ r.k = "result" /\ r.id = calls[i].id /\ r.of = calls[i].of
                 /\ d \in ByName => r.name = NameOf(history, k, calls[i].id)
    BY <2>6, <2>7, EncodedAnswer
  <2>9. NameOf(history, k, calls[i].id) = <<calls[i].name>>
    BY <2>1, <2>3, <2>5, <2>7, AnswerNamed
  <2>10. ItemsOf(q, m + i) = <<r>>
    BY <1>3, <2>6, <2>7, <2>8
  <2>11. Fits(d, r, items[i])
    BY <2>4, <2>5, <2>8, <2>9 DEF Fits
  <2>12. ASSUME d \notin ByName, NEW j \in DOMAIN items, Fits(d, r, items[j]) PROVE j = i
    BY <2>4, <2>5, <2>6, <2>8, <2>12 DEF Fits, IdsOnce
  <2>13. Len(<<r>>) = 1 /\ <<r>>[1] = r
    OBVIOUS
  <2>14. PICK answer : answer = ItemsOf(q, m + i)
    OBVIOUS
  <2>15. Len(answer) = 1 /\ answer[1] = r
    BY <2>10, <2>13, <2>14
  <2>16. Answered(d, items, i, answer)
    BY <2>4, <2>5, <2>8, <2>11, <2>12, <2>15 DEF Answered
  <2> QED
    BY <2>2, <2>14, <2>16
<1>5. ASSUME NEW j \in DOMAIN q, q[j].k = "result"
      PROVE  \E m \in 1 .. Len(history) : \E i \in DOMAIN CallsOf(q, m) : q[j].m = m + i
  <2>1. PICK m \in 1 .. Len(history) : q[j].m = m /\ q[j] \in Elements(EncodedMessage(d, history, m))
    BY <1>1, EncodedItems
  <2>2. IsAsked(history, m)
    BY <1>5, <2>1, EncodedKnown
  <2>3. PICK a \in 1 .. Len(history) : /\ history[a].role = "assistant"
                                       /\ \E i \in 1 .. Len(OfKind(history[a], "call")) : m = a + i
    BY <2>2 DEF IsAsked
  <2>4. PICK i \in 1 .. Len(OfKind(history[a], "call")) : m = a + i
    BY <2>3
  <2>5. i \in DOMAIN CallsOf(q, a)
    BY <1>1, <2>3, CallsWritten
  <2> QED
    BY <2>1, <2>4, <2>5
<1>6. Answers(d, q)
  BY <1>2, <1>4, <1>5 DEF Answers
<1> QED
  BY <1>1, <1>6

\* Conversations can be put one after the other.
LEMMA ConversedJoin ==
  ASSUME NEW h, NEW g, HistoryShape(h), HistoryShape(g), Conversed(h), Conversed(g)
  PROVE  Conversed(h \o g)
<1> DEFINE X == Elements(h) \cup Elements(g)
<1>1. h \in Seq(X) /\ g \in Seq(X)
  BY HistoryParts, SeqMonotonic
<1> HIDE DEF X
<1>2. PICK s \in Seq(X) : s = h \o g
  BY <1>1, ConcatProperties
<1>3. PICK n \in Nat, k \in Nat : n = Len(h) /\ k = Len(g)
  BY HistoryParts
<1>4. Len(s) = n + k /\ \A i \in 1 .. n + k : s[i] = IF i <= n THEN h[i] ELSE g[i - n]
  BY <1>1, <1>2, <1>3, ConcatProperties
<1>5. (\A i \in 1 .. n : i \in 1 .. n + k /\ s[i] = h[i]) /\ (\A i \in 1 .. k : n + i \in 1 .. n + k /\ s[n + i] = g[i])
  BY <1>4
<1>6. ASSUME NEW m \in 1 .. n
      PROVE  /\ s[m].role = "assistant" => Asks(s, m)
             /\ s[m].role = "tool" => IsAsked(s, m)
             /\ s[m].role \notin {"assistant", "tool"} => s[m] = User
  <2>1. s[m] = h[m] /\ m \in 1 .. Len(h)
    BY <1>3, <1>5
  <2>2. ASSUME h[m].role = "assistant" PROVE Asks(s, m)
    <3>1. PICK c : c = OfKind(h[m], "call")
      OBVIOUS
    <3>2. IdsOnce(c) /\ \A i \in 1 .. Len(c) : m + i \in 1 .. n /\ h[m + i] = AnswerTo(c[i])
      BY <1>3, <2>1, <2>2, <3>1 DEF Conversed, Asks
    <3>3. \A i \in 1 .. Len(c) : m + i \in 1 .. Len(s) /\ s[m + i] = AnswerTo(c[i])
      BY <1>4, <1>5, <3>2
    <3> QED
      BY <2>1, <3>1, <3>2, <3>3 DEF Asks
  <2>3. ASSUME h[m].role = "tool" PROVE IsAsked(s, m)
    <3>1. IsAsked(h, m)
      BY <2>1, <2>3 DEF Conversed
    <3>2. PICK a \in 1 .. n : /\ h[a].role = "assistant"
                              /\ \E i \in 1 .. Len(OfKind(h[a], "call")) : m = a + i
      BY <1>3, <3>1 DEF IsAsked
    <3>3. s[a] = h[a] /\ a \in 1 .. Len(s)
      BY <1>4, <1>5
    <3> QED
      BY <3>2, <3>3 DEF IsAsked
  <2>4. h[m].role \notin {"assistant", "tool"} => h[m] = User
    BY <2>1 DEF Conversed
  <2> QED
    BY <2>1, <2>2, <2>3, <2>4
<1>7. ASSUME NEW j \in 1 .. k
      PROVE  /\ s[n + j].role = "assistant" => Asks(s, n + j)
             /\ s[n + j].role = "tool" => IsAsked(s, n + j)
             /\ s[n + j].role \notin {"assistant", "tool"} => s[n + j] = User
  <2>1. s[n + j] = g[j] /\ j \in 1 .. Len(g)
    BY <1>3, <1>5
  <2>2. ASSUME g[j].role = "assistant" PROVE Asks(s, n + j)
    <3>1. PICK c : c = OfKind(g[j], "call")
      OBVIOUS
    <3>2. IdsOnce(c) /\ \A i \in 1 .. Len(c) : j + i \in 1 .. k /\ g[j + i] = AnswerTo(c[i])
      BY <1>3, <2>1, <2>2, <3>1 DEF Conversed, Asks
    <3>4. Len(c) \in Nat
      BY <2>1, <3>1, HistoryParts, CallsType
    <3>3. ASSUME NEW i \in 1 .. Len(c) PROVE (n + j) + i \in 1 .. Len(s) /\ s[(n + j) + i] = AnswerTo(c[i])
      <4>1. j + i \in 1 .. k /\ (n + j) + i = n + (j + i)
        BY <3>2, <3>4
      <4> QED
        BY <1>4, <1>5, <3>2, <4>1
    <3> QED
      BY <2>1, <3>1, <3>2, <3>3 DEF Asks
  <2>3. ASSUME g[j].role = "tool" PROVE IsAsked(s, n + j)
    <3>1. IsAsked(g, j)
      BY <2>1, <2>3 DEF Conversed
    <3>2. PICK a \in 1 .. k : /\ g[a].role = "assistant"
                              /\ \E i \in 1 .. Len(OfKind(g[a], "call")) : j = a + i
      BY <1>3, <3>1 DEF IsAsked
    <3>3. s[n + a] = g[a] /\ n + a \in 1 .. Len(s)
      BY <1>4, <1>5
    <3>4. PICK i \in 1 .. Len(OfKind(g[a], "call")) : j = a + i
      BY <3>2
    <3>5. Len(OfKind(g[a], "call")) \in Nat
      BY <1>3, HistoryParts, CallsType
    <3>6. n + j = (n + a) + i
      BY <3>4, <3>5
    <3>7. PICK b \in 1 .. Len(s) : b = n + a
      BY <3>3
    <3> QED
      BY <3>2, <3>3, <3>6, <3>7 DEF IsAsked
  <2>4. g[j].role \notin {"assistant", "tool"} => g[j] = User
    BY <2>1 DEF Conversed
  <2> QED
    BY <2>1, <2>2, <2>3, <2>4
<1>8. \A m \in 1 .. n + k : m \in 1 .. n \/ \E j \in 1 .. k : m = n + j
  <2> SUFFICES ASSUME NEW m \in 1 .. n + k, m \notin 1 .. n PROVE \E j \in 1 .. k : m = n + j
    OBVIOUS
  <2>1. m - n \in 1 .. k /\ m = n + (m - n)
    OBVIOUS
  <2> QED
    BY <2>1
<1>9. ASSUME NEW m \in 1 .. n + k
      PROVE  /\ s[m].role = "assistant" => Asks(s, m)
             /\ s[m].role = "tool" => IsAsked(s, m)
             /\ s[m].role \notin {"assistant", "tool"} => s[m] = User
  <2>1. CASE m \in 1 .. n
    BY <1>6, <2>1
  <2>2. CASE \E j \in 1 .. k : m = n + j
    <3>1. PICK j \in 1 .. k : m = n + j
      BY <2>2
    <3> QED
      BY <1>7, <3>1
  <2> QED
    BY <1>8, <2>1, <2>2
<1>10. Conversed(s)
  BY <1>4, <1>9 DEF Conversed
<1> QED
  BY <1>2, <1>10

\* Appending a part.
LEMMA OfKindAppend ==
  ASSUME NEW a, NEW b, IsSequence(a.parts), NEW p, b.parts = Append(a.parts, p), NEW kind
  PROVE  OfKind(b, kind) = IF p.kind = kind THEN Append(OfKind(a, kind), p) ELSE OfKind(a, kind)
<1>0. PICK P, K : P = Elements(a.parts) \cup {p} /\ K = {x \in P : x.kind = kind}
  OBVIOUS
<1>1. a.parts \in Seq(P) /\ p \in P
  BY <1>0, SeqMonotonic DEF IsSequence
<1>6. p \in K <=> p.kind = kind
  BY <1>0, <1>1
<1>2. OfKind(a, kind) = FlatMap(Keep(P, K), a.parts)
  BY <1>0, <1>1, OfKindKept
<1>3. b.parts \in Seq(P)
  BY <1>1, AppendProperties
<1>10. OfKind(b, kind) = FlatMap(Keep(P, K), b.parts)
  <2>1. ASSUME NEW msg, msg.parts \in Seq(P)
        PROVE  OfKind(msg, kind) = FlatMap(Keep(P, K), msg.parts)
    BY <1>0, <2>1, OfKindKept
  <2> QED
    BY ONLY <1>3, <2>1
<1>4. OfKind(b, kind) = FlatMap(Keep(P, K), Append(a.parts, p))
  BY <1>10
<1>5. FlatMap(Keep(P, K), Append(a.parts, p)) = FlatMap(Keep(P, K), a.parts) \o Keep(P, K)[p]
  BY <1>1, KeepType, FlatMapAppend
<1>7. PICK s \in Seq(P) : s = FlatMap(Keep(P, K), a.parts)
  BY <1>1, KeepType, FlatMapType
<1>8. Keep(P, K)[p] = IF p.kind = kind THEN <<p>> ELSE <<>>
  BY <1>1, <1>6 DEF Keep
<1>9. s \o <<p>> = Append(s, p) /\ s \o <<>> = s
  BY <1>1
<1> QED
  BY <1>2, <1>4, <1>5, <1>7, <1>8, <1>9
-----------------------------------------------------------------------------
(* The message of a turn has the calls that were reported                  *)

(* The accumulator *)

CallsAgree(a, t) ==
    LET parts == OfKind(a, "call") IN
    /\ Len(parts) = Len(a.calls)
    /\ \A i \in 1 .. Len(parts) : parts[i].id = a.calls[i].id /\ parts[i].of = <<t, i>>

\* Only the parts matter.
LEMMA SameParts ==
  ASSUME NEW a, NEW b, IsSequence(a.parts), b.parts = a.parts, NEW kind
  PROVE  OfKind(b, kind) = OfKind(a, kind)
<1>1. PICK P : P = Elements(a.parts)
  OBVIOUS
<1>2. ASSUME NEW msg, msg.parts = a.parts
      PROVE  OfKind(msg, kind) = FlatMap(Keep(P, {p \in P : p.kind = kind}), a.parts)
  <2>1. msg.parts \in Seq(P)
    BY <1>1, <1>2 DEF IsSequence
  <2>2. OfKind(msg, kind) = FlatMap(Keep(P, {p \in P : p.kind = kind}), msg.parts)
    BY <2>1, OfKindKept
  <2> QED
    BY <1>2, <2>2
<1> QED
  BY <1>2

\* Ending a part, or going on with one, touches no call.
LEMMA FlushCalls ==
  ASSUME NEW a, AccShape(a), NEW sig
  PROVE  OfKind(Flush(a, sig), "call") = OfKind(a, "call") /\ Flush(a, sig).calls = a.calls
<1>1. PICK p : p = IF a.kind = "thought" THEN [kind |-> "thought", text |-> a.text, sig |-> sig]
                                         ELSE [kind |-> "text", text |-> a.text]
  OBVIOUS
<1>2. p.kind # "call"
  BY <1>1
<1>3. PICK b : b = Flush(a, sig)
  OBVIOUS
<1>4. b = IF a.kind = "" \/ (a.text = <<>> /\ sig = <<>>) THEN [a EXCEPT !.kind = ""]
          ELSE [a EXCEPT !.parts = Append(@, p), !.kind = "", !.text = <<>>]
  BY <1>1, <1>3 DEF Flush
<1>5. b.calls = a.calls /\ (b.parts = a.parts \/ b.parts = Append(a.parts, p))
  BY <1>4 DEF AccShape
<1>6. IsSequence(a.parts)
  BY DEF AccShape
<1>7. CASE b.parts = a.parts
  BY <1>3, <1>5, <1>6, <1>7, SameParts
<1>8. CASE b.parts = Append(a.parts, p)
  <2>1. OfKind(b, "call") = IF p.kind = "call" THEN Append(OfKind(a, "call"), p) ELSE OfKind(a, "call")
    BY <1>6, <1>8, OfKindAppend
  <2> QED
    BY <1>2, <1>3, <1>5, <2>1
<1> QED
  BY <1>5, <1>7, <1>8

\* A delta touches no call.
LEMMA DeltaCalls ==
  ASSUME NEW a, AccShape(a), NEW kind, NEW text
  PROVE  OfKind(Delta(a, kind, text), "call") = OfKind(a, "call") /\ Delta(a, kind, text).calls = a.calls
<1>1. PICK f : f = Flush(a, <<>>)
  OBVIOUS
<1>2. AccShape(f) /\ OfKind(f, "call") = OfKind(a, "call") /\ f.calls = a.calls
  BY <1>1, FlushShape, FlushCalls
<1>3. PICK b : b = (IF a.kind = kind THEN a ELSE [f EXCEPT !.kind = kind])
  OBVIOUS
<1>4. AccShape(b) /\ b.calls = a.calls
  BY <1>2, <1>3 DEF AccShape
<1>5. OfKind(b, "call") = OfKind(a, "call")
  <2>1. CASE a.kind = kind
    BY <1>3, <2>1
  <2>2. CASE a.kind # kind
    <3>1. b.parts = f.parts /\ IsSequence(f.parts)
      BY <1>2, <1>3, <2>2 DEF AccShape
    <3> QED
      BY <1>2, <3>1, SameParts
  <2> QED
    BY <2>1, <2>2
<1>6. PICK c : c = Delta(a, kind, text)
  OBVIOUS
<1>7. c = [b EXCEPT !.text = @ \o text]
  BY <1>1, <1>3, <1>6 DEF Delta
<1>8. c.parts = b.parts /\ c.calls = b.calls /\ IsSequence(b.parts)
  BY <1>4, <1>7 DEF AccShape
<1>9. OfKind(c, "call") = OfKind(b, "call")
  BY <1>8, SameParts
<1> QED
  BY <1>4, <1>5, <1>6, <1>8, <1>9

\* An event that is no complete call adds none; one that is adds itself.
LEMMA ConsumeOther ==
  ASSUME NEW a, AccShape(a), NEW e, e.type # "tool_call_end"
  PROVE  OfKind(Consume(a, e), "call") = OfKind(a, "call") /\ Consume(a, e).calls = a.calls
<1>1. CASE e.type = "text_delta"
  BY <1>1, DeltaCalls DEF Consume
<1>2. CASE e.type = "reasoning_delta"
  BY <1>2, DeltaCalls DEF Consume
<1>3. CASE e.type = "reasoning_done"
  <2>1. PICK b : b = Delta(a, "thought", <<>>)
    OBVIOUS
  <2>2. AccShape(b) /\ OfKind(b, "call") = OfKind(a, "call") /\ b.calls = a.calls
    BY <2>1, DeltaShape, DeltaCalls
  <2>3. Consume(a, e) = Flush(b, e.sig)
    BY <1>3, <2>1 DEF Consume
  <2> QED
    BY <2>2, <2>3, FlushCalls
<1>5. CASE e.type = "message_done"
  <2>1. PICK b : b = Consume(a, e)
    OBVIOUS
  <2>2. b.parts = a.parts /\ b.calls = a.calls /\ IsSequence(a.parts)
    BY <1>5, <2>1 DEF Consume, AccShape
  <2> QED
    BY <2>1, <2>2, SameParts
<1>6. CASE e.type \notin {"text_delta", "reasoning_delta", "reasoning_done", "tool_call_end", "message_done"}
  BY <1>6 DEF Consume
<1> QED
  BY <1>1, <1>2, <1>3, <1>5, <1>6

\* The event of a complete call adds it, and its part, at the end.
LEMMA ConsumeCall ==
  ASSUME NEW a, AccShape(a), NEW e, e.type = "tool_call_end"
  PROVE  \E p, c : /\ OfKind(Consume(a, e), "call") = Append(OfKind(a, "call"), p)
                   /\ Consume(a, e).calls = Append(a.calls, c)
                   /\ p.id = e.id /\ c.id = e.id /\ p.of = <<turn, Len(a.calls) + 1>>
<1>1. PICK f : f = Flush(a, <<>>)
  OBVIOUS
<1>2. AccShape(f) /\ OfKind(f, "call") = OfKind(a, "call") /\ f.calls = a.calls
  BY <1>1, FlushShape, FlushCalls
<1>3. PICK c : c = [id |-> e.id, name |-> e.name, args |-> e.args]
  OBVIOUS
<1>4. PICK p : p = [kind |-> "call", id |-> e.id, name |-> e.name, args |-> e.args,
                    of |-> <<turn, Len(a.calls) + 1>>]
  OBVIOUS
<1>5. PICK b : b = Consume(a, e)
  OBVIOUS
<1>6. b = [f EXCEPT !.calls = Append(@, c), !.parts = Append(@, p)]
  BY <1>1, <1>3, <1>4, <1>5 DEF Consume
<1>7. b.parts = Append(f.parts, p) /\ b.calls = Append(f.calls, c) /\ IsSequence(f.parts)
  BY <1>2, <1>6 DEF AccShape
<1>8. p.kind = "call" /\ p.id = e.id /\ c.id = e.id /\ p.of = <<turn, Len(a.calls) + 1>>
  BY <1>3, <1>4
<1>9. OfKind(b, "call") = Append(OfKind(f, "call"), p)
  <2>1. OfKind(b, "call") = IF p.kind = "call" THEN Append(OfKind(f, "call"), p) ELSE OfKind(f, "call")
    <3>1. b.parts = Append(f.parts, p) /\ IsSequence(f.parts)
      BY <1>7
    <3> QED
      BY ONLY <3>1, OfKindAppend
  <2> QED
    BY <1>8, <2>1
<1> QED
  BY <1>2, <1>5, <1>7, <1>8, <1>9

(* The history *)

\* A conversation begins well.
LEMMA NothingConversed == Conversed(<<>>) /\ Conversed(<<User>>)
<1>1. User.role = "user"
  BY UserFields
<1>2. PICK u : u = User
  OBVIOUS
<1>3. \A m \in 1 .. Len(<<u>>) : <<u>>[m] = u
  OBVIOUS
<1>4. Conversed(<<u>>)
  BY <1>1, <1>2, <1>3 DEF Conversed
<1>5. Conversed(<<>>)
  BY DEF Conversed
<1> QED
  BY <1>2, <1>4, <1>5

\* A message without calls asks for nothing.
LEMMA LoneMessage ==
  ASSUME NEW msg, msg.role = "assistant", OfKind(msg, "call") = <<>>
  PROVE  Conversed(<<msg>>)
<1>1. PICK h : h = <<msg>>
  OBVIOUS
<1>2. \A m \in 1 .. Len(h) : h[m] = msg
  BY <1>1
<1>3. ASSUME NEW m \in 1 .. Len(h) PROVE Asks(h, m)
  <2>1. OfKind(h[m], "call") = <<>>
    BY <1>2
  <2> QED
    BY <2>1 DEF Asks, IdsOnce
<1>4. Conversed(h)
  BY <1>2, <1>3 DEF Conversed
<1> QED
  BY <1>1, <1>4

\* A message with calls and their answers.
LEMMA MessageAnswered ==
  ASSUME NEW msg, msg.role = "assistant", NEW c, c = OfKind(msg, "call"), IsSequence(c), IdsOnce(c),
         NEW r, r = [i \in 1 .. Len(c) |-> AnswerTo(c[i])]
  PROVE  Conversed(<<msg>> \o r)
<1>1. Len(c) \in Nat
  BY SequenceOver
<1>2. PICK h : h = <<msg>> \o r
  OBVIOUS
<1>3. Len(r) = Len(c)
  <2>1. r \in Seq({AnswerTo(c[i]) : i \in 1 .. Len(c)})
    BY <1>1
  <2> QED
    BY <1>1, <2>1
<1>4. /\ Len(h) = 1 + Len(c) /\ h[1] = msg
      /\ \A i \in 1 .. Len(c) : 1 + i \in 1 .. Len(h) /\ h[1 + i] = AnswerTo(c[i])
  <2>1. PICK X : X = {AnswerTo(c[i]) : i \in 1 .. Len(c)} \cup {msg}
    OBVIOUS
  <2>2. r \in Seq(X) /\ <<msg>> \in Seq(X)
    BY <1>1, <2>1, SingleType
  <2>3. PICK s \in Seq(X) : s = <<msg>>
    BY <2>2
  <2>4. Len(s) = 1 /\ s[1] = msg
    BY <2>3
  <2>5. h = s \o r
    BY <1>2, <2>3
  <2>6. Len(h) = 1 + Len(c) /\ \A i \in 1 .. 1 + Len(c) : h[i] = IF i <= 1 THEN s[i] ELSE r[i - 1]
    BY ONLY <1>1, <1>3, <2>2, <2>3, <2>4, <2>5, ConcatProperties
  <2>7. ASSUME NEW i \in 1 .. Len(c) PROVE 1 + i \in 1 .. Len(h) /\ h[1 + i] = r[i]
    <3>1. 1 + i \in 1 .. 1 + Len(c) /\ ~ (1 + i <= 1) /\ (1 + i) - 1 = i
      BY <1>1
    <3> QED
      BY <2>6, <3>1
  <2>8. h[1] = s[1]
    BY <1>1, <2>6
  <2> QED
    BY <2>4, <2>6, <2>7, <2>8
<1>5. \A m \in 1 .. Len(h) : m = 1 \/ \E i \in 1 .. Len(c) : m = 1 + i
  <2> SUFFICES ASSUME NEW m \in 1 .. Len(h), m # 1 PROVE \E i \in 1 .. Len(c) : m = 1 + i
    OBVIOUS
  <2>1. m - 1 \in 1 .. Len(c) /\ m = 1 + (m - 1)
    BY <1>1, <1>4
  <2> QED
    BY <2>1
<1>6. OfKind(h[1], "call") = c /\ h[1].role = "assistant" /\ 1 \in 1 .. Len(h)
  BY <1>1, <1>4
<1>7. Asks(h, 1)
  <2>1. PICK m : m = 1
    OBVIOUS
  <2>2. IdsOnce(c) /\ \A i \in 1 .. Len(c) : m + i \in 1 .. Len(h) /\ h[m + i] = AnswerTo(c[i])
    BY <1>4, <2>1
  <2>3. OfKind(h[m], "call") = c
    BY <1>6, <2>1
  <2>4. Asks(h, m)
    BY <2>2, <2>3 DEF Asks
  <2> QED
    BY <2>1, <2>4
<1>8. ASSUME NEW i \in 1 .. Len(c) PROVE h[1 + i].role = "tool" /\ IsAsked(h, 1 + i)
  <2>1. h[1 + i].role = "tool"
    <3>1. AnswerTo(c[i]).role = "tool"
      BY DEF AnswerTo
    <3> QED
      BY <1>4, <3>1
  <2> QED
    BY <1>6, <2>1 DEF IsAsked
<1>9. ASSUME NEW m \in 1 .. Len(h)
      PROVE  /\ h[m].role = "assistant" => Asks(h, m)
             /\ h[m].role = "tool" => IsAsked(h, m)
             /\ h[m].role \notin {"assistant", "tool"} => h[m] = User
  <2>1. CASE m = 1
    BY <1>6, <1>7, <2>1
  <2>2. CASE \E i \in 1 .. Len(c) : m = 1 + i
    BY <1>8, <2>2
  <2> QED
    BY <1>5, <2>1, <2>2
<1>10. Conversed(h)
  BY <1>9 DEF Conversed
<1> QED
  BY <1>2, <1>10

\* The message of a turn and the results of its calls go on well.
LEMMA CloseConversed ==
  ASSUME AccShape(acc), HistoryShape(history), CallsAgree(acc, turn), IdsOnce(acc.calls), Conversed(history)
  PROVE  Conversed(history \o When(Message # <<>>, [role |-> "assistant", parts |-> Message, from |-> dialect])
                           \o (IF acc.calls = <<>> THEN <<User>> ELSE Results))
<1>1. PICK msg : msg = [role |-> "assistant", parts |-> Message, from |-> dialect]
  OBVIOUS
<1>2. PICK c : c = OfKind(msg, "call")
  OBVIOUS
<1>3. msg.parts = Message /\ msg.role = "assistant" /\ msg.from = dialect
  BY <1>1
<1>4. IsSequence(Message)
  BY FlushShape DEF Message, AccShape
<1>5. c = OfKind(acc, "call")
  <2>1. PICK f : f = Flush(acc, <<>>)
    OBVIOUS
  <2>2. IsSequence(f.parts) /\ msg.parts = f.parts
    BY <1>3, <1>4, <2>1 DEF Message
  <2>3. OfKind(msg, "call") = OfKind(f, "call")
    BY ONLY <2>2, SameParts
  <2> QED
    BY <1>2, <2>1, <2>3, FlushCalls
<1>6. MessageShape(msg)
  BY <1>3, <1>4 DEF MessageShape
<1>7. IsSequence(c) /\ Len(c) \in Nat
  BY <1>2, <1>6, CallsType DEF MessageShape
<1>8. Len(c) = Len(acc.calls) /\ \A i \in 1 .. Len(c) : c[i].id = acc.calls[i].id /\ c[i].of = <<turn, i>>
  BY <1>5 DEF CallsAgree
<1>9. IdsOnce(c)
  BY <1>8 DEF IdsOnce
<1>10. HistoryShape(<<msg>>)
  BY <1>6, OneMessage
<1>11. CASE acc.calls = <<>>
  <2>1. c = <<>>
    <3>1. Len(c) = 0
      BY <1>8, <1>11
    <3> QED
      BY <1>7, <3>1, EmptySeq DEF IsSequence
  <2>2. PICK said : said = When(Message # <<>>, msg)
    OBVIOUS
  <2>3. said = <<>> \/ said = <<msg>>
    BY <2>2 DEF When
  <2>4. Conversed(said) /\ HistoryShape(said)
    BY <1>2, <1>3, <1>10, <2>1, <2>3, LoneMessage, NothingConversed, NoMessage
  <2>5. Conversed(history \o said) /\ HistoryShape(history \o said)
    BY <2>4, ConversedJoin, HistoryGrows
  <2>6. Conversed((history \o said) \o <<User>>)
    BY <2>5, ConversedJoin, NothingConversed, UserShape
  <2> QED
    BY <1>1, <1>11, <2>2, <2>6
<1>12. CASE acc.calls # <<>>
  <2>1. Len(c) # 0
    BY <1>8, <1>12 DEF AccShape, IsSequence
  <2>2. Message # <<>>
    <3>1. ASSUME Message = <<>> PROVE FALSE
      <4>1. c \in Seq(Elements(<<>>))
        BY <1>2, <1>3, <1>4, <3>1, CallsType
      <4>2. Elements(<<>>) = {}
        BY DEF Elements
      <4> QED
        BY <2>1, <4>1, <4>2, EmptySeq
    <3> QED
      BY <3>1
  <2>3. PICK r : r = [i \in 1 .. Len(c) |-> AnswerTo(c[i])]
    OBVIOUS
  <2>4. Results = r
    <3>1. DOMAIN acc.calls = 1 .. Len(c)
      BY <1>8 DEF AccShape, IsSequence
    <3>2. Results = [i \in 1 .. Len(c) |-> [role |-> "tool", from |-> "",
                 parts |-> <<[kind |-> "result", id |-> acc.calls[i].id, of |-> <<turn, i>>]>>]]
      BY <3>1 DEF Results
    <3>3. \A i \in 1 .. Len(c) : AnswerTo(c[i]) = [role |-> "tool", from |-> "",
                 parts |-> <<[kind |-> "result", id |-> acc.calls[i].id, of |-> <<turn, i>>]>>]
      BY <1>8 DEF AnswerTo
    <3> QED
      BY <2>3, <3>2, <3>3
  <2>5. When(Message # <<>>, msg) = <<msg>>
    BY <2>2 DEF When
  <2>6. Conversed(<<msg>> \o r)
    BY <1>2, <1>3, <1>7, <1>9, <2>3, MessageAnswered
  <2>7. HistoryShape(r)
    <3>1. \A i \in 1 .. Len(c) : MessageShape(AnswerTo(c[i]))
      <4> SUFFICES ASSUME NEW tc PROVE MessageShape(AnswerTo(tc))
        OBVIOUS
      <4>1. PICK p : p = [kind |-> "result", id |-> tc.id, of |-> tc.of]
        OBVIOUS
      <4>2. IsSequence(<<p>>)
        BY SingleType, SequenceOver
      <4>3. AnswerTo(tc).parts = <<p>> /\ AnswerTo(tc).from = ""
        BY <4>1 DEF AnswerTo
      <4> QED
        BY <4>2, <4>3 DEF MessageShape
    <3>2. r \in Seq({AnswerTo(c[i]) : i \in 1 .. Len(c)})
      BY <1>7, <2>3
    <3> QED
      BY <3>1, <3>2, SequenceOver DEF HistoryShape
  <2>8. HistoryShape(<<msg>> \o r)
    BY <1>10, <2>7, HistoryGrows
  <2>9. Conversed(history \o (<<msg>> \o r))
    BY <2>6, <2>8, ConversedJoin
  <2>10. (history \o <<msg>>) \o r = history \o (<<msg>> \o r)
    <3>1. IsSequence(history) /\ IsSequence(<<msg>>) /\ IsSequence(r)
      BY <1>10, <2>7 DEF HistoryShape
    <3>2. PICK X : X = Elements(history) \cup Elements(<<msg>>) \cup Elements(r)
      OBVIOUS
    <3>3. history \in Seq(X) /\ <<msg>> \in Seq(X) /\ r \in Seq(X)
      BY <3>1, <3>2, SeqMonotonic DEF IsSequence
    <3> QED
      BY ONLY <3>3, ConcatAssociative
  <2> QED
    BY <1>1, <1>12, <2>4, <2>5, <2>9, <2>10
<1> QED
  BY <1>11, <1>12
-----------------------------------------------------------------------------
(* No call is reported twice                                               *)

(* Elements that carry marks, each mark once *)

MarksOf(g, s) == UNION {g[s[i]] : i \in 1 .. Len(s)}
Once(g, s)    == \A i, j \in 1 .. Len(s) : i # j => g[s[i]] \cap g[s[j]] = {}

\* The elements of a concatenation.
LEMMA JoinElements ==
  ASSUME NEW X, NEW s \in Seq(X), NEW u \in Seq(X), NEW i \in 1 .. Len(s \o u)
  PROVE  \/ i \in 1 .. Len(s) /\ (s \o u)[i] = s[i]
         \/ i - Len(s) \in 1 .. Len(u) /\ (s \o u)[i] = u[i - Len(s)]
<1>1. Len(s) \in Nat /\ Len(u) \in Nat /\ Len(s \o u) = Len(s) + Len(u)
  BY ConcatProperties
<1>2. (s \o u)[i] = IF i <= Len(s) THEN s[i] ELSE u[i - Len(s)]
  BY <1>1, ConcatProperties
<1>3. CASE i <= Len(s)
  BY <1>1, <1>2, <1>3
<1>4. CASE ~ (i <= Len(s))
  <2>1. i - Len(s) \in 1 .. Len(u)
    BY <1>1, <1>4
  <2> QED
    BY <1>2, <1>4, <2>1
<1> QED
  BY <1>3, <1>4

\* Marks of a concatenation,
LEMMA OnceJoin ==
  ASSUME NEW X, NEW s \in Seq(X), NEW u \in Seq(X), NEW g
  PROVE  /\ MarksOf(g, s \o u) = MarksOf(g, s) \cup MarksOf(g, u)
         /\ Once(g, s) /\ Once(g, u) /\ MarksOf(g, s) \cap MarksOf(g, u) = {} => Once(g, s \o u)
<1>1. PICK w : w = s \o u
  OBVIOUS
<1>2. PICK n, k : n = Len(s) /\ k = Len(u) /\ n \in Nat /\ k \in Nat
  BY LenProperties
<1>3. Len(w) = n + k
  BY <1>1, <1>2, ConcatProperties
<1>4. \A i \in 1 .. Len(w) : \/ i \in 1 .. n /\ w[i] = s[i]
                             \/ i - n \in 1 .. k /\ w[i] = u[i - n]
  BY <1>1, <1>2, JoinElements
<1>5. \A i \in 1 .. n : i \in 1 .. Len(w) /\ w[i] = s[i]
  <2> SUFFICES ASSUME NEW i \in 1 .. n PROVE i \in 1 .. Len(w) /\ w[i] = s[i]
    OBVIOUS
  <2>1. i \in 1 .. Len(w) /\ ~ (i - n \in 1 .. k)
    BY <1>2, <1>3
  <2> QED
    BY <1>4, <2>1
<1>6. \A j \in 1 .. k : n + j \in 1 .. Len(w) /\ w[n + j] = u[j]
  <2> SUFFICES ASSUME NEW j \in 1 .. k PROVE n + j \in 1 .. Len(w) /\ w[n + j] = u[j]
    OBVIOUS
  <2>1. n + j \in 1 .. Len(w) /\ ~ (n + j \in 1 .. n) /\ (n + j) - n = j
    BY <1>2, <1>3
  <2> QED
    BY <1>4, <2>1
<1>7. MarksOf(g, w) \subseteq MarksOf(g, s) \cup MarksOf(g, u)
  <2> SUFFICES ASSUME NEW i \in 1 .. Len(w), NEW m \in g[w[i]] PROVE m \in MarksOf(g, s) \cup MarksOf(g, u)
    BY DEF MarksOf
  <2>1. CASE i \in 1 .. n /\ w[i] = s[i]
    BY <1>2, <2>1 DEF MarksOf
  <2>2. CASE i - n \in 1 .. k /\ w[i] = u[i - n]
    <3>1. PICK j \in 1 .. k : w[i] = u[j]
      BY <2>2
    <3> QED
      BY <1>2, <3>1 DEF MarksOf
  <2> QED
    BY <1>4, <2>1, <2>2
<1>8. MarksOf(g, s) \subseteq MarksOf(g, w)
  BY <1>2, <1>5 DEF MarksOf
<1>9. MarksOf(g, u) \subseteq MarksOf(g, w)
  BY <1>2, <1>6 DEF MarksOf
<1>10. ASSUME Once(g, s), Once(g, u), MarksOf(g, s) \cap MarksOf(g, u) = {} PROVE Once(g, w)
  <2> SUFFICES ASSUME NEW i \in 1 .. Len(w), NEW j \in 1 .. Len(w), i # j, NEW m \in g[w[i]], m \in g[w[j]]
               PROVE  FALSE
    BY DEF Once
  <2>0. i \in Int /\ j \in Int
    BY <1>2, <1>3
  <2>1. CASE i \in 1 .. n /\ w[i] = s[i] /\ j \in 1 .. n /\ w[j] = s[j]
    BY <1>2, <1>10, <2>1 DEF Once
  <2>2. CASE i - n \in 1 .. k /\ w[i] = u[i - n] /\ j - n \in 1 .. k /\ w[j] = u[j - n]
    <3>1. PICK a \in 1 .. k, b \in 1 .. k : a = i - n /\ b = j - n
      BY <2>2
    <3>2. a # b
      BY <1>2, <2>0, <3>1
    <3>3. m \in g[u[a]] /\ m \in g[u[b]]
      BY <2>2, <3>1
    <3> QED
      BY <1>2, <1>10, <3>2, <3>3 DEF Once
  <2>3. CASE i \in 1 .. n /\ w[i] = s[i] /\ j - n \in 1 .. k /\ w[j] = u[j - n]
    BY <1>2, <1>10, <2>3 DEF MarksOf
  <2>4. CASE i - n \in 1 .. k /\ w[i] = u[i - n] /\ j \in 1 .. n /\ w[j] = s[j]
    BY <1>2, <1>10, <2>4 DEF MarksOf
  <2> QED
    BY <1>4, <2>1, <2>2, <2>3, <2>4
<1> QED
  BY <1>1, <1>7, <1>8, <1>9, <1>10

\* of nothing,
LEMMA OnceEmpty ==
  ASSUME NEW g
  PROVE  MarksOf(g, <<>>) = {} /\ Once(g, <<>>)
BY DEF MarksOf, Once

\* and of one element.
LEMMA OnceSingle ==
  ASSUME NEW g, NEW x
  PROVE  MarksOf(g, <<x>>) = g[x] /\ Once(g, <<x>>)
<1>1. PICK s : s = <<x>>
  OBVIOUS
<1>2. 1 .. Len(s) = {1} /\ s[1] = x
  BY <1>1
<1> QED
  BY <1>1, <1>2 DEF MarksOf, Once

\* Pieces that each carry no more than their origin.
LEMMA OnceMapped ==
  ASSUME NEW X, NEW Y, NEW h, IsMap(h, X, Y), NEW g, NEW k,
         \A x \in X : Once(g, h[x]) /\ MarksOf(g, h[x]) \subseteq k[x],
         NEW r \in Seq(X), Once(k, r)
  PROVE  Once(g, FlatMap(h, r)) /\ MarksOf(g, FlatMap(h, r)) \subseteq MarksOf(k, r)
<1> DEFINE Kept(s) == Once(g, FlatMap(h, s)) /\ MarksOf(g, FlatMap(h, s)) \subseteq MarksOf(k, s)
           T == {s \in Seq(X) : Once(k, s) => Kept(s)}
<1>1. <<>> \in T
  BY FlatMapEmpty, OnceEmpty, EmptySeq
<1>2. ASSUME NEW s \in Seq(X), NEW x \in X, s \in T PROVE Append(s, x) \in T
  <2>0. Once(k, s) => Kept(s)
    BY <1>2
  <2> HIDE DEF T
  <2>1. Append(s, x) \in Seq(X) /\ <<x>> \in Seq(X) /\ Append(s, x) = s \o <<x>>
    BY AppendProperties, AppendIsConcat, SingleType
  <2>2. ASSUME Once(k, Append(s, x)) PROVE Kept(Append(s, x))
    <3>0. FlatMap(h, s) \in Seq(Y)
      BY ONLY IsMap(h, X, Y), s \in Seq(X), FlatMapType
    <3>1. PICK f : f = FlatMap(h, s) /\ f \in Seq(Y)
      BY <3>0
    <3>11. FlatMap(h, Append(s, x)) = FlatMap(h, s) \o h[x]
      BY ONLY IsMap(h, X, Y), s \in Seq(X), x \in X, FlatMapAppend
    <3>2. FlatMap(h, Append(s, x)) = f \o h[x]
      BY <3>1, <3>11
    <3>3. MarksOf(k, Append(s, x)) = MarksOf(k, s) \cup k[x]
      <4>1. MarksOf(k, s \o <<x>>) = MarksOf(k, s) \cup MarksOf(k, <<x>>)
        <5>1. PICK u : u = <<x>> /\ u \in Seq(X)
          BY <2>1
        <5>3. u \in Seq(X) /\ s \in Seq(X)
          BY <5>1
        <5>2. MarksOf(k, s \o u) = MarksOf(k, s) \cup MarksOf(k, u)
          BY ONLY <5>3, OnceJoin
        <5> QED
          BY <5>1, <5>2
      <4> QED
        BY <2>1, <4>1, OnceSingle
    <3>4. Once(k, s) /\ MarksOf(k, s) \cap k[x] = {}
      <4>1. PICK n : n = Len(s) /\ n \in Nat /\ n + 1 \in 1 .. n + 1
        OBVIOUS
      <4>2. PICK w : w = Append(s, x)
        OBVIOUS
      <4>3. Len(w) = n + 1 /\ w[n + 1] = x /\ \A i \in 1 .. n : i \in 1 .. n + 1 /\ w[i] = s[i] /\ i # n + 1
        BY <4>1, <4>2, AppendProperties
      <4>4. Once(k, w)
        BY <2>2, <4>2
      <4>5. \A i \in 1 .. n : k[s[i]] \cap k[x] = {}
        BY <4>1, <4>3, <4>4 DEF Once
      <4>6. Once(k, s)
        BY <4>1, <4>3, <4>4 DEF Once
      <4> QED
        BY <4>1, <4>5, <4>6 DEF MarksOf
    <3>5. Kept(s)
      BY <2>0, <3>4
    <3>6. h[x] \in Seq(Y)
      BY DEF IsMap
    <3>7. Once(g, h[x]) /\ MarksOf(g, h[x]) \subseteq k[x]
      OBVIOUS
    <3>8. MarksOf(g, f \o h[x]) = MarksOf(g, f) \cup MarksOf(g, h[x])
      BY <3>1, <3>6, OnceJoin
    <3>9. MarksOf(g, f) \cap MarksOf(g, h[x]) = {}
      BY <3>1, <3>4, <3>5, <3>7
    <3>10. Once(g, f \o h[x])
      BY <3>1, <3>5, <3>6, <3>7, <3>9, OnceJoin
    <3> QED
      BY <3>1, <3>2, <3>3, <3>5, <3>7, <3>8, <3>10
  <2> QED
    BY <2>1, <2>2 DEF T
<1>3. Seq(X) \subseteq T
  <2> HIDE DEF T
  <2> QED
    BY <1>1, <1>2, SequencesUpward
<1> QED
  BY <1>3

\* Taking the first.
LEMMA OnceTail ==
  ASSUME NEW X, NEW w \in Seq(X), w # <<>>, NEW g
  PROVE  /\ Head(w) \in X /\ Tail(w) \in Seq(X)
         /\ MarksOf(g, w) = g[Head(w)] \cup MarksOf(g, Tail(w))
         /\ Once(g, w) => Once(g, Tail(w)) /\ g[Head(w)] \cap MarksOf(g, Tail(w)) = {}
<1>1. PICK s : s = Tail(w)
  OBVIOUS
<1>2. /\ Head(w) \in X /\ s \in Seq(X) /\ Len(w) \in Nat /\ Len(w) # 0 /\ Len(s) = Len(w) - 1
      /\ Head(w) = w[1]
  BY <1>1
<1>3. \A i \in 1 .. Len(s) : s[i] = w[i + 1] /\ i + 1 \in 1 .. Len(w) /\ i + 1 # 1
  BY <1>1, <1>2
<1>4. 1 \in 1 .. Len(w)
  BY <1>2
<1>5. \A i \in 1 .. Len(w) : i = 1 \/ \E j \in 1 .. Len(s) : i = j + 1
  <2> SUFFICES ASSUME NEW i \in 1 .. Len(w), i # 1 PROVE \E j \in 1 .. Len(s) : i = j + 1
    OBVIOUS
  <2>1. i - 1 \in 1 .. Len(s) /\ i = (i - 1) + 1
    BY <1>2
  <2> QED
    BY <2>1
<1>6. MarksOf(g, w) \subseteq g[w[1]] \cup MarksOf(g, s)
  <2> SUFFICES ASSUME NEW i \in 1 .. Len(w), NEW m \in g[w[i]] PROVE m \in g[w[1]] \cup MarksOf(g, s)
    BY DEF MarksOf
  <2>1. CASE i = 1
    BY <2>1
  <2>2. CASE \E j \in 1 .. Len(s) : i = j + 1
    BY <1>3, <2>2 DEF MarksOf
  <2> QED
    BY <1>5, <2>1, <2>2
<1>7. g[w[1]] \cup MarksOf(g, s) \subseteq MarksOf(g, w)
  BY <1>3, <1>4 DEF MarksOf
<1>8. ASSUME Once(g, w) PROVE Once(g, s) /\ g[w[1]] \cap MarksOf(g, s) = {}
  <2>1. Once(g, s)
    <3> SUFFICES ASSUME NEW i \in 1 .. Len(s), NEW j \in 1 .. Len(s), i # j PROVE g[s[i]] \cap g[s[j]] = {}
      BY DEF Once
    <3>1. i + 1 # j + 1
      BY <1>2
    <3> QED
      BY <1>3, <1>8, <3>1 DEF Once
  <2>2. \A j \in 1 .. Len(s) : g[w[1]] \cap g[s[j]] = {}
    BY <1>3, <1>4, <1>8 DEF Once
  <2> QED
    BY <2>1, <2>2 DEF MarksOf
<1> QED
  BY <1>1, <1>2, <1>6, <1>7, <1>8

\* Changing the function outside the elements changes nothing.
LEMMA OnceOver ==
  ASSUME NEW X, NEW s \in Seq(X), NEW g, NEW h, \A x \in X : g[x] = h[x]
  PROVE  MarksOf(g, s) = MarksOf(h, s) /\ (Once(g, s) <=> Once(h, s))
<1>1. \A i \in 1 .. Len(s) : s[i] \in X
  OBVIOUS
<1>2. \A i \in 1 .. Len(s) : g[s[i]] = h[s[i]]
  BY <1>1
<1> QED
  BY <1>2 DEF MarksOf, Once

(* The ids of the calls that events report complete, and of the calls or blocks that
   chunks end. *)

Mark(what, x)    == IF what = "events"
                    THEN IF x.type = "tool_call_end" THEN {x.id} ELSE {}
                    ELSE CASE x.k = "arguments.done"     -> {<<"id", x.item>>}
                           [] x.k = "content_block_stop" -> {<<"id", x.index>>}
                           [] OTHER                      -> {}
Marks(what, X)   == [x \in X |-> Mark(what, x)]
Marked(what, s)  == MarksOf(Marks(what, Elements(s)), s)
Carries(what, s, ids) == IsSequence(s) /\ Once(Marks(what, Elements(s)), s) /\ Marked(what, s) = ids
Reports(s, ids)  == Carries("events", s, ids)

\* The set a sequence is over does not matter.
LEMMA MarkedOver ==
  ASSUME NEW what, NEW X, NEW s \in Seq(X)
  PROVE  Marked(what, s) = MarksOf(Marks(what, X), s)
         /\ (Once(Marks(what, Elements(s)), s) <=> Once(Marks(what, X), s))
<1>1. IsSequence(s) /\ Elements(s) \subseteq X
  BY SequenceOver
<1>2. PICK E : E = Elements(s) /\ s \in Seq(E) /\ E \subseteq X
  BY <1>1 DEF IsSequence
<1>3. \A e \in E : Marks(what, E)[e] = Marks(what, X)[e]
  BY <1>2 DEF Marks
<1>4. MarksOf(Marks(what, E), s) = MarksOf(Marks(what, X), s) /\ (Once(Marks(what, E), s) <=> Once(Marks(what, X), s))
  BY <1>2, <1>3, OnceOver
<1> QED
  BY <1>2, <1>4 DEF Marked

\* A concatenation carries what its parts carry.
LEMMA CarriesJoin ==
  ASSUME NEW what, NEW s, NEW a, NEW u, NEW b, Carries(what, s, a), Carries(what, u, b), a \cap b = {}
  PROVE  Carries(what, s \o u, a \cup b)
<1>1. PICK X : X = Elements(s) \cup Elements(u)
  OBVIOUS
<1>2. s \in Seq(X) /\ u \in Seq(X)
  BY <1>1, SeqMonotonic DEF Carries, IsSequence
<1>3. PICK g : g = Marks(what, X)
  OBVIOUS
<1>4. /\ MarksOf(g, s) = a /\ Once(g, s)
      /\ MarksOf(g, u) = b /\ Once(g, u)
  BY <1>2, <1>3, MarkedOver DEF Carries
<1>5. MarksOf(g, s \o u) = a \cup b /\ Once(g, s \o u)
  <2>1. MarksOf(g, s \o u) = MarksOf(g, s) \cup MarksOf(g, u)
    BY <1>2, OnceJoin
  <2>2. Once(g, s \o u)
    BY <1>2, <1>4, OnceJoin
  <2> QED
    BY <1>4, <2>1, <2>2
<1>6. s \o u \in Seq(X)
  BY <1>2, ConcatProperties
<1> QED
  BY <1>3, <1>5, <1>6, MarkedOver, SequenceOver DEF Carries

\* Nothing carries nothing, and one element its mark.
LEMMA CarriesSome ==
  ASSUME NEW what
  PROVE
  /\ Carries(what, <<>>, {})
  /\ \A e : Carries(what, <<e>>, Mark(what, e))
<1>1. Carries(what, <<>>, {})
  <2>1. <<>> \in Seq({})
    BY EmptySeq
  <2> QED
    BY <2>1, SequenceOver, OnceEmpty DEF Carries, Marked
<1>2. ASSUME NEW e PROVE Carries(what, <<e>>, Mark(what, e))
  <2>1. PICK X : X = {e}
    OBVIOUS
  <2>2. <<e>> \in Seq(X)
    BY <2>1, SingleType
  <2>3. Marks(what, X)[e] = Mark(what, e)
    BY <2>1 DEF Marks
  <2>4. MarksOf(Marks(what, X), <<e>>) = Mark(what, e) /\ Once(Marks(what, X), <<e>>)
    BY <2>3, OnceSingle
  <2> QED
    BY <2>2, <2>4, MarkedOver, SequenceOver DEF Carries
<1> QED
  BY <1>1, <1>2

\* Events that report no call, and one that does among them.
LEMMA ReportsOne ==
  ASSUME NEW e
  PROVE  /\ e.type # "tool_call_end" => Reports(<<e>>, {})
         /\ e.type = "tool_call_end" => Reports(<<e>>, {e.id})
<1>1. Carries("events", <<e>>, Mark("events", e))
  BY CarriesSome
<1>2. Mark("events", e) = IF e.type = "tool_call_end" THEN {e.id} ELSE {}
  BY DEF Mark
<1> QED
  BY <1>1, <1>2 DEF Reports

\* What is left after the first carries the rest.
LEMMA CarriesTail ==
  ASSUME NEW what, NEW s, NEW a, Carries(what, s, a), s # <<>>
  PROVE  \E b : /\ Carries(what, Tail(s), b) /\ a = Mark(what, Head(s)) \cup b
                /\ Mark(what, Head(s)) \cap b = {}
<1>1. PICK X : X = Elements(s) /\ s \in Seq(X)
  BY DEF Carries, IsSequence
<1>2. PICK g : g = Marks(what, X)
  OBVIOUS
<1>3. Once(g, s) /\ MarksOf(g, s) = a
  BY <1>1, <1>2, MarkedOver DEF Carries
<1>4. /\ Head(s) \in X /\ Tail(s) \in Seq(X)
      /\ MarksOf(g, s) = g[Head(s)] \cup MarksOf(g, Tail(s))
      /\ Once(g, Tail(s)) /\ g[Head(s)] \cap MarksOf(g, Tail(s)) = {}
  BY <1>1, <1>3, OnceTail
<1>5. g[Head(s)] = Mark(what, Head(s))
  BY <1>2, <1>4 DEF Marks
<1>6. Carries(what, Tail(s), MarksOf(g, Tail(s)))
  BY <1>2, <1>4, MarkedOver, SequenceOver DEF Carries
<1> QED
  BY <1>3, <1>4, <1>5, <1>6

\* What a server of the dialect sends.
InsideKinds == {"text_delta", "thinking_delta", "signature_delta", "input_json_delta", "content_block_stop"}

Knows(d, c) ==
    CASE d = "chat" ->
           /\ c.k \in {"content", "reasoning", "tool", "finish", "usage"}
           /\ c.k = "tool" => c.id = <<"id", c.index>> \/ (c.id = <<>> /\ c.name = "")
      [] d = "responses" -> c.k = "output_item.added" => c.id = <<"id", c.item>>
      [] d = "anthropic" ->
           /\ c.k \in {"message_start", "content_block_start", "message_delta"} \cup InsideKinds
           /\ c.k \in InsideKinds => "index" \in DOMAIN c
           /\ c.k \in {"message_start", "message_delta"} => "index" \notin DOMAIN c
           /\ c.k = "content_block_start" => c.id = <<"id", c.index>>
      [] d = "gemini" -> c.k \in {"call", "thought", "text", "finish"}
      [] d = "ollama" -> c.k \in {"content", "thinking", "call", "done"}

Ended(w) == \A i \in 1 .. Len(w) : w[i].k \in InsideKinds =>
              \E j \in i .. Len(w) : <<"id", w[i].index>> \in Mark("chunks", w[j])

Stops(w)   == Marked("chunks", w)
Flow(d, w) == /\ Carries("chunks", w, Stops(w))
              /\ \A c \in Elements(w) : Knows(d, c)
              /\ d = "anthropic" => Ended(w)

\* Every chunk inside a block is followed by the block's end: in a concatenation,
LEMMA EndedJoin ==
  ASSUME NEW X, NEW s \in Seq(X), NEW u \in Seq(X), Ended(s), Ended(u)
  PROVE  Ended(s \o u)
<1>1. PICK w : w = s \o u
  OBVIOUS
<1>2. PICK n, k : n = Len(s) /\ k = Len(u) /\ n \in Nat /\ k \in Nat
  BY LenProperties
<1>3. Len(w) = n + k
  BY <1>1, <1>2, ConcatProperties
<1>4. \A i \in 1 .. Len(w) : \/ i \in 1 .. n /\ w[i] = s[i]
                             \/ i - n \in 1 .. k /\ w[i] = u[i - n]
  BY <1>1, <1>2, JoinElements
<1>5. \A i \in 1 .. n : i \in 1 .. Len(w) /\ w[i] = s[i]
  <2> SUFFICES ASSUME NEW i \in 1 .. n PROVE i \in 1 .. Len(w) /\ w[i] = s[i]
    OBVIOUS
  <2>1. i \in 1 .. Len(w) /\ ~ (i - n \in 1 .. k)
    BY <1>2, <1>3
  <2> QED
    BY <1>4, <2>1
<1>6. \A j \in 1 .. k : n + j \in 1 .. Len(w) /\ w[n + j] = u[j]
  <2> SUFFICES ASSUME NEW j \in 1 .. k PROVE n + j \in 1 .. Len(w) /\ w[n + j] = u[j]
    OBVIOUS
  <2>1. n + j \in 1 .. Len(w) /\ ~ (n + j \in 1 .. n) /\ (n + j) - n = j
    BY <1>2, <1>3
  <2> QED
    BY <1>4, <2>1
<1>7. ASSUME NEW i \in 1 .. Len(w), w[i].k \in InsideKinds
      PROVE  \E j \in i .. Len(w) : <<"id", w[i].index>> \in Mark("chunks", w[j])
  <2>1. CASE i \in 1 .. n /\ w[i] = s[i]
    <3>1. PICK j \in i .. n : <<"id", s[i].index>> \in Mark("chunks", s[j])
      BY <1>2, <1>7, <2>1 DEF Ended
    <3>2. j \in 1 .. n /\ j \in i .. Len(w)
      BY <1>2, <1>3, <2>1
    <3> QED
      BY <1>5, <2>1, <3>1, <3>2
  <2>2. CASE i - n \in 1 .. k /\ w[i] = u[i - n]
    <3>1. PICK a \in 1 .. k : a = i - n /\ w[i] = u[a]
      BY <2>2
    <3>2. PICK j \in a .. k : <<"id", u[a].index>> \in Mark("chunks", u[j])
      BY <1>2, <1>7, <3>1 DEF Ended
    <3>3. j \in 1 .. k /\ n + j \in i .. Len(w)
      BY <1>2, <1>3, <3>1
    <3> QED
      BY <1>6, <3>1, <3>2, <3>3
  <2> QED
    BY <1>4, <2>1, <2>2
<1>8. Ended(w)
  BY <1>7 DEF Ended
<1> QED
  BY <1>1, <1>8

\* in mapped pieces,
LEMMA EndedMapped ==
  ASSUME NEW X, NEW Y, NEW h, IsMap(h, X, Y), \A x \in X : Ended(h[x]), NEW r \in Seq(X)
  PROVE  Ended(FlatMap(h, r))
<1> DEFINE T == {s \in Seq(X) : Ended(FlatMap(h, s))}
<1>1. <<>> \in T
  <2>1. FlatMap(h, <<>>) = <<>>
    BY FlatMapEmpty
  <2>2. Ended(<<>>)
    BY DEF Ended
  <2> QED
    BY <2>1, <2>2
<1>2. ASSUME NEW s \in Seq(X), NEW x \in X, s \in T PROVE Append(s, x) \in T
  <2>1. FlatMap(h, s) \in Seq(Y) /\ FlatMap(h, Append(s, x)) = FlatMap(h, s) \o h[x]
    BY FlatMapType, FlatMapAppend
  <2>2. h[x] \in Seq(Y)
    BY DEF IsMap
  <2>3. Ended(FlatMap(h, s) \o h[x])
    BY <1>2, <2>1, <2>2, EndedJoin
  <2>4. Append(s, x) \in Seq(X)
    BY AppendProperties
  <2> QED
    BY <2>1, <2>3, <2>4
<1>3. Seq(X) \subseteq T
  <2> HIDE DEF T
  <2> QED
    BY <1>1, <1>2, SequencesUpward
<1> QED
  BY <1>3

\* and in what is left.
LEMMA EndedTail ==
  ASSUME NEW X, NEW w \in Seq(X), w # <<>>, Ended(w)
  PROVE  Ended(Tail(w))
<1>1. PICK s : s = Tail(w)
  OBVIOUS
<1>2. Len(w) \in Nat /\ Len(w) # 0 /\ Len(s) = Len(w) - 1
  BY <1>1
<1>3. \A i \in 1 .. Len(s) : s[i] = w[i + 1] /\ i + 1 \in 1 .. Len(w)
  BY <1>1, <1>2
<1>4. ASSUME NEW i \in 1 .. Len(s), s[i].k \in InsideKinds
      PROVE  \E j \in i .. Len(s) : <<"id", s[i].index>> \in Mark("chunks", s[j])
  <2>1. PICK j \in i + 1 .. Len(w) : <<"id", s[i].index>> \in Mark("chunks", w[j])
    BY <1>3, <1>4 DEF Ended
  <2>2. j - 1 \in i .. Len(s) /\ j - 1 \in 1 .. Len(s) /\ (j - 1) + 1 = j
    BY <1>2
  <2>3. s[j - 1] = w[j]
    BY <1>3, <2>2
  <2> QED
    BY <2>1, <2>2, <2>3
<1>5. Ended(s)
  BY <1>4 DEF Ended
<1> QED
  BY <1>1, <1>5

\* Mapped pieces carry no more than their origins.
LEMMA CarriesMapped ==
  ASSUME NEW what, NEW X, NEW Y, NEW h, IsMap(h, X, Y), NEW k,
         \A x \in X : Carries(what, h[x], Marked(what, h[x])) /\ Marked(what, h[x]) \subseteq k[x],
         NEW r \in Seq(X), Once(k, r)
  PROVE  /\ Carries(what, FlatMap(h, r), Marked(what, FlatMap(h, r)))
         /\ Marked(what, FlatMap(h, r)) \subseteq MarksOf(k, r)
<1>1. PICK g : g = Marks(what, Y)
  OBVIOUS
<1>2. ASSUME NEW x \in X PROVE Once(g, h[x]) /\ MarksOf(g, h[x]) \subseteq k[x]
  <2>1. h[x] \in Seq(Y)
    BY DEF IsMap
  <2>2. Carries(what, h[x], Marked(what, h[x])) /\ Marked(what, h[x]) \subseteq k[x]
    OBVIOUS
  <2> QED
    BY <1>1, <2>1, <2>2, MarkedOver DEF Carries
<1>3. PICK f \in Seq(Y) : f = FlatMap(h, r)
  BY FlatMapType
<1>4. Once(g, f) /\ MarksOf(g, f) \subseteq MarksOf(k, r)
  BY <1>2, <1>3, OnceMapped
<1>5. Marked(what, f) = MarksOf(g, f) /\ Once(Marks(what, Elements(f)), f)
  BY <1>1, <1>4, MarkedOver
<1> QED
  BY <1>3, <1>4, <1>5, SequenceOver DEF Carries

\* The pieces of a stream, and what is left of it.
LEMMA FlowJoin ==
  ASSUME NEW d, NEW s, NEW u, Flow(d, s), Flow(d, u), Stops(s) \cap Stops(u) = {}
  PROVE  Flow(d, s \o u) /\ Stops(s \o u) = Stops(s) \cup Stops(u)
<1>1. Carries("chunks", s \o u, Stops(s) \cup Stops(u))
  BY CarriesJoin DEF Flow
<1>2. IsSequence(s) /\ IsSequence(u)
  BY DEF Flow, Carries
<1>3. \A c \in Elements(s \o u) : Knows(d, c)
  <2>1. Elements(s \o u) \subseteq Elements(s) \cup Elements(u)
    BY <1>2, SequenceJoin
  <2> QED
    BY <2>1 DEF Flow
<1>4. ASSUME d = "anthropic" PROVE Ended(s \o u)
  <2>1. PICK X : X = Elements(s) \cup Elements(u)
    OBVIOUS
  <2>2. s \in Seq(X) /\ u \in Seq(X)
    BY <1>2, <2>1, SeqMonotonic DEF IsSequence
  <2> QED
    BY <1>4, <2>2, EndedJoin DEF Flow
<1>5. Stops(s \o u) = Stops(s) \cup Stops(u)
  BY <1>1 DEF Carries, Stops
<1> QED
  BY <1>1, <1>3, <1>4, <1>5 DEF Flow

\* A stream of one piece for each block.
LEMMA FlowMapped ==
  ASSUME NEW d, NEW X, NEW h, h = [x \in X |-> h[x]], NEW k,
         \A x \in X : Flow(d, h[x]) /\ Stops(h[x]) \subseteq k[x],
         NEW r \in Seq(X), Once(k, r)
  PROVE  Flow(d, FlatMap(h, r)) /\ Stops(FlatMap(h, r)) \subseteq MarksOf(k, r)
<1>1. PICK Y : Y = UNION {Elements(h[x]) : x \in X}
  OBVIOUS
<1>2. \A x \in X : IsSequence(h[x]) /\ Elements(h[x]) \subseteq Y
  BY <1>1 DEF Flow, Carries
<1>3. \A x \in X : h[x] \in Seq(Y)
  BY <1>2, SeqMonotonic DEF IsSequence
<1>4. IsMap(h, X, Y)
  BY <1>3 DEF IsMap
<1>5. \A c \in Y : Knows(d, c)
  BY <1>1 DEF Flow
<1>6. PICK f \in Seq(Y) : f = FlatMap(h, r)
  BY <1>4, FlatMapType
<1>7. Elements(f) \subseteq Y
  BY SequenceOver
<1>8. Carries("chunks", f, Stops(f)) /\ Stops(f) \subseteq MarksOf(k, r)
  <2>1. \A x \in X : Carries("chunks", h[x], Marked("chunks", h[x])) /\ Marked("chunks", h[x]) \subseteq k[x]
    BY DEF Flow, Stops
  <2>2. Carries("chunks", f, Marked("chunks", f)) /\ Marked("chunks", f) \subseteq MarksOf(k, r)
    BY <1>4, <1>6, <2>1, CarriesMapped
  <2> QED
    BY <2>2 DEF Stops
<1>9. ASSUME d = "anthropic" PROVE Ended(f)
  <2>1. \A x \in X : Ended(h[x])
    BY <1>9 DEF Flow
  <2> QED
    BY <1>4, <1>6, <2>1, EndedMapped
<1> QED
  BY <1>5, <1>6, <1>7, <1>8, <1>9 DEF Flow

\* What is left of a stream after its first chunk.
LEMMA FlowTail ==
  ASSUME NEW d, NEW w, Flow(d, w), w # <<>>
  PROVE  /\ Flow(d, Tail(w)) /\ Knows(d, Head(w))
         /\ Stops(w) = Mark("chunks", Head(w)) \cup Stops(Tail(w))
         /\ Mark("chunks", Head(w)) \cap Stops(Tail(w)) = {}
<1>1. PICK b : /\ Carries("chunks", Tail(w), b) /\ Stops(w) = Mark("chunks", Head(w)) \cup b
               /\ Mark("chunks", Head(w)) \cap b = {}
  BY CarriesTail DEF Flow
<1>2. b = Stops(Tail(w))
  BY <1>1 DEF Carries, Stops
<1>3. PICK X : X = Elements(w) /\ w \in Seq(X)
  BY DEF Flow, Carries, IsSequence
<1>4. Head(w) \in X /\ Tail(w) \in Seq(X)
  BY <1>3
<1>5. Elements(Tail(w)) \subseteq X
  BY <1>4, SequenceOver
<1>6. d = "anthropic" => Ended(Tail(w))
  BY <1>3, EndedTail DEF Flow
<1> QED
  BY <1>1, <1>2, <1>3, <1>4, <1>5, <1>6 DEF Flow

\* The end of a stream.
LEMMA FlowEmpty == \A d : Flow(d, <<>>) /\ Stops(<<>>) = {}
<1>1. Carries("chunks", <<>>, {})
  BY CarriesSome
<1>2. Stops(<<>>) = {}
  BY <1>1 DEF Carries, Stops
<1>3. Ended(<<>>) /\ Elements(<<>>) = {}
  BY DEF Ended, Elements
<1> QED
  BY <1>1, <1>2, <1>3 DEF Flow

(* Decoding: one chunk *)

\* The types of the events.
LEMMA EventTypes ==
  /\ \A t : TextDelta(t).type # "tool_call_end" /\ ReasoningDelta(t).type # "tool_call_end"
  /\ \A s : ReasoningDone(s).type # "tool_call_end"
  /\ \A c : /\ ToolCallStart(c).type # "tool_call_end" /\ ToolCallDelta(c).type # "tool_call_end"
            /\ ToolCallDone(c).type = "tool_call_end" /\ ToolCallDone(c).id = c.id
  /\ UsageEvent.type # "tool_call_end"
  /\ \A r : MessageDone(r).type # "tool_call_end"
  /\ \A st, e : Emit(st, e).st = st /\ Emit(st, e).events = e
BY DEF TextDelta, ReasoningDelta, ReasoningDone, ToolCallStart, ToolCallDelta, ToolCallDone, UsageEvent,
       MessageDone, Emit

\* Events that report no call change nothing of what others report.
LEMMA ReportsQuiet ==
  /\ Reports(<<>>, {})
  /\ \A e, cond : e.type # "tool_call_end" => Reports(<<e>>, {}) /\ Reports(When(cond, e), {})
  /\ \A s, u, ids : Reports(s, {}) /\ Reports(u, ids) => Reports(s \o u, ids)
  /\ \A e, s, ids : Reports(s, ids) /\ e.type # "tool_call_end" => Reports(Append(s, e), ids)
<1>1. Reports(<<>>, {})
  BY CarriesSome DEF Reports
<1>2. ASSUME NEW e, NEW cond, e.type # "tool_call_end" PROVE Reports(<<e>>, {}) /\ Reports(When(cond, e), {})
  <2>1. Reports(<<e>>, {})
    BY <1>2, ReportsOne
  <2> QED
    BY <1>1, <2>1 DEF When
<1>3. ASSUME NEW s, NEW a, NEW u, NEW b, Reports(s, a), Reports(u, b), a \cap b = {} PROVE Reports(s \o u, a \cup b)
  BY <1>3, CarriesJoin DEF Reports
<1>4. ASSUME NEW s, NEW u, NEW ids, Reports(s, {}), Reports(u, ids) PROVE Reports(s \o u, ids)
  <2>1. Reports(s \o u, {} \cup ids)
    BY <1>3, <1>4
  <2>2. {} \cup ids = ids
    OBVIOUS
  <2> QED
    BY <2>1, <2>2
<1>5. ASSUME NEW e, NEW s, NEW ids, Reports(s, ids), e.type # "tool_call_end" PROVE Reports(Append(s, e), ids)
  <2>1. Reports(<<e>>, {})
    BY <1>2, <1>5
  <2>2. Reports(s \o <<e>>, ids \cup {})
    BY <1>3, <1>5, <2>1
  <2>3. ids \cup {} = ids
    OBVIOUS
  <2>4. Append(s, e) = s \o <<e>>
    <3>1. PICK X : X = Elements(s) \cup {e}
      OBVIOUS
    <3>2. s \in Seq(X) /\ e \in X
      BY <1>5, <3>1, SeqMonotonic DEF Reports, Carries, IsSequence
    <3> QED
      BY <3>2, AppendIsConcat
  <2> QED
    BY <2>2, <2>3, <2>4
<1> QED
  BY <1>1, <1>2, <1>4, <1>5

\* The elements with one more.
LEMMA AppendElements ==
  ASSUME NEW s, IsSequence(s), NEW x
  PROVE  IsSequence(Append(s, x)) /\ Elements(Append(s, x)) \subseteq Elements(s) \cup {x}
<1>1. PICK X : X = Elements(s) \cup {x}
  OBVIOUS
<1>2. s \in Seq(X) /\ x \in X
  BY <1>1, SeqMonotonic DEF IsSequence
<1>3. Append(s, x) \in Seq(X)
  BY <1>2, AppendProperties
<1> QED
  BY <1>1, <1>3, SequenceOver

\* The calls a Chat stream has begun.
ChatCall(c) == /\ c = [index |-> c.index, id |-> c.id, name |-> c.name, args |-> c.args, started |-> c.started]
               /\ c.started \/ c.name # "" => c.id = <<"id", c.index>>
ChatOK(st)  == /\ st = [calls |-> st.calls, stop |-> st.stop, usage |-> st.usage] /\ IsSequence(st.calls)
               /\ \A c \in Elements(st.calls) : ChatCall(c)
               /\ \A i, j \in 1 .. Len(st.calls) : st.calls[i].index = st.calls[j].index => i = j

Replaces(t, s, i, x) == IsSequence(s) /\ i \in 1 .. Len(s) /\ t = [s EXCEPT ![i] = x]

\* The elements when one is replaced.
LEMMA Replaced ==
  ASSUME NEW s, NEW i, NEW x, NEW t, Replaces(t, s, i, x)
  PROVE  /\ IsSequence(t) /\ Elements(t) \subseteq Elements(s) \cup {x} /\ Len(t) = Len(s)
         /\ \A j \in 1 .. Len(s) : t[j] = IF j = i THEN x ELSE s[j]
<1>1. PICK X : X = Elements(s) \cup {x}
  OBVIOUS
<1>2. s \in Seq(X) /\ x \in X
  BY <1>1, SeqMonotonic DEF IsSequence, Replaces
<1>4. t \in Seq(X) /\ Len(t) = Len(s) /\ \A j \in 1 .. Len(s) : t[j] = IF j = i THEN x ELSE s[j]
  BY <1>2, ExceptSeq DEF Replaces
<1> QED
  BY <1>1, <1>4, SequenceOver

\* A fragment of a call keeps the calls of a Chat stream well, and reports none complete.
LEMMA ApplyCall ==
  ASSUME NEW st, ChatOK(st), NEW c, c.k = "tool", Knows("chat", c)
  PROVE  ChatOK(Apply(st, c).st) /\ Reports(Apply(st, c).events, {})
<1>1. PICK calls : calls = IF \E i \in DOMAIN st.calls : st.calls[i].index = c.index THEN st.calls
                           ELSE Append(st.calls, [index |-> c.index, id |-> <<>>, name |-> "",
                                                  args |-> <<>>, started |-> FALSE])
  OBVIOUS
<1>2. /\ IsSequence(calls) /\ \A x \in Elements(calls) : ChatCall(x)
      /\ \A i, j \in 1 .. Len(calls) : calls[i].index = calls[j].index => i = j
      /\ \E j \in 1 .. Len(calls) : calls[j].index = c.index
  <2>0. DOMAIN st.calls = 1 .. Len(st.calls) /\ Len(st.calls) \in Nat /\ IsSequence(st.calls)
    BY SequenceOver DEF ChatOK, IsSequence
  <2>1. CASE \E i \in DOMAIN st.calls : st.calls[i].index = c.index
    BY <1>1, <2>0, <2>1 DEF ChatOK
  <2>2. CASE ~ \E i \in DOMAIN st.calls : st.calls[i].index = c.index
    <3>1. PICK new : new = [index |-> c.index, id |-> <<>>, name |-> "", args |-> <<>>, started |-> FALSE]
      OBVIOUS
    <3>2. calls = Append(st.calls, new)
      BY <1>1, <2>2, <3>1
    <3>3. ChatCall(new) /\ new.index = c.index
      BY <3>1 DEF ChatCall
    <3>4. IsSequence(calls)
      BY <2>0, <3>2, SequenceJoin
    <3>5. PICK X : X = Elements(st.calls) \cup {new} /\ st.calls \in Seq(X) /\ new \in X
      <4>1. PICK old, X : old = st.calls /\ old \in Seq(Elements(old)) /\ X = Elements(old) \cup {new}
        BY <2>0 DEF IsSequence
      <4>2. old \in Seq(X)
        BY <4>1, SeqMonotonic
      <4> QED
        BY <4>1, <4>2
    <3>6. /\ Len(calls) = Len(st.calls) + 1 /\ calls[Len(st.calls) + 1] = new
          /\ \A i \in 1 .. Len(st.calls) : calls[i] = st.calls[i]
          /\ calls \in Seq(X)
      BY <3>2, <3>5, AppendProperties
    <3>7. Elements(calls) \subseteq X
      BY <3>6, SequenceOver
    <3>8. \A x \in Elements(calls) : ChatCall(x)
      BY <3>3, <3>5, <3>7 DEF ChatOK
    <3>9. \A i \in 1 .. Len(st.calls) : st.calls[i].index # c.index
      BY <2>0, <2>2
    <3>10. ASSUME NEW i \in 1 .. Len(calls), NEW j \in 1 .. Len(calls), calls[i].index = calls[j].index
           PROVE  i = j
      <4>1. \A m \in 1 .. Len(calls) : m \in 1 .. Len(st.calls) \/ m = Len(st.calls) + 1
        BY <2>0, <3>6
      <4>2. CASE i \in 1 .. Len(st.calls) /\ j \in 1 .. Len(st.calls)
        BY <3>6, <3>10, <4>2 DEF ChatOK
      <4>3. CASE i = Len(st.calls) + 1 /\ j \in 1 .. Len(st.calls)
        BY <3>3, <3>6, <3>9, <3>10, <4>3
      <4>4. CASE j = Len(st.calls) + 1 /\ i \in 1 .. Len(st.calls)
        BY <3>3, <3>6, <3>9, <3>10, <4>4
      <4> QED
        BY <4>1, <4>2, <4>3, <4>4
    <3>11. Len(st.calls) + 1 \in 1 .. Len(calls) /\ calls[Len(st.calls) + 1].index = c.index
      BY <2>0, <3>3, <3>6
    <3> QED
      BY <3>4, <3>8, <3>10, <3>11
  <2> QED
    BY <2>1, <2>2
<1>3. PICK i : i = CallAt(calls, c.index)
  OBVIOUS
<1>4. i \in 1 .. Len(calls) /\ calls[i].index = c.index /\ ChatCall(calls[i])
  <2>1. DOMAIN calls = 1 .. Len(calls)
    BY <1>2, SequenceOver DEF IsSequence
  <2>2. i \in DOMAIN calls /\ calls[i].index = c.index
    BY <1>2, <1>3, <2>1 DEF CallAt
  <2> QED
    BY <1>2, <2>1, <2>2 DEF Elements
<1>5. PICK name, start : name = (IF c.name # "" THEN c.name ELSE calls[i].name)
                         /\ start = (~calls[i].started /\ name # "")
  OBVIOUS
<1>6. PICK cl : cl = [calls[i] EXCEPT !.id = IF c.id # <<>> THEN c.id ELSE @, !.name = name,
                                          !.args = @ \o c.args, !.started = @ \/ start]
  OBVIOUS
<1>7. ChatCall(cl) /\ cl.index = c.index
  <2>1. PICK b : b = calls[i] /\ ChatCall(b) /\ b.index = c.index
    BY <1>4
  <2>2. /\ cl = [index |-> cl.index, id |-> cl.id, name |-> cl.name, args |-> cl.args,
                   started |-> cl.started]
        /\ cl.index = b.index /\ cl.name = name /\ cl.started = (b.started \/ start)
        /\ cl.id = IF c.id # <<>> THEN c.id ELSE b.id
    BY <1>6, <2>1 DEF ChatCall
  <2>3. c.id = <<"id", c.index>> \/ (c.id = <<>> /\ c.name = "")
    BY DEF Knows
  <2>4. CASE c.id = <<"id", c.index>>
    <3>1. c.id # <<>>
      BY <2>4
    <3> QED
      BY <2>1, <2>2, <2>4, <3>1 DEF ChatCall
  <2>5. CASE c.id = <<>> /\ c.name = ""
    <3>1. name = b.name /\ (start => b.name # "") /\ cl.id = b.id
      BY <1>5, <2>1, <2>2, <2>5
    <3>2. cl.started \/ cl.name # "" => b.started \/ b.name # ""
      BY <2>2, <3>1
    <3> QED
      BY <2>1, <2>2, <3>1, <3>2 DEF ChatCall
  <2> QED
    BY <2>1, <2>2, <2>3, <2>4, <2>5
<1>8. PICK r : r = Apply(st, c)
  OBVIOUS
<1>9. r.st = [st EXCEPT !.calls = [calls EXCEPT ![i] = cl]]
      /\ r.events = When(start, ToolCallStart(cl)) \o When(c.args # <<>> /\ cl.started, ToolCallDelta(cl))
  <2>1. r = Emit([st EXCEPT !.calls = [calls EXCEPT ![i] = cl]],
                 When(start, ToolCallStart(cl)) \o When(c.args # <<>> /\ cl.started, ToolCallDelta(cl)))
    <3>1. CASE \E j \in DOMAIN st.calls : st.calls[j].index = c.index
      <4>1. calls = st.calls
        BY <1>1, <3>1
      <4> QED
        BY <1>3, <1>5, <1>6, <1>8, <3>1, <4>1 DEF Apply
    <3>2. CASE ~ \E j \in DOMAIN st.calls : st.calls[j].index = c.index
      <4>1. calls = Append(st.calls, [index |-> c.index, id |-> <<>>, name |-> "", args |-> <<>>, started |-> FALSE])
        BY <1>1, <3>2
      <4> QED
        BY <1>3, <1>5, <1>6, <1>8, <3>2, <4>1 DEF Apply
    <3> QED
      BY <3>1, <3>2
  <2> QED
    BY <2>1 DEF Emit
<1>10. Reports(r.events, {})
  <2>1. Reports(When(start, ToolCallStart(cl)), {}) /\ Reports(When(c.args # <<>> /\ cl.started, ToolCallDelta(cl)), {})
    BY ReportsQuiet, EventTypes
  <2> QED
    BY <1>9, <2>1, ReportsQuiet
<1>11. PICK new : new = [calls EXCEPT ![i] = cl]
  OBVIOUS
<1>12. /\ IsSequence(new) /\ Elements(new) \subseteq Elements(calls) \cup {cl} /\ Len(new) = Len(calls)
       /\ \A j \in 1 .. Len(calls) : new[j] = IF j = i THEN cl ELSE calls[j]
  <2>1. IsSequence(calls) /\ i \in 1 .. Len(calls)
    BY <1>2, <1>4
  <2> QED
    <3>1. Replaces(new, calls, i, cl)
      BY <1>11, <2>1 DEF Replaces
    <3> QED
      BY ONLY <3>1, Replaced
<1>13. \A j \in 1 .. Len(calls) : new[j].index = calls[j].index
  BY <1>4, <1>7, <1>12
<1>14. ChatOK(r.st)
  <2>1. r.st = [calls |-> new, stop |-> st.stop, usage |-> st.usage]
    BY <1>9, <1>11 DEF ChatOK
  <2>2. PICK t : t = r.st
    OBVIOUS
  <2>3. t = [calls |-> t.calls, stop |-> t.stop, usage |-> t.usage] /\ t.calls = new
    BY <2>1, <2>2
  <2> QED
    BY <1>2, <1>7, <1>12, <1>13, <2>2, <2>3 DEF ChatOK
<1> QED
  BY <1>8, <1>10, <1>14

\* The ends of a set of places.
LEMMA Extremes ==
  ASSUME NEW n \in Nat, NEW I, I \subseteq 1 .. n, I # {}
  PROVE  Min(I) \in I /\ Max(I) \in I
<1>1. ASSUME NEW T, T \subseteq Nat, T # {} PROVE \E x \in T : \A y \in T : x <= y
  <2>1. PICK x \in T : \A y \in T : ~ (<<y, x>> \in OpToRel(<, Nat))
    BY <1>1, NatLessThanWellFounded, WFMin
  <2>2. \A y \in T : ~ (y < x) /\ x \in Nat /\ y \in Nat
    BY <1>1, <2>1 DEF OpToRel
  <2> QED
    BY <2>2
<1>2. Min(I) \in I
  <2>1. I \subseteq Nat
    OBVIOUS
  <2>2. \E x \in I : \A y \in I : x <= y
    BY <1>1, <2>1
  <2> QED
    BY <2>2 DEF Min
<1>3. Max(I) \in I
  <2>1. PICK T : T = {n - i : i \in I}
    OBVIOUS
  <2>0. \A i \in I : n - i \in Nat
    OBVIOUS
  <2>2. T \subseteq Nat /\ T # {}
    <3>1. PICK i : i \in I
      OBVIOUS
    <3>2. n - i \in T
      BY <2>1, <3>1
    <3> QED
      BY <2>0, <2>1, <3>2
  <2>3. PICK x \in T : \A y \in T : x <= y
    BY <1>1, <2>2
  <2>4. PICK i \in I : x = n - i
    BY <2>1, <2>3
  <2>5. \A j \in I : i >= j
    <3> SUFFICES ASSUME NEW j \in I PROVE i >= j
      OBVIOUS
    <3>1. n - i <= n - j
      BY <2>1, <2>3, <2>4
    <3>2. i \in Int /\ j \in Int
      OBVIOUS
    <3> QED
      BY <3>1, <3>2
  <2> QED
    BY <2>5 DEF Max
<1> QED
  BY <1>2, <1>3

\* The place a chunk is about.
ItemAt(s, c)  == SelectInSeq(s, LAMBDA t : c.k \in {"arguments.delta", "arguments.done"} /\ t.item = c.item)
BlockAt(s, c) == SelectLastInSeq(s, LAMBDA b : "index" \in DOMAIN c /\ b.index = c.index)

\* The call a Responses chunk is about,
LEMMA ItemFound ==
  ASSUME NEW s, IsSequence(s), NEW c, ItemAt(s, c) # 0
  PROVE  ItemAt(s, c) \in 1 .. Len(s) /\ s[ItemAt(s, c)].item = c.item
<1>1. Len(s) \in Nat
  BY SequenceOver
<1>2. PICK I : I = {i \in 1 .. Len(s) : c.k \in {"arguments.delta", "arguments.done"} /\ s[i].item = c.item}
  OBVIOUS
<1>3. ItemAt(s, c) = IF I # {} THEN Min(I) ELSE 0
  BY <1>2 DEF ItemAt, SelectInSeq
<1>4. I # {} => Min(I) \in I
  BY <1>1, <1>2, Extremes
<1> QED
  BY <1>2, <1>3, <1>4

\* and the block an Anthropic chunk is about.
LEMMA BlockFound ==
  ASSUME NEW s, IsSequence(s), NEW c, BlockAt(s, c) # 0
  PROVE  BlockAt(s, c) \in 1 .. Len(s) /\ s[BlockAt(s, c)].index = c.index
<1>1. Len(s) \in Nat
  BY SequenceOver
<1>2. PICK I : I = {i \in 1 .. Len(s) : "index" \in DOMAIN c /\ s[i].index = c.index}
  OBVIOUS
<1>3. BlockAt(s, c) = IF I # {} THEN Max(I) ELSE 0
  BY <1>2 DEF BlockAt, SelectLastInSeq
<1>4. I # {} => Max(I) \in I
  BY <1>1, <1>2, Extremes
<1> QED
  BY <1>2, <1>3, <1>4

\* The states of the decoders.
ItemCall(c)      == c = [item |-> c.item, id |-> c.id, name |-> c.name, args |-> c.args] /\ c.id = <<"id", c.item>>
ResponsesOK(st)  == /\ st = [calls |-> st.calls, stop |-> st.stop] /\ IsSequence(st.calls)
                    /\ \A c \in Elements(st.calls) : ItemCall(c)
OpenBlock(b)     == /\ b = [index |-> b.index, kind |-> b.kind, id |-> b.id, name |-> b.name, args |-> b.args,
                            sig |-> b.sig]
                    /\ b.id = <<"id", b.index>>
AnthropicOK(st)  == /\ st = [blocks |-> st.blocks, stop |-> st.stop, usage |-> st.usage] /\ IsSequence(st.blocks)
                    /\ \A b \in Elements(st.blocks) : OpenBlock(b)
Counted(n, used) == n \in Nat /\ \A x \in used : \E i \in Nat : i < n /\ x = <<"call", i>>
GeminiOK(st)     == st = [thinking |-> st.thinking, sig |-> st.sig, next |-> st.next, tool |-> st.tool,
                          finish |-> st.finish]
OllamaOK(st)     == st = [next |-> st.next, stop |-> st.stop, usage |-> st.usage]

StateOK(d, st, used) ==
    CASE d = "chat"      -> used = {} /\ ChatOK(st)
      [] d = "responses" -> ResponsesOK(st)
      [] d = "anthropic" -> AnthropicOK(st)
      [] d = "gemini"    -> GeminiOK(st) /\ Counted(st.next, used)
      [] d = "ollama"    -> OllamaOK(st) /\ Counted(st.next, used)

Decodes(d, used, c, r) ==
    \E ids : /\ Reports(r.events, ids) /\ ids \cap used = {} /\ StateOK(d, r.st, used \cup ids)
             /\ d \in {"responses", "anthropic"} => ids \subseteq Mark("chunks", c)

\* A chunk that completes no call.
LEMMA DecodesQuietly ==
  ASSUME NEW d, NEW used, NEW c, NEW r, Reports(r.events, {}), StateOK(d, r.st, used)
  PROVE  Decodes(d, used, c, r)
<1>1. used \cup {} = used /\ {} \cap used = {} /\ {} \subseteq Mark("chunks", c)
  OBVIOUS
<1> QED
  BY <1>1 DEF Decodes

\* A Chat chunk completes no call.
LEMMA ChatDecodes ==
  ASSUME NEW st, NEW used, StateOK("chat", st, used), NEW c, Knows("chat", c)
  PROVE  Decodes("chat", used, c, ChatPump(st, c))
<1>1. used = {} /\ ChatOK(st)
  BY DEF StateOK
<1>2. PICK r : r = ChatPump(st, c)
  OBVIOUS
<1>3. Reports(r.events, {}) /\ ChatOK(r.st)
  <2>1. CASE c.k = "content"
    BY <1>1, <1>2, <2>1, ReportsQuiet, EventTypes DEF ChatPump
  <2>2. CASE c.k = "reasoning"
    BY <1>1, <1>2, <2>2, ReportsQuiet, EventTypes DEF ChatPump
  <2>3. CASE c.k = "tool"
    BY <1>1, <1>2, <2>3, ApplyCall DEF ChatPump
  <2>4. CASE c.k \in {"finish", "usage"}
    <3>1. PICK t : t = r.st
      OBVIOUS
    <3>2. r = Emit([st EXCEPT !.stop = c.reason], <<>>) \/ r = Emit([st EXCEPT !.usage = TRUE], <<>>)
      BY <1>2, <2>4 DEF ChatPump
    <3>3. (t = [st EXCEPT !.stop = c.reason] \/ t = [st EXCEPT !.usage = TRUE]) /\ r.events = <<>>
      BY <3>1, <3>2, EventTypes
    <3>4. t = [calls |-> t.calls, stop |-> t.stop, usage |-> t.usage] /\ t.calls = st.calls
      BY <1>1, <3>3 DEF ChatOK
    <3>5. ChatOK(t)
      BY <1>1, <3>4 DEF ChatOK
    <3> QED
      BY <3>1, <3>3, <3>5, ReportsQuiet
  <2> QED
    BY <2>1, <2>2, <2>3, <2>4 DEF Knows
<1>4. StateOK("chat", r.st, used)
  BY <1>1, <1>3 DEF StateOK
<1> QED
  BY <1>2, <1>3, <1>4, DecodesQuietly

\* A Responses chunk completes at most the call it says is done.
LEMMA ResponsesDecodes ==
  ASSUME NEW st, NEW used, StateOK("responses", st, used), NEW c, Knows("responses", c),
         Mark("chunks", c) \cap used = {}
  PROVE  Decodes("responses", used, c, ResponsesPump(st, c))
<1>1. ResponsesOK(st)
  BY DEF StateOK
<1>2. PICK r : r = ResponsesPump(st, c)
  OBVIOUS
<1>3. PICK at : at = ItemAt(st.calls, c)
  OBVIOUS
<1>4. at # 0 => at \in 1 .. Len(st.calls) /\ ItemCall(st.calls[at]) /\ st.calls[at].item = c.item
  BY <1>1, <1>3, ItemFound DEF ResponsesOK, Elements
<1>5. ASSUME Reports(r.events, {}), ResponsesOK(r.st)
      PROVE  Decodes("responses", used, c, r)
  BY <1>5, DecodesQuietly DEF StateOK
<1>6. CASE c.k = "output_item.added"
  <2>1. PICK new : new = [item |-> c.item, id |-> c.id, name |-> c.name, args |-> <<>>]
    OBVIOUS
  <2>2. r = Emit([calls |-> Append(st.calls, new), stop |-> "tool_use"], <<ToolCallStart(new)>>)
    BY <1>2, <1>6, <2>1 DEF ResponsesPump
  <2>3. ItemCall(new)
    BY <1>6, <2>1 DEF ItemCall, Knows
  <2>4. PICK t : t = r.st
    OBVIOUS
  <2>5. t = [calls |-> t.calls, stop |-> t.stop] /\ t.calls = Append(st.calls, new)
    <3>1. t = [calls |-> Append(st.calls, new), stop |-> "tool_use"]
      BY <2>2, <2>4, EventTypes
    <3> QED
      BY ONLY <3>1
  <2>6. IsSequence(t.calls) /\ Elements(t.calls) \subseteq Elements(st.calls) \cup {new}
    <3>1. IsSequence(st.calls)
      BY <1>1 DEF ResponsesOK
    <3> QED
      BY <2>5, <3>1, AppendElements
  <2>7. ResponsesOK(t)
    BY <1>1, <2>3, <2>5, <2>6 DEF ResponsesOK
  <2>8. Reports(r.events, {})
    BY <2>2, EventTypes, ReportsQuiet
  <2> QED
    BY <1>2, <1>5, <2>4, <2>7, <2>8
<1>7. CASE c.k = "arguments.delta" /\ at # 0
  <2>1. PICK cl : cl = [st.calls[at] EXCEPT !.args = @ \o c.args]
    OBVIOUS
  <2>2. r = Emit([st EXCEPT !.calls[at] = cl], <<ToolCallDelta(cl)>>)
    BY <1>2, <1>3, <1>7, <2>1 DEF ResponsesPump, ItemAt
  <2>3. ItemCall(cl)
    BY <1>4, <1>7, <2>1 DEF ItemCall
  <2>4. PICK t : t = r.st
    OBVIOUS
  <2>5. t = [calls |-> t.calls, stop |-> t.stop] /\ t.calls = [st.calls EXCEPT ![at] = cl]
    BY <1>1, <2>2, <2>4, EventTypes DEF ResponsesOK
  <2>6. Replaces(t.calls, st.calls, at, cl)
    BY <1>1, <1>4, <1>7, <2>5 DEF Replaces, ResponsesOK
  <2>7. ResponsesOK(t)
    BY <1>1, <2>3, <2>5, <2>6, Replaced DEF ResponsesOK
  <2>8. Reports(r.events, {})
    BY <2>2, EventTypes, ReportsQuiet
  <2> QED
    BY <1>2, <1>5, <2>4, <2>7, <2>8
<1>8. CASE c.k = "arguments.done" /\ at # 0
  <2>1. PICK cl : cl = [st.calls[at] EXCEPT !.args = IF c.args # <<>> THEN c.args ELSE @]
    OBVIOUS
  <2>2. r = Emit(st, <<ToolCallDone(cl)>>)
    BY <1>2, <1>3, <1>8, <2>1 DEF ResponsesPump, ItemAt
  <2>3. cl.id = <<"id", c.item>>
    BY <1>4, <1>8, <2>1 DEF ItemCall
  <2>4. Mark("chunks", c) = {cl.id}
    BY <1>8, <2>3 DEF Mark
  <2>5. Reports(<<ToolCallDone(cl)>>, {cl.id})
    BY EventTypes, ReportsOne
  <2>6. r.st = st /\ r.events = <<ToolCallDone(cl)>>
    BY <2>2, EventTypes
  <2>7. StateOK("responses", st, used \cup {cl.id})
    BY <1>1 DEF StateOK
  <2> QED
    BY <1>2, <2>4, <2>5, <2>6, <2>7 DEF Decodes
<1>9. CASE /\ c.k # "output_item.added" /\ ~ (c.k = "arguments.delta" /\ at # 0) /\ ~ (c.k = "arguments.done" /\ at # 0)
  <2>1. \/ r = Emit(st, <<TextDelta(c.text)>>) \/ r = Emit(st, <<ReasoningDelta(c.text)>>)
        \/ r = Emit(st, When(c.sig # <<>>, ReasoningDone(c.sig))) \/ r = Emit(st, <<UsageEvent>>)
        \/ r = Emit(st, <<>>)
    BY <1>2, <1>3, <1>9 DEF ResponsesPump, ItemAt
  <2>2. r.st = st
    BY <2>1, EventTypes
  <2>3. Reports(r.events, {})
    <3>1. \/ r.events = <<TextDelta(c.text)>> \/ r.events = <<ReasoningDelta(c.text)>>
          \/ r.events = When(c.sig # <<>>, ReasoningDone(c.sig)) \/ r.events = <<UsageEvent>>
          \/ r.events = <<>>
      BY <2>1, EventTypes
    <3>2. /\ Reports(<<TextDelta(c.text)>>, {}) /\ Reports(<<ReasoningDelta(c.text)>>, {})
          /\ Reports(When(c.sig # <<>>, ReasoningDone(c.sig)), {}) /\ Reports(<<UsageEvent>>, {})
          /\ Reports(<<>>, {})
      BY EventTypes, ReportsQuiet
    <3> QED
      BY <3>1, <3>2
  <2> QED
    BY <1>1, <1>2, <1>5, <2>2, <2>3
<1> QED
  BY <1>6, <1>7, <1>8, <1>9

\* An Anthropic chunk completes at most the call whose block it stops.
LEMMA AnthropicDecodes ==
  ASSUME NEW st, NEW used, StateOK("anthropic", st, used), NEW c, Knows("anthropic", c),
         Mark("chunks", c) \cap used = {}
  PROVE  Decodes("anthropic", used, c, AnthropicPump(st, c))
<1>1. AnthropicOK(st)
  BY DEF StateOK
<1>2. PICK r : r = AnthropicPump(st, c)
  OBVIOUS
<1>3. PICK at : at = BlockAt(st.blocks, c)
  OBVIOUS
<1>4. at # 0 => at \in 1 .. Len(st.blocks) /\ OpenBlock(st.blocks[at]) /\ st.blocks[at].index = c.index
  BY <1>1, <1>3, BlockFound DEF AnthropicOK, Elements
<1>5. ASSUME Reports(r.events, {}), AnthropicOK(r.st)
      PROVE  Decodes("anthropic", used, c, r)
  BY <1>5, DecodesQuietly DEF StateOK
<1>6. CASE c.k = "content_block_start"
  <2>1. PICK new : new = [index |-> c.index, kind |-> c.kind, id |-> c.id, name |-> c.name,
                          args |-> <<>>, sig |-> IF c.kind = "redacted" THEN c.data ELSE <<>>]
    OBVIOUS
  <2>2. r = Emit([st EXCEPT !.blocks = Append(@, new), !.stop = IF c.kind = "call" THEN "tool_use" ELSE @],
                 When(c.kind = "call", ToolCallStart(new)))
    BY <1>2, <1>6, <2>1 DEF AnthropicPump
  <2>3. OpenBlock(new)
    BY <1>6, <2>1 DEF OpenBlock, Knows
  <2>4. PICK t : t = r.st
    OBVIOUS
  <2>5. t = [blocks |-> t.blocks, stop |-> t.stop, usage |-> t.usage] /\ t.blocks = Append(st.blocks, new)
    <3>1. t = [st EXCEPT !.blocks = Append(@, new), !.stop = IF c.kind = "call" THEN "tool_use" ELSE @]
      BY <2>2, <2>4, EventTypes
    <3> QED
      BY <1>1, <3>1 DEF AnthropicOK
  <2>6. IsSequence(t.blocks) /\ Elements(t.blocks) \subseteq Elements(st.blocks) \cup {new}
    <3>1. IsSequence(st.blocks)
      BY <1>1 DEF AnthropicOK
    <3> QED
      BY <2>5, <3>1, AppendElements
  <2>7. AnthropicOK(t)
    BY <1>1, <2>3, <2>5, <2>6 DEF AnthropicOK
  <2>8. Reports(r.events, {})
    <3>1. r.events = When(c.kind = "call", ToolCallStart(new))
      BY <2>2, EventTypes
    <3>2. Reports(When(c.kind = "call", ToolCallStart(new)), {})
      BY EventTypes, ReportsQuiet
    <3> QED
      BY <3>1, <3>2
  <2> QED
    BY <1>2, <1>5, <2>4, <2>7, <2>8
<1>7. CASE c.k \in {"signature_delta", "input_json_delta"} /\ at # 0
  <2>1. PICK b : b = st.blocks[at] /\ OpenBlock(b) /\ b.index = c.index
    BY <1>4, <1>7
  <2>2. \E now, e : /\ r = Emit([st EXCEPT !.blocks[at] = now], e) /\ Reports(e, {})
                    /\ now = [b EXCEPT !.sig = @ \o c.sig] \/ now = [b EXCEPT !.args = @ \o c.text]
    <3>1. CASE c.k = "signature_delta"
      <4>1. r = Emit([st EXCEPT !.blocks[at] = [b EXCEPT !.sig = @ \o c.sig]], <<>>)
        BY <1>2, <1>3, <1>7, <2>1, <3>1 DEF AnthropicPump, BlockAt
      <4> QED
        BY <4>1, ReportsQuiet
    <3>2. CASE c.k = "input_json_delta"
      <4>1. PICK now : now = [b EXCEPT !.args = @ \o c.text]
        OBVIOUS
      <4>2. r = Emit([st EXCEPT !.blocks[at] = now], <<ToolCallDelta(now)>>)
        BY <1>2, <1>3, <1>7, <2>1, <3>2, <4>1 DEF AnthropicPump, BlockAt
      <4>3. Reports(<<ToolCallDelta(now)>>, {})
        BY EventTypes, ReportsQuiet
      <4> QED
        BY <4>1, <4>2, <4>3
    <3> QED
      BY <1>7, <3>1, <3>2
  <2>3. PICK now, e : /\ r = Emit([st EXCEPT !.blocks[at] = now], e) /\ Reports(e, {})
                      /\ now = [b EXCEPT !.sig = @ \o c.sig] \/ now = [b EXCEPT !.args = @ \o c.text]
    BY <2>2
  <2>4. OpenBlock(now)
    BY <2>1, <2>3 DEF OpenBlock
  <2>5. PICK t : t = r.st
    OBVIOUS
  <2>6. t = [blocks |-> t.blocks, stop |-> t.stop, usage |-> t.usage] /\ t.blocks = [st.blocks EXCEPT ![at] = now]
    <3>1. t = [st EXCEPT !.blocks[at] = now]
      BY <2>3, <2>5, EventTypes
    <3> QED
      BY <1>1, <3>1 DEF AnthropicOK
  <2>7. Replaces(t.blocks, st.blocks, at, now)
    BY <1>1, <1>4, <1>7, <2>6 DEF Replaces, AnthropicOK
  <2>8. AnthropicOK(t)
    BY <1>1, <2>4, <2>6, <2>7, Replaced DEF AnthropicOK
  <2>9. Reports(r.events, {})
    BY <2>3, EventTypes
  <2> QED
    BY <1>2, <1>5, <2>5, <2>8, <2>9
<1>8. CASE c.k = "content_block_stop" /\ at # 0
  <2>1. PICK b : b = st.blocks[at] /\ OpenBlock(b) /\ b.index = c.index
    BY <1>4, <1>8
  <2>2. r = Emit(st, CASE b.kind = "call" -> <<ToolCallDone(b)>>
                       [] b.kind \in {"thought", "redacted"} -> <<ReasoningDone(b.sig)>>
                       [] OTHER -> <<>>)
    BY <1>2, <1>3, <1>8, <2>1 DEF AnthropicPump, BlockAt
  <2>3. r.st = st
    BY <2>2, EventTypes
  <2>4. CASE b.kind = "call"
    <3>1. r.events = <<ToolCallDone(b)>>
      BY <2>2, <2>4, EventTypes
    <3>2. Reports(<<ToolCallDone(b)>>, {b.id})
      BY EventTypes, ReportsOne
    <3>3. Mark("chunks", c) = {b.id}
      BY <1>8, <2>1 DEF Mark, OpenBlock
    <3>4. StateOK("anthropic", st, used \cup {b.id})
      BY <1>1 DEF StateOK
    <3> QED
      BY <1>2, <2>3, <3>1, <3>2, <3>3, <3>4 DEF Decodes
  <2>5. CASE b.kind # "call"
    <3>1. r.events = <<ReasoningDone(b.sig)>> \/ r.events = <<>>
      BY <2>2, <2>5, EventTypes
    <3>2. Reports(<<ReasoningDone(b.sig)>>, {}) /\ Reports(<<>>, {})
      BY EventTypes, ReportsQuiet
    <3>3. Reports(r.events, {})
      BY <3>1, <3>2
    <3> QED
      BY <1>1, <1>2, <1>5, <2>3, <3>3
  <2> QED
    BY <2>4, <2>5
<1>9. CASE c.k \in {"message_start", "message_delta"}
  <2>1. PICK t : t = r.st
    OBVIOUS
  <2>2. r = Emit([st EXCEPT !.usage = TRUE], <<>>) \/ r = Emit([st EXCEPT !.stop = c.reason, !.usage = TRUE], <<>>)
    BY <1>2, <1>9 DEF AnthropicPump
  <2>3. (t = [st EXCEPT !.usage = TRUE] \/ t = [st EXCEPT !.stop = c.reason, !.usage = TRUE]) /\ r.events = <<>>
    BY <2>1, <2>2, EventTypes
  <2>4. t = [blocks |-> t.blocks, stop |-> t.stop, usage |-> t.usage] /\ t.blocks = st.blocks
    BY <1>1, <2>3 DEF AnthropicOK
  <2>5. AnthropicOK(t)
    BY <1>1, <2>4 DEF AnthropicOK
  <2> QED
    BY <1>2, <1>5, <2>1, <2>3, <2>5, ReportsQuiet
<1>10. CASE c.k \in {"text_delta", "thinking_delta"}
  <2>1. r = Emit(st, <<TextDelta(c.text)>>) \/ r = Emit(st, <<ReasoningDelta(c.text)>>)
    BY <1>2, <1>10 DEF AnthropicPump
  <2>2. r.st = st /\ (r.events = <<TextDelta(c.text)>> \/ r.events = <<ReasoningDelta(c.text)>>)
    BY <2>1, EventTypes
  <2>3. Reports(<<TextDelta(c.text)>>, {}) /\ Reports(<<ReasoningDelta(c.text)>>, {})
    BY EventTypes, ReportsQuiet
  <2> QED
    BY <1>1, <1>2, <1>5, <2>2, <2>3
<1>11. CASE c.k \in {"signature_delta", "input_json_delta", "content_block_stop"} /\ at = 0
  <2>1. r = Emit(st, <<>>)
    BY <1>2, <1>3, <1>11 DEF AnthropicPump, BlockAt
  <2> QED
    BY <1>1, <1>2, <1>5, <2>1, EventTypes, ReportsQuiet
<1>12. c.k \in {"message_start", "content_block_start", "message_delta"} \cup InsideKinds
  BY DEF Knows
<1> QED
  BY <1>6, <1>7, <1>8, <1>9, <1>10, <1>11, <1>12 DEF InsideKinds

\* A fresh id.
LEMMA CountedNext ==
  ASSUME NEW n, NEW used, Counted(n, used)
  PROVE  <<"call", n>> \notin used /\ Counted(n + 1, used \cup {<<"call", n>>})
<1>1. n \in Nat /\ \A x \in used : \E i \in Nat : i < n /\ x = <<"call", i>>
  BY DEF Counted
<1>2. ASSUME <<"call", n>> \in used PROVE FALSE
  <2>1. PICK i \in Nat : i < n /\ <<"call", n>> = <<"call", i>>
    BY <1>1, <1>2
  <2>2. n = i
    BY <2>1
  <2> QED
    BY <2>1, <2>2
<1>3. \A x \in used \cup {<<"call", n>>} : \E i \in Nat : i < n + 1 /\ x = <<"call", i>>
  <2> SUFFICES ASSUME NEW x \in used \cup {<<"call", n>>} PROVE \E i \in Nat : i < n + 1 /\ x = <<"call", i>>
    OBVIOUS
  <2>1. CASE x \in used
    <3>1. PICK i \in Nat : i < n /\ x = <<"call", i>>
      BY <1>1, <2>1
    <3>2. i < n + 1
      BY <1>1, <3>1
    <3> QED
      BY <3>1, <3>2
  <2>2. CASE x = <<"call", n>>
    <3>1. n < n + 1
      BY <1>1
    <3> QED
      BY <1>1, <2>2, <3>1
  <2> QED
    BY <2>1, <2>2
<1>4. n + 1 \in Nat
  BY <1>1
<1> QED
  BY <1>2, <1>3, <1>4 DEF Counted

\* A Gemini part completes at most one call, of a fresh id,
LEMMA GeminiDecodes ==
  ASSUME NEW st, NEW used, StateOK("gemini", st, used), NEW c, Knows("gemini", c)
  PROVE  Decodes("gemini", used, c, GeminiPump(st, c))
<1>1. GeminiOK(st) /\ Counted(st.next, used)
  BY DEF StateOK
<1>2. PICK r : r = GeminiPump(st, c)
  OBVIOUS
<1>3. PICK closed : closed = CloseThought(st)
  OBVIOUS
<1>4. /\ closed.st = [st EXCEPT !.thinking = FALSE, !.sig = <<>>]
      /\ closed.events = When(st.thinking, ReasoningDone(st.sig))
  BY <1>3, EventTypes DEF CloseThought
<1>5. Reports(closed.events, {})
  <2>1. Reports(When(st.thinking, ReasoningDone(st.sig)), {})
    BY EventTypes, ReportsQuiet
  <2> QED
    BY <1>4, <2>1
<1>6. PICK cst : cst = closed.st /\ GeminiOK(cst) /\ cst.next = st.next
  <2>1. PICK t : t = closed.st
    OBVIOUS
  <2> QED
    BY <1>1, <1>4, <2>1 DEF GeminiOK
<1>7. ASSUME Reports(r.events, {}), GeminiOK(r.st), r.st.next = st.next
      PROVE  Decodes("gemini", used, c, r)
  BY <1>1, <1>7, DecodesQuietly DEF StateOK
<1>8. CASE c.k = "call"
  <2>1. PICK cl : cl = [id |-> <<"call", st.next>>, name |-> c.name, args |-> Braces(c.args)]
    OBVIOUS
  <2>2. r = Emit([cst EXCEPT !.next = @ + 1, !.tool = TRUE],
                 closed.events \o <<ToolCallStart(cl), ToolCallDelta(cl), ToolCallDone(cl)>>)
    BY <1>2, <1>3, <1>6, <1>8, <2>1 DEF GeminiPump
  <2>3. <<ToolCallStart(cl), ToolCallDelta(cl), ToolCallDone(cl)>>
          = <<ToolCallStart(cl)>> \o (<<ToolCallDelta(cl)>> \o <<ToolCallDone(cl)>>)
    OBVIOUS
  <2>4. Reports(<<ToolCallStart(cl)>>, {}) /\ Reports(<<ToolCallDelta(cl)>>, {}) /\ Reports(<<ToolCallDone(cl)>>, {cl.id})
    BY EventTypes, ReportsQuiet, ReportsOne
  <2>5. Reports(closed.events \o (<<ToolCallStart(cl)>> \o (<<ToolCallDelta(cl)>> \o <<ToolCallDone(cl)>>)), {cl.id})
    <3>1. PICK a, b, e : a = <<ToolCallStart(cl)>> /\ b = <<ToolCallDelta(cl)>> /\ e = <<ToolCallDone(cl)>>
      OBVIOUS
    <3>2. Reports(b \o e, {cl.id})
      BY <2>4, <3>1, ReportsQuiet
    <3>3. Reports(a \o (b \o e), {cl.id})
      BY <2>4, <3>1, <3>2, ReportsQuiet
    <3>4. Reports(closed.events \o (a \o (b \o e)), {cl.id})
      BY <1>5, <3>3, ReportsQuiet
    <3> QED
      BY <3>1, <3>4
  <2>6. Reports(r.events, {cl.id})
    <3>1. r.events = closed.events \o <<ToolCallStart(cl), ToolCallDelta(cl), ToolCallDone(cl)>>
      BY <2>2, EventTypes
    <3>2. PICK u : u = <<ToolCallStart(cl), ToolCallDelta(cl), ToolCallDone(cl)>>
      OBVIOUS
    <3>3. Reports(closed.events \o u, {cl.id})
      BY <2>3, <2>5, <3>2
    <3> QED
      BY <3>1, <3>2, <3>3
  <2>7. PICK t : t = r.st
    OBVIOUS
  <2>8. GeminiOK(t) /\ t.next = st.next + 1
    <3>1. t = [cst EXCEPT !.next = @ + 1, !.tool = TRUE]
      BY <2>2, <2>7, EventTypes
    <3> QED
      BY <1>6, <3>1 DEF GeminiOK
  <2>9. cl.id = <<"call", st.next>>
    BY <2>1
  <2>10. {cl.id} \cap used = {} /\ Counted(st.next + 1, used \cup {cl.id})
    BY <1>1, <2>9, CountedNext
  <2>11. StateOK("gemini", t, used \cup {cl.id})
    BY <2>8, <2>10 DEF StateOK
  <2> QED
    BY <1>2, <2>6, <2>7, <2>10, <2>11 DEF Decodes
<1>9. CASE c.k = "thought"
  <2>1. PICK t : t = r.st
    OBVIOUS
  <2>2. /\ t = [st EXCEPT !.thinking = TRUE, !.sig = IF c.sig # <<>> THEN c.sig ELSE @]
        /\ r.events = When(c.text # <<>>, ReasoningDelta(c.text))
    BY <1>2, <1>9, <2>1, EventTypes DEF GeminiPump
  <2>3. GeminiOK(t) /\ t.next = st.next
    BY <1>1, <2>2 DEF GeminiOK
  <2>4. Reports(r.events, {})
    <3>1. Reports(When(c.text # <<>>, ReasoningDelta(c.text)), {})
      BY EventTypes, ReportsQuiet
    <3> QED
      BY <2>2, <3>1
  <2> QED
    BY <1>2, <1>7, <2>1, <2>3, <2>4
<1>10. CASE c.k = "text"
  <2>1. r.st = cst /\ r.events = Append(closed.events, TextDelta(c.text))
    <3>1. r = Emit(closed.st, Append(closed.events, TextDelta(c.text)))
      BY <1>2, <1>3, <1>10 DEF GeminiPump
    <3> QED
      BY <1>6, <3>1, EventTypes
  <2>2. Reports(r.events, {})
    BY <1>5, <2>1, EventTypes, ReportsQuiet
  <2> QED
    BY <1>2, <1>6, <1>7, <2>1, <2>2
<1>11. CASE c.k = "finish"
  <2>1. PICK t : t = r.st
    OBVIOUS
  <2>2. t = [st EXCEPT !.finish = c.reason] /\ r.events = <<>>
    BY <1>2, <1>11, <2>1, EventTypes DEF GeminiPump
  <2>3. GeminiOK(t) /\ t.next = st.next
    BY <1>1, <2>2 DEF GeminiOK
  <2> QED
    BY <1>2, <1>7, <2>1, <2>2, <2>3, ReportsQuiet
<1>12. c.k \in {"call", "thought", "text", "finish"}
  BY DEF Knows
<1> QED
  BY <1>8, <1>9, <1>10, <1>11, <1>12

\* and so does an Ollama line.
LEMMA OllamaDecodes ==
  ASSUME NEW st, NEW used, StateOK("ollama", st, used), NEW c, Knows("ollama", c)
  PROVE  Decodes("ollama", used, c, OllamaPump(st, c))
<1>1. OllamaOK(st) /\ Counted(st.next, used)
  BY DEF StateOK
<1>2. PICK r : r = OllamaPump(st, c)
  OBVIOUS
<1>3. PICK t : t = r.st
  OBVIOUS
<1>7. ASSUME Reports(r.events, {}), OllamaOK(t), t.next = st.next
      PROVE  Decodes("ollama", used, c, r)
  BY <1>1, <1>3, <1>7, DecodesQuietly DEF StateOK
<1>8. CASE c.k = "call"
  <2>1. PICK cl : cl = [id |-> <<"call", st.next>>, name |-> c.name, args |-> Braces(c.args)]
    OBVIOUS
  <2>2. r = Emit([st EXCEPT !.next = @ + 1, !.stop = "tool_use"], <<ToolCallStart(cl), ToolCallDone(cl)>>)
    BY <1>2, <1>8, <2>1 DEF OllamaPump
  <2>3. <<ToolCallStart(cl), ToolCallDone(cl)>> = <<ToolCallStart(cl)>> \o <<ToolCallDone(cl)>>
    OBVIOUS
  <2>4. Reports(<<ToolCallStart(cl)>>, {}) /\ Reports(<<ToolCallDone(cl)>>, {cl.id})
    BY EventTypes, ReportsQuiet, ReportsOne
  <2>5. Reports(<<ToolCallStart(cl)>> \o <<ToolCallDone(cl)>>, {cl.id})
    BY <2>4, ReportsQuiet
  <2>6. Reports(r.events, {cl.id})
    BY <2>2, <2>3, <2>5, EventTypes
  <2>8. OllamaOK(t) /\ t.next = st.next + 1
    <3>1. t = [st EXCEPT !.next = @ + 1, !.stop = "tool_use"]
      BY <2>2, <1>3, EventTypes
    <3> QED
      BY <1>1, <3>1 DEF OllamaOK
  <2>9. cl.id = <<"call", st.next>>
    BY <2>1
  <2>10. {cl.id} \cap used = {} /\ Counted(st.next + 1, used \cup {cl.id})
    BY <1>1, <2>9, CountedNext
  <2>11. StateOK("ollama", t, used \cup {cl.id})
    BY <2>8, <2>10 DEF StateOK
  <2> QED
    BY <1>2, <1>3, <2>6, <2>10, <2>11 DEF Decodes
<1>9. CASE c.k \in {"content", "thinking"}
  <2>1. r = Emit(st, <<TextDelta(c.text)>>) \/ r = Emit(st, <<ReasoningDelta(c.text)>>)
    BY <1>2, <1>9 DEF OllamaPump
  <2>2. t = st /\ (r.events = <<TextDelta(c.text)>> \/ r.events = <<ReasoningDelta(c.text)>>)
    BY <1>3, <2>1, EventTypes
  <2>3. Reports(<<TextDelta(c.text)>>, {}) /\ Reports(<<ReasoningDelta(c.text)>>, {})
    BY EventTypes, ReportsQuiet
  <2> QED
    BY <1>1, <1>2, <1>7, <2>2, <2>3
<1>10. CASE c.k = "done"
  <2>2. t = [st EXCEPT !.usage = TRUE, !.stop = IF c.reason = "length" THEN "max_tokens" ELSE @] /\ r.events = <<>>
    BY <1>2, <1>3, <1>10, EventTypes DEF OllamaPump
  <2>3. OllamaOK(t) /\ t.next = st.next
    BY <1>1, <2>2 DEF OllamaOK
  <2> QED
    BY <1>2, <1>7, <2>2, <2>3, ReportsQuiet
<1>12. c.k \in {"content", "thinking", "call", "done"}
  BY DEF Knows
<1> QED
  BY <1>8, <1>9, <1>10, <1>12

(* The end of a stream *)

\* The calls a Chat stream reports when it ends.
LEMMA ChatFlushed ==
  ASSUME NEW st, ChatOK(st)
  PROVE  \E ids : Reports(ChatFlush(st), ids)
<1>1. PICK X : X = Elements(st.calls) /\ st.calls \in Seq(X)
  BY DEF ChatOK, IsSequence
<1>2. PICK Y : Y = {ToolCallDone(c) : c \in X}
  OBVIOUS
<1>3. PICK h : h = [c \in X |-> When(c.started \/ c.name # "", ToolCallDone(c))]
  OBVIOUS
<1>4. IsMap(h, X, Y)
  <2>1. \A c \in X : <<ToolCallDone(c)>> \in Seq(Y)
    BY <1>2, SingleType
  <2>2. \A c \in X : When(c.started \/ c.name # "", ToolCallDone(c)) \in Seq(Y)
    BY <2>1, EmptySeq DEF When
  <2> QED
    BY <1>3, <2>2 DEF IsMap
<1>5. ChatFlush(st) = FlatMap(h, st.calls)
  <2>1. \A i \in DOMAIN st.calls : h[st.calls[i]] = When(st.calls[i].started \/ st.calls[i].name # "", ToolCallDone(st.calls[i]))
    <3> SUFFICES ASSUME NEW i \in DOMAIN st.calls
                 PROVE  h[st.calls[i]] = When(st.calls[i].started \/ st.calls[i].name # "", ToolCallDone(st.calls[i]))
      OBVIOUS
    <3>1. PICK c \in X : c = st.calls[i]
      BY <1>1
    <3>2. h[c] = When(c.started \/ c.name # "", ToolCallDone(c))
      BY <1>3
    <3> QED
      BY <3>1, <3>2
  <2> QED
    BY <2>1 DEF ChatFlush, Each, FlatMap
<1>6. PICK k : k = [c \in X |-> {<<"id", c.index>>}]
  OBVIOUS
<1>7. Once(k, st.calls)
  <2> SUFFICES ASSUME NEW i \in 1 .. Len(st.calls), NEW j \in 1 .. Len(st.calls), i # j
               PROVE  k[st.calls[i]] \cap k[st.calls[j]] = {}
    BY DEF Once
  <2>1. st.calls[i] \in X /\ st.calls[j] \in X
    BY <1>1
  <2>2. st.calls[i].index # st.calls[j].index
    BY DEF ChatOK
  <2>3. <<"id", st.calls[i].index>> # <<"id", st.calls[j].index>>
    BY <2>2
  <2> QED
    BY <1>6, <2>1, <2>3
<1>8. ASSUME NEW c \in X
      PROVE  Carries("events", h[c], Marked("events", h[c])) /\ Marked("events", h[c]) \subseteq k[c]
  <2>1. \E ids : Reports(h[c], ids) /\ ids \subseteq k[c]
    <3>1. CASE c.started \/ c.name # ""
      <4>1. h[c] = <<ToolCallDone(c)>>
        BY <1>3, <3>1 DEF When
      <4>2. c.id = <<"id", c.index>>
        BY <1>1, <3>1 DEF ChatOK, ChatCall
      <4>3. Reports(<<ToolCallDone(c)>>, {c.id})
        BY EventTypes, ReportsOne
      <4> QED
        BY <1>6, <4>1, <4>2, <4>3
    <3>2. CASE ~ (c.started \/ c.name # "")
      <4>1. h[c] = <<>>
        BY <1>3, <3>2 DEF When
      <4> QED
        BY <4>1, ReportsQuiet
    <3> QED
      BY <3>1, <3>2
  <2> QED
    BY <2>1 DEF Reports, Carries
<1>9. Carries("events", FlatMap(h, st.calls), Marked("events", FlatMap(h, st.calls)))
  BY <1>1, <1>4, <1>7, <1>8, CarriesMapped
<1> QED
  BY <1>5, <1>9 DEF Reports

\* The end of a stream reports no call that was reported before.
LEMMA FinishReports ==
  ASSUME NEW d \in DialectNames, NEW st, NEW used, StateOK(d, st, used)
  PROVE  \E ids : Reports(Finish(d, st), ids) /\ ids \cap used = {}
<1>1. PICK f : f = Finish(d, st)
  OBVIOUS
<1>2. \A r, cond : Reports(<<MessageDone(r)>>, {}) /\ Reports(<<UsageEvent>>, {}) /\ Reports(When(cond, UsageEvent), {})
  BY EventTypes, ReportsQuiet
<1>3. CASE d = "chat"
  <2>1. PICK ids : Reports(ChatFlush(st), ids)
    BY <1>3, ChatFlushed DEF StateOK
  <2>2. PICK a : a = ChatFlush(st)
    OBVIOUS
  <2>3. f = a \o When(st.usage, UsageEvent) \o <<MessageDone(st.stop)>>
    BY <1>1, <1>3, <2>2 DEF Finish, ChatFinish
  <2>4. \A s, u, i : Reports(s, i) /\ Reports(u, {}) => Reports(s \o u, i)
    <3> SUFFICES ASSUME NEW s, NEW u, NEW i, Reports(s, i), Reports(u, {}) PROVE Reports(s \o u, i)
      OBVIOUS
    <3>1. Carries("events", s \o u, i \cup {})
      BY CarriesJoin DEF Reports
    <3>2. i \cup {} = i
      OBVIOUS
    <3> QED
      BY <3>1, <3>2 DEF Reports
  <2>5. Reports(a \o When(st.usage, UsageEvent), ids)
    BY <1>2, <2>1, <2>2, <2>4
  <2>6. Reports(f, ids)
    BY <1>2, <2>3, <2>4, <2>5
  <2>7. used = {}
    BY <1>3 DEF StateOK
  <2> QED
    BY <1>1, <2>6, <2>7
<1>4. CASE d # "chat"
  <2>1. Reports(f, {})
    <3>1. CASE d = "responses"
      BY <1>1, <1>2, <3>1 DEF Finish, ResponsesFinish
    <3>2. CASE d = "anthropic"
      <4>1. f = When(st.usage, UsageEvent) \o <<MessageDone(st.stop)>>
        BY <1>1, <3>2 DEF Finish, AnthropicFinish
      <4> QED
        BY <1>2, <4>1, ReportsQuiet
    <3>3. CASE d = "ollama"
      <4>1. f = When(st.usage, UsageEvent) \o <<MessageDone(st.stop)>>
        BY <1>1, <3>3 DEF Finish, OllamaFinish
      <4> QED
        BY <1>2, <4>1, ReportsQuiet
    <3>4. CASE d = "gemini"
      <4>1. PICK reason : f = CloseThought(st).events \o <<UsageEvent>> \o <<MessageDone(reason)>>
        BY <1>1, <3>4 DEF Finish, GeminiFinish
      <4>2. CloseThought(st).events = When(st.thinking, ReasoningDone(st.sig))
        BY EventTypes DEF CloseThought
      <4>3. Reports(When(st.thinking, ReasoningDone(st.sig)), {})
        BY EventTypes, ReportsQuiet
      <4>4. PICK ev : ev = CloseThought(st).events /\ Reports(ev, {})
        BY <4>2, <4>3
      <4>5. PICK u, m : u = <<UsageEvent>> /\ m = <<MessageDone(reason)>> /\ Reports(u, {}) /\ Reports(m, {})
        BY <1>2
      <4>6. Reports(ev \o u, {})
        BY <4>4, <4>5, ReportsQuiet
      <4>7. Reports((ev \o u) \o m, {})
        BY <4>5, <4>6, ReportsQuiet
      <4> QED
        BY <4>1, <4>4, <4>5, <4>7
    <3> QED
      BY <1>4, <3>1, <3>2, <3>3, <3>4 DEF DialectNames
  <2> QED
    BY <1>1, <2>1
<1> QED
  BY <1>3, <1>4

(* The beginning of a stream *)

\* Chunks that end nothing.
LEMMA FlowRun ==
  ASSUME NEW d, NEW s, IsSequence(s),
         \A c \in Elements(s) : Knows(d, c) /\ Mark("chunks", c) = {},
         d = "anthropic" => Ended(s)
  PROVE  Flow(d, s) /\ Stops(s) = {}
<1>1. PICK E, g : E = Elements(s) /\ s \in Seq(E) /\ g = Marks("chunks", E)
  BY DEF IsSequence
<1>2. \A i \in 1 .. Len(s) : g[s[i]] = {}
  BY <1>1 DEF Marks
<1>3. MarksOf(g, s) = {} /\ Once(g, s)
  BY <1>2 DEF MarksOf, Once
<1>4. Stops(s) = {}
  BY <1>1, <1>3 DEF Stops, Marked
<1>5. Carries("chunks", s, {})
  BY <1>1, <1>3 DEF Carries, Marked
<1> QED
  BY <1>4, <1>5 DEF Flow

\* A run of chunks.
LEMMA RunSequence ==
  ASSUME NEW n \in Nat, NEW s, s = [p \in 1 .. n |-> s[p]]
  PROVE  IsSequence(s) /\ Len(s) = n /\ \A c \in Elements(s) : \E p \in 1 .. n : c = s[p]
<1>1. PICK S : S = {s[p] : p \in 1 .. n}
  OBVIOUS
<1>2. s \in Seq(S) /\ Len(s) = n
  BY <1>1
<1> QED
  BY <1>1, <1>2, SequenceOver

\* A stream of one chunk.
LEMMA OneChunk ==
  ASSUME NEW d, NEW c, Knows(d, c), d = "anthropic" => c.k \notin InsideKinds
  PROVE  Flow(d, <<c>>) /\ Stops(<<c>>) = Mark("chunks", c)
<1>1. Carries("chunks", <<c>>, Mark("chunks", c))
  BY CarriesSome
<1>2. Stops(<<c>>) = Mark("chunks", c)
  BY <1>1 DEF Carries, Stops
<1>3. PICK s : s = <<c>>
  OBVIOUS
<1>4. 1 .. Len(s) = {1} /\ s[1] = c
  BY <1>3
<1>5. d = "anthropic" => Ended(s)
  BY <1>4 DEF Ended
<1>6. \A x \in Elements(s) : Knows(d, x)
  BY <1>4 DEF Elements
<1> QED
  BY <1>1, <1>2, <1>3, <1>5, <1>6 DEF Flow

\* Pieces that end nothing make a stream that ends nothing.
LEMMA FlowQuiet ==
  ASSUME NEW d, NEW X, NEW h, h = [x \in X |-> h[x]],
         \A x \in X : Flow(d, h[x]) /\ Stops(h[x]) = {}, NEW r \in Seq(X)
  PROVE  Flow(d, FlatMap(h, r)) /\ Stops(FlatMap(h, r)) = {}
<1>1. PICK k : k = [x \in X |-> {}]
  OBVIOUS
<1>2. \A i \in 1 .. Len(r) : r[i] \in X /\ k[r[i]] = {}
  BY <1>1
<1>3. Once(k, r) /\ MarksOf(k, r) = {}
  BY <1>2 DEF Once, MarksOf
<1>4. \A x \in X : Flow(d, h[x]) /\ Stops(h[x]) \subseteq k[x]
  BY <1>1
<1>5. Flow(d, FlatMap(h, r)) /\ Stops(FlatMap(h, r)) \subseteq MarksOf(k, r)
  BY <1>3, <1>4, FlowMapped
<1> QED
  BY <1>3, <1>5
-----------------------------------------------------------------------------
(* What the servers send                                                   *)

Kinds   == {"text", "thought", "redacted", "call"}
Sent(r) == /\ IsSequence(r)
           /\ \A b \in Elements(r) : b.kind \in Kinds /\ b.size \in Nat
           /\ \A i, j \in 1 .. Len(r) : r[i].at = r[j].at => i = j

Quiet(d, s) == Flow(d, s) /\ Stops(s) = {}

\* Streams that end nothing: a concatenation,
LEMMA QuietJoin ==
  ASSUME NEW d
  PROVE  /\ Quiet(d, <<>>)
         /\ \A s, u : Quiet(d, s) /\ Quiet(d, u) => Quiet(d, s \o u)
         /\ \A c : Knows(d, c) /\ Mark("chunks", c) = {} /\ (d = "anthropic" => c.k \notin InsideKinds)
                     => Quiet(d, <<c>>)
<1>1. ASSUME NEW s, NEW u, Quiet(d, s), Quiet(d, u) PROVE Quiet(d, s \o u)
  <2>1. Flow(d, s) /\ Flow(d, u) /\ Stops(s) = {} /\ Stops(u) = {}
    BY <1>1 DEF Quiet
  <2>2. Flow(d, s \o u) /\ Stops(s \o u) = Stops(s) \cup Stops(u)
    BY <2>1, FlowJoin
  <2> QED
    BY <2>1, <2>2 DEF Quiet
<1> QED
  BY <1>1, FlowEmpty, OneChunk DEF Quiet

\* and a run.
LEMMA QuietRun ==
  ASSUME NEW d, d # "anthropic", NEW n \in Nat, NEW s, s = [p \in 1 .. n |-> s[p]],
         \A p \in 1 .. n : Knows(d, s[p]) /\ Mark("chunks", s[p]) = {}
  PROVE  Quiet(d, s)
<1>1. IsSequence(s) /\ \A c \in Elements(s) : \E p \in 1 .. n : c = s[p]
  BY RunSequence
<1>2. \A c \in Elements(s) : Knows(d, c) /\ Mark("chunks", c) = {}
  BY <1>1
<1> QED
  BY <1>1, <1>2, FlowRun DEF Quiet

\* Runs of text.
LEMMA TextRun ==
  ASSUME NEW b, b.size \in Nat, NEW d, d # "anthropic", NEW k, k \notin {"arguments.done", "content_block_stop"},
         \A c : c.k = k => Knows(d, c)
  PROVE  Quiet(d, ChatText(k, b))
<1>1. PICK s : s = ChatText(k, b)
  OBVIOUS
<1>2. s = [p \in 1 .. b.size |-> [k |-> k, text |-> <<Pieces(b)[p]>>]]
  BY <1>1 DEF ChatText
<1>3. s = [p \in 1 .. b.size |-> s[p]] /\ \A p \in 1 .. b.size : s[p].k = k
  BY <1>2
<1>4. \A p \in 1 .. b.size : Knows(d, s[p]) /\ Mark("chunks", s[p]) = {}
  BY <1>3 DEF Mark
<1>5. Quiet(d, s)
  BY <1>3, <1>4, QuietRun
<1> QED
  BY <1>1, <1>5

(* Chat Completions *)

ChatChunks(b, woven) ==
    CASE b.kind = "text"    -> ChatText("content", b)
      [] b.kind = "thought" -> ChatText("reasoning", b)
      [] b.kind = "call"    -> IF woven THEN <<>> ELSE ChatHead(b) \o ChatRest(b)

ChatPieces(X, woven) == [b \in X |-> ChatChunks(b, woven)]

\* The pieces are a map.
LEMMA PiecesMap ==
  ASSUME NEW X, NEW woven, NEW h, h = ChatPieces(X, woven)
  PROVE  h = [b \in X |-> h[b]]
BY DEF ChatPieces

\* The calls of a reply, forwards and backwards.
LEMMA CallsSent ==
  ASSUME NEW X, NEW r \in Seq(X)
  PROVE  Calls(r) \in Seq(X) /\ Reverse(Calls(r)) \in Seq(X)
<1>1. Calls(r) = FlatMap(Keep(X, {b \in X : b.kind = "call"}), r)
  <2>0. DOMAIN r = 1 .. Len(r) /\ \A i \in DOMAIN r : r[i] \in X
    BY LenProperties, ElementOfSeq
  <2> QED
    BY <2>0 DEF Calls, Those, Each, When, FlatMap, Keep
<1>2. PICK c \in Seq(X) : c = Calls(r)
  BY <1>1, KeepType, FlatMapType
<1>3. PICK n \in Nat : n = Len(c)
  BY LenProperties
<1>4. \A i \in 1 .. n : c[(n - i) + 1] \in X
  <2> SUFFICES ASSUME NEW i \in 1 .. n PROVE c[(n - i) + 1] \in X
    OBVIOUS
  <2>1. (n - i) + 1 \in 1 .. n
    OBVIOUS
  <2> QED
    BY <1>3, <2>1
<1>5. Reverse(c) = [i \in 1 .. n |-> c[(n - i) + 1]]
  BY <1>3 DEF Reverse
<1>6. Reverse(c) \in Seq(X)
  BY <1>4, <1>5
<1> QED
  BY <1>2, <1>6

\* A Chat stream: its pieces, the woven fragments, and its end.
LEMMA ChatShape ==
  ASSUME NEW X, NEW r \in Seq(X), NEW woven \in BOOLEAN
  PROVE  ChatWire(r, woven)
           = FlatMap(ChatPieces(X, woven), r)
             \o (IF woven THEN FlatMap([b \in X |-> ChatHead(b)], Calls(r))
                               \o FlatMap([b \in X |-> ChatRest(b)], Reverse(Calls(r)))
                          ELSE <<>>)
             \o ChatEnd(IF Calls(r) = <<>> THEN "end_turn" ELSE "tool_use")
<1>1. \A s \in Seq(X) : DOMAIN s = 1 .. Len(s) /\ \A i \in DOMAIN s : s[i] \in X
  BY LenProperties, ElementOfSeq
<1>2. PICK c, v : c = Calls(r) /\ v = Reverse(Calls(r)) /\ c \in Seq(X) /\ v \in Seq(X)
  BY CallsSent
<1>3. ASSUME NEW s \in Seq(X)
      PROVE  /\ FlattenSeq([i \in DOMAIN s |-> ChatHead(s[i])]) = FlatMap([b \in X |-> ChatHead(b)], s)
             /\ FlattenSeq([i \in DOMAIN s |-> ChatRest(s[i])]) = FlatMap([b \in X |-> ChatRest(b)], s)
  BY <1>1 DEF FlatMap
<1>4. FlattenSeq([i \in DOMAIN r |->
          CASE r[i].kind = "text"    -> ChatText("content", r[i])
            [] r[i].kind = "thought" -> ChatText("reasoning", r[i])
            [] r[i].kind = "call"    -> IF woven THEN <<>> ELSE ChatHead(r[i]) \o ChatRest(r[i])])
        = FlatMap(ChatPieces(X, woven), r)
  <2>1. PICK h : h = ChatPieces(X, woven)
    OBVIOUS
  <2>2. \A b \in X : h[b] = ChatChunks(b, woven)
    BY <2>1 DEF ChatPieces
  <2>3. \A i \in DOMAIN r : r[i] \in X
    BY <1>1
  <2>4. \A i \in DOMAIN r :
          h[r[i]] = CASE r[i].kind = "text"    -> ChatText("content", r[i])
                      [] r[i].kind = "thought" -> ChatText("reasoning", r[i])
                      [] r[i].kind = "call"    -> IF woven THEN <<>> ELSE ChatHead(r[i]) \o ChatRest(r[i])
    BY <2>2, <2>3 DEF ChatChunks
  <2>5. [i \in DOMAIN r |-> h[r[i]]] = [i \in DOMAIN r |->
          CASE r[i].kind = "text"    -> ChatText("content", r[i])
            [] r[i].kind = "thought" -> ChatText("reasoning", r[i])
            [] r[i].kind = "call"    -> IF woven THEN <<>> ELSE ChatHead(r[i]) \o ChatRest(r[i])]
    BY <2>4
  <2> QED
    BY <2>1, <2>5 DEF FlatMap
<1>5. ChatWire(r, woven) =
        FlattenSeq([i \in DOMAIN r |->
          CASE r[i].kind = "text"    -> ChatText("content", r[i])
            [] r[i].kind = "thought" -> ChatText("reasoning", r[i])
            [] r[i].kind = "call"    -> IF woven THEN <<>> ELSE ChatHead(r[i]) \o ChatRest(r[i])])
        \o (IF woven THEN FlattenSeq([i \in DOMAIN c |-> ChatHead(c[i])])
                          \o FlattenSeq([i \in DOMAIN v |-> ChatRest(v[i])]) ELSE <<>>)
        \o ChatEnd(IF c = <<>> THEN "end_turn" ELSE "tool_use")
  BY <1>2 DEF ChatWire, Each
<1> QED
  BY <1>2, <1>3, <1>4, <1>5

\* The end of a Chat stream ends no call,
LEMMA ChatEndQuiet == ASSUME NEW reason PROVE Quiet("chat", ChatEnd(reason))
<1>1. PICK a, b : a = [k |-> "finish", reason |-> reason] /\ b = [k |-> "usage"]
  OBVIOUS
<1>2. Knows("chat", a) /\ Mark("chunks", a) = {} /\ Knows("chat", b) /\ Mark("chunks", b) = {}
  BY <1>1 DEF Knows, Mark
<1>3. Quiet("chat", <<a>>) /\ Quiet("chat", <<b>>)
  BY <1>2, QuietJoin
<1>4. ChatEnd(reason) = <<a>> \o <<b>>
  BY <1>1 DEF ChatEnd
<1> QED
  BY <1>3, <1>4, QuietJoin

\* and neither does the rest.
LEMMA ChatBegins ==
  ASSUME NEW r, Sent(r), \A b \in Elements(r) : b.kind # "redacted", NEW woven \in BOOLEAN
  PROVE  Quiet("chat", ChatWire(r, woven))
<1>1. PICK X : X = Elements(r) /\ r \in Seq(X)
  BY DEF Sent, IsSequence
<1>2. \A b \in X : b.kind \in {"text", "thought", "call"} /\ b.size \in Nat
  BY <1>1 DEF Sent, Kinds
<1>3. ASSUME NEW b \in X PROVE Quiet("chat", ChatHead(b)) /\ Quiet("chat", ChatRest(b))
  <2>1. Quiet("chat", ChatHead(b))
    <3>1. PICK c : c = [k |-> "tool", index |-> b.at, id |-> <<"id", b.at>>, name |-> b.tool, args |-> <<>>]
      OBVIOUS
    <3>2. Knows("chat", c) /\ Mark("chunks", c) = {}
      BY <3>1 DEF Knows, Mark
    <3>3. ChatHead(b) = <<c>>
      BY <3>1 DEF ChatHead
    <3> QED
      BY <3>2, <3>3, QuietJoin
  <2>2. PICK s : s = ChatRest(b)
    OBVIOUS
  <2>3. s = [p \in 1 .. b.size |-> [k |-> "tool", index |-> b.at, id |-> <<>>, name |-> "",
                                     args |-> <<Pieces(b)[p]>>]]
    BY <2>2 DEF ChatRest
  <2>4. s = [p \in 1 .. b.size |-> s[p]] /\ \A p \in 1 .. b.size : s[p].k = "tool" /\ s[p].id = <<>> /\ s[p].name = ""
    BY <2>3
  <2>5. \A p \in 1 .. b.size : Knows("chat", s[p]) /\ Mark("chunks", s[p]) = {}
    BY <2>4 DEF Knows, Mark
  <2>6. Quiet("chat", s)
    BY <1>2, <2>4, <2>5, QuietRun
  <2> QED
    BY <2>1, <2>2, <2>6
<1>4. PICK h, head, rest : /\ h = ChatPieces(X, woven) /\ head = [b \in X |-> ChatHead(b)]
                           /\ rest = [b \in X |-> ChatRest(b)]
  OBVIOUS
<1>5. \A c : c.k \in {"content", "reasoning"} => Knows("chat", c)
  BY DEF Knows
<1>6. ASSUME NEW b \in X PROVE Quiet("chat", h[b])
  <2>1. CASE b.kind = "text"
    <3>1. h[b] = ChatText("content", b)
      BY <1>4, <2>1 DEF ChatPieces, ChatChunks
    <3> QED
      BY <1>2, <1>5, <3>1, TextRun
  <2>2. CASE b.kind = "thought"
    <3>1. h[b] = ChatText("reasoning", b)
      BY <1>4, <2>2 DEF ChatPieces, ChatChunks
    <3> QED
      BY <1>2, <1>5, <3>1, TextRun
  <2>3. CASE b.kind = "call"
    <3>1. h[b] = IF woven THEN <<>> ELSE ChatHead(b) \o ChatRest(b)
      BY <1>4, <2>3 DEF ChatPieces, ChatChunks
    <3> QED
      BY <1>3, <3>1, QuietJoin
  <2> QED
    BY <1>2, <2>1, <2>2, <2>3
<1>7. Quiet("chat", FlatMap(h, r))
  <2>1. h = [b \in X |-> h[b]]
    BY <1>4, PiecesMap
  <2> QED
    BY <1>1, <1>6, <2>1, FlowQuiet DEF Quiet
<1>8. PICK c, v : c = Calls(r) /\ v = Reverse(Calls(r)) /\ c \in Seq(X) /\ v \in Seq(X)
  BY <1>1, CallsSent
<1>9. Quiet("chat", FlatMap(head, c)) /\ Quiet("chat", FlatMap(rest, v))
  <2>1. head = [b \in X |-> head[b]] /\ rest = [b \in X |-> rest[b]]
    BY <1>4
  <2>2. \A b \in X : Quiet("chat", head[b]) /\ Quiet("chat", rest[b])
    BY <1>3, <1>4
  <2>3. Quiet("chat", FlatMap(head, c))
    BY <1>8, <2>1, <2>2, FlowQuiet DEF Quiet
  <2>4. Quiet("chat", FlatMap(rest, v))
    BY <1>8, <2>1, <2>2, FlowQuiet DEF Quiet
  <2> QED
    BY <2>3, <2>4
<1>11. PICK e, m : /\ e = ChatEnd(IF c = <<>> THEN "end_turn" ELSE "tool_use")
                   /\ m = IF woven THEN FlatMap(head, c) \o FlatMap(rest, v) ELSE <<>>
  OBVIOUS
<1>12. Quiet("chat", e) /\ Quiet("chat", m)
  BY <1>9, <1>11, ChatEndQuiet, QuietJoin
<1>13. ChatWire(r, woven) = (FlatMap(h, r) \o m) \o e
  BY <1>1, <1>4, <1>8, <1>11, ChatShape
<1> QED
  BY <1>7, <1>12, <1>13, QuietJoin

(* Responses *)

\* A sequence and one more element over one set.
LEMMA InLarger ==
  ASSUME NEW s, IsSequence(s), NEW x
  PROVE  \E X : s \in Seq(X) /\ x \in X
<1>1. Elements(s) \subseteq Elements(s) \cup {x} /\ x \in Elements(s) \cup {x}
  OBVIOUS
<1>2. s \in Seq(Elements(s) \cup {x})
  BY <1>1, SeqMonotonic DEF IsSequence
<1> QED
  BY <1>1, <1>2

\* The id of a block of a reply.
IdOf(b)    == {<<"id", b.at>>}
IdMarks(X) == [b \in X |-> IdOf(b)]

\* The blocks of a reply have each an id of its own.
LEMMA SentOnce ==
  ASSUME NEW r, Sent(r), NEW X, r \in Seq(X)
  PROVE  Once(IdMarks(X), r)
<1>0. PICK k : k = IdMarks(X)
  OBVIOUS
<1>1. \A b \in X : k[b] = {<<"id", b.at>>}
  BY <1>0 DEF IdMarks, IdOf
<1>2. \A i \in 1 .. Len(r) : k[r[i]] = {<<"id", r[i].at>>}
  BY <1>1, LenProperties, ElementOfSeq
<1>3. \A i, j \in 1 .. Len(r) : i # j => r[i].at # r[j].at
  BY DEF Sent
<1>4. Once(k, r)
  BY <1>2, <1>3 DEF Once
<1> QED
  BY <1>0, <1>4

ItemHead(b) == [k |-> "output_item.added", item |-> b.at, id |-> <<"id", b.at>>, name |-> b.tool]
ItemRest(b) == [p \in 1 .. b.size |-> [k |-> "arguments.delta", item |-> b.at, args |-> <<Pieces(b)[p]>>]]
ItemLast(b) == [k |-> "arguments.done", item |-> b.at, args |-> Pieces(b)]
ItemDone(b) == [k |-> "output_item.done", sig |-> Seal(b)]
ItemChunks(b) ==
    CASE b.kind = "text"    -> ChatText("output_text.delta", b)
      [] b.kind = "thought" -> Append(ChatText("reasoning_text.delta", b), ItemDone(b))
      [] b.kind = "call"    -> (<<ItemHead(b)>> \o ItemRest(b)) \o <<ItemLast(b)>>
ItemPieces(X) == [b \in X |-> ItemChunks(b)]

\* A Responses stream: the pieces of the blocks, and its end.
LEMMA ResponsesSends ==
  ASSUME NEW X, NEW r \in Seq(X)
  PROVE  ResponsesWire(r) = Append(FlatMap(ItemPieces(X), r), [k |-> "completed"])
<1>0. PICK h : h = ItemPieces(X)
  OBVIOUS
<1>1. \A b \in X : h[b] = ItemChunks(b)
  BY <1>0 DEF ItemPieces
<1>2. \A i \in DOMAIN r : h[r[i]] = ItemChunks(r[i])
  BY <1>1, LenProperties, ElementOfSeq
<1>3. [i \in DOMAIN r |-> h[r[i]]] = [i \in DOMAIN r |-> ItemChunks(r[i])]
  BY <1>2
<1>4. ResponsesWire(r) = Append(FlattenSeq([i \in DOMAIN r |-> ItemChunks(r[i])]), [k |-> "completed"])
  BY DEF ResponsesWire, Each, ItemChunks, ItemHead, ItemRest, ItemLast, ItemDone
<1> QED
  BY <1>0, <1>3, <1>4 DEF FlatMap

\* Each call of a Responses stream is done once.
LEMMA ResponsesBegins ==
  ASSUME NEW r, Sent(r), \A b \in Elements(r) : b.kind # "redacted"
  PROVE  Flow("responses", ResponsesWire(r))
<1>1. PICK X : X = Elements(r) /\ r \in Seq(X)
  BY DEF Sent, IsSequence
<1>2. \A b \in X : b.kind \in {"text", "thought", "call"} /\ b.size \in Nat
  BY <1>1 DEF Sent, Kinds
<1>3. \A c : c.k \in {"output_text.delta", "reasoning_text.delta", "output_item.done", "arguments.delta",
                      "arguments.done", "completed"} => Knows("responses", c)
  BY DEF Knows
<1>4. ASSUME NEW b \in X PROVE Flow("responses", ItemChunks(b)) /\ Stops(ItemChunks(b)) \subseteq IdOf(b)
  <2>1. CASE b.kind = "text"
    <3>1. ItemChunks(b) = ChatText("output_text.delta", b)
      BY <2>1 DEF ItemChunks
    <3>2. Quiet("responses", ChatText("output_text.delta", b))
      BY <1>2, <1>3, TextRun
    <3> QED
      BY <3>1, <3>2 DEF Quiet
  <2>2. CASE b.kind = "thought"
    <3>1. PICK s, c : s = ChatText("reasoning_text.delta", b) /\ c = ItemDone(b)
      OBVIOUS
    <3>2. ItemChunks(b) = Append(s, c)
      BY <2>2, <3>1 DEF ItemChunks
    <3>3. Quiet("responses", s)
      BY <1>2, <1>3, <3>1, TextRun
    <3>4. Knows("responses", c) /\ Mark("chunks", c) = {}
      BY <1>3, <3>1 DEF ItemDone, Mark
    <3>5. Quiet("responses", <<c>>)
      BY <3>4, QuietJoin
    <3>6. IsSequence(s)
      BY <3>3 DEF Quiet, Flow, Carries
    <3>7. Append(s, c) = s \o <<c>>
      <4>1. PICK Z : s \in Seq(Z) /\ c \in Z
        BY <3>6, InLarger
      <4> QED
        BY <4>1, AppendIsConcat
    <3> QED
      BY <3>2, <3>3, <3>5, <3>7, QuietJoin DEF Quiet
  <2>3. CASE b.kind = "call"
    <3>1. PICK a, s, c : a = ItemHead(b) /\ s = ItemRest(b) /\ c = ItemLast(b)
      OBVIOUS
    <3>2. ItemChunks(b) = (<<a>> \o s) \o <<c>>
      BY <2>3, <3>1 DEF ItemChunks
    <3>3. Knows("responses", a) /\ Mark("chunks", a) = {}
      BY <3>1 DEF ItemHead, Knows, Mark
    <3>4. s = [p \in 1 .. b.size |-> s[p]] /\ \A p \in 1 .. b.size : s[p].k = "arguments.delta"
      BY <3>1 DEF ItemRest
    <3>5. \A p \in 1 .. b.size : Knows("responses", s[p]) /\ Mark("chunks", s[p]) = {}
      BY <1>3, <3>4 DEF Mark
    <3>6. Quiet("responses", <<a>>) /\ Quiet("responses", s)
      BY <1>2, <3>3, <3>4, <3>5, QuietJoin, QuietRun
    <3>7. PICK u : u = <<a>> \o s /\ Quiet("responses", u)
      BY <3>6, QuietJoin
    <3>8. Knows("responses", c) /\ Mark("chunks", c) = IdOf(b)
      BY <1>3, <3>1 DEF ItemLast, Mark, IdOf
    <3>9. Flow("responses", <<c>>) /\ Stops(<<c>>) = IdOf(b)
      BY <3>8, OneChunk
    <3>10. PICK v : v = <<c>>
      OBVIOUS
    <3>11. Flow("responses", u \o v) /\ Stops(u \o v) = Stops(u) \cup Stops(v)
      BY <3>7, <3>9, <3>10, FlowJoin DEF Quiet
    <3> QED
      BY <3>2, <3>7, <3>9, <3>10, <3>11 DEF Quiet
  <2> QED
    BY <1>2, <2>1, <2>2, <2>3
<1>5. PICK h, k : h = ItemPieces(X) /\ k = IdMarks(X)
  OBVIOUS
<1>6. h = [b \in X |-> h[b]] /\ \A b \in X : h[b] = ItemChunks(b) /\ k[b] = IdOf(b)
  BY <1>5 DEF ItemPieces, IdMarks
<1>7. Flow("responses", FlatMap(h, r))
  <2>1. Once(k, r)
    BY <1>1, <1>5, SentOnce
  <2>2. \A b \in X : Flow("responses", h[b]) /\ Stops(h[b]) \subseteq k[b]
    BY <1>4, <1>6
  <2> QED
    BY <1>1, <1>6, <2>1, <2>2, FlowMapped
<1>8. PICK c, s : c = [k |-> "completed"] /\ s = FlatMap(h, r)
  OBVIOUS
<1>9. Knows("responses", c) /\ Mark("chunks", c) = {}
  BY <1>3, <1>8 DEF Mark
<1>10. Flow("responses", <<c>>) /\ Stops(<<c>>) = {}
  BY <1>9, OneChunk
<1>11. Flow("responses", s \o <<c>>)
  BY <1>7, <1>8, <1>10, FlowJoin
<1>12. IsSequence(s)
  BY <1>7, <1>8 DEF Flow, Carries
<1>13. ResponsesWire(r) = s \o <<c>>
  <2>1. ResponsesWire(r) = Append(s, c)
    BY <1>1, <1>5, <1>8, ResponsesSends
  <2>2. PICK Z : s \in Seq(Z) /\ c \in Z
    BY <1>12, InLarger
  <2> QED
    BY <2>1, <2>2, AppendIsConcat
<1> QED
  BY <1>11, <1>13

(* Anthropic *)

InnerRun(k, b)   == [p \in 1 .. b.size |-> [k |-> k, index |-> b.at, text |-> <<Pieces(b)[p]>>]]
InnerSeal(b)     == [k |-> "signature_delta", index |-> b.at, sig |-> Seal(b)]
BlockHead(b)     == [k |-> "content_block_start", index |-> b.at, kind |-> b.kind,
                     id |-> <<"id", b.at>>, name |-> b.tool, data |-> Seal(b)]
BlockLast(b)     == [k |-> "content_block_stop", index |-> b.at]
BlockInner(b) ==
    CASE b.kind = "text"     -> InnerRun("text_delta", b)
      [] b.kind = "thought"  -> Append(InnerRun("thinking_delta", b), InnerSeal(b))
      [] b.kind = "redacted" -> <<>>
      [] b.kind = "call"     -> InnerRun("input_json_delta", b)
BlockChunks(b)   == (<<BlockHead(b)>> \o BlockInner(b)) \o <<BlockLast(b)>>
BlockPieces(X)   == [b \in X |-> BlockChunks(b)]
LastDelta(reason) == [k |-> "message_delta", reason |-> reason]

\* An Anthropic stream: the pieces of the blocks, between its beginning and its end.
LEMMA AnthropicSends ==
  ASSUME NEW X, NEW r \in Seq(X)
  PROVE  AnthropicWire(r) =
           (<<[k |-> "message_start"]>> \o FlatMap(BlockPieces(X), r))
           \o <<LastDelta(IF Calls(r) = <<>> THEN "end_turn" ELSE "tool_use")>>
<1>0. PICK h : h = BlockPieces(X)
  OBVIOUS
<1>1. \A b \in X : h[b] = BlockChunks(b)
  BY <1>0 DEF BlockPieces
<1>2. \A i \in DOMAIN r : h[r[i]] = BlockChunks(r[i])
  BY <1>1, LenProperties, ElementOfSeq
<1>3. [i \in DOMAIN r |-> h[r[i]]] = [i \in DOMAIN r |-> BlockChunks(r[i])]
  BY <1>2
<1>4. AnthropicWire(r) = (<<[k |-> "message_start"]>> \o FlattenSeq([i \in DOMAIN r |-> BlockChunks(r[i])]))
           \o <<LastDelta(IF Calls(r) = <<>> THEN "end_turn" ELSE "tool_use")>>
  BY DEF AnthropicWire, Each, BlockChunks, BlockHead, BlockInner, BlockLast, InnerRun, InnerSeal, LastDelta
<1> QED
  BY <1>0, <1>3, <1>4 DEF FlatMap

\* What a block has inside.
Within(b, s) == /\ IsSequence(s)
                /\ \A c \in Elements(s) : /\ c.k \in InsideKinds \ {"content_block_stop"}
                                          /\ "index" \in DOMAIN c /\ c.index = b.at

\* A block has only its own chunks inside.
LEMMA InnerWithin ==
  ASSUME NEW b, b.kind \in Kinds, b.size \in Nat
  PROVE  Within(b, BlockInner(b))
<1>1. ASSUME NEW k \in {"text_delta", "thinking_delta", "input_json_delta"} PROVE Within(b, InnerRun(k, b))
  <2>1. PICK s : s = InnerRun(k, b)
    OBVIOUS
  <2>2. /\ s = [p \in 1 .. b.size |-> s[p]]
        /\ \A p \in 1 .. b.size : s[p].k = k /\ "index" \in DOMAIN s[p] /\ s[p].index = b.at
    BY <2>1 DEF InnerRun
  <2>3. IsSequence(s) /\ \A c \in Elements(s) : \E p \in 1 .. b.size : c = s[p]
    BY <2>2, RunSequence
  <2>4. \A c \in Elements(s) : c.k = k /\ "index" \in DOMAIN c /\ c.index = b.at
    BY <2>2, <2>3
  <2>5. k \in InsideKinds \ {"content_block_stop"}
    BY DEF InsideKinds
  <2> QED
    BY <2>1, <2>3, <2>4, <2>5 DEF Within
<1>2. CASE b.kind = "text"
  BY <1>1, <1>2 DEF BlockInner
<1>3. CASE b.kind = "call"
  BY <1>1, <1>3 DEF BlockInner
<1>4. CASE b.kind = "redacted"
  <2>1. BlockInner(b) = <<>>
    BY <1>4 DEF BlockInner
  <2>2. Elements(<<>>) = {} /\ <<>> \in Seq({})
    BY EmptySeq DEF Elements
  <2>3. Within(b, <<>>)
    BY <2>2 DEF Within, IsSequence
  <2> QED
    BY <2>1, <2>3
<1>5. CASE b.kind = "thought"
  <2>1. PICK s, c : s = InnerRun("thinking_delta", b) /\ c = InnerSeal(b)
    OBVIOUS
  <2>2. Within(b, s)
    BY <1>1, <2>1
  <2>3. c.k \in InsideKinds \ {"content_block_stop"} /\ "index" \in DOMAIN c /\ c.index = b.at
    BY <2>1 DEF InnerSeal, InsideKinds
  <2>4. IsSequence(Append(s, c)) /\ Elements(Append(s, c)) \subseteq Elements(s) \cup {c}
    BY <2>2, AppendElements DEF Within
  <2>5. Within(b, Append(s, c))
    BY <2>2, <2>3, <2>4 DEF Within
  <2>6. BlockInner(b) = Append(s, c)
    BY <1>5, <2>1 DEF BlockInner
  <2> QED
    BY <2>5, <2>6
<1> QED
  BY <1>2, <1>3, <1>4, <1>5 DEF Kinds

\* A block is stopped once, at its end.
LEMMA BlockFlow ==
  ASSUME NEW b, b.kind \in Kinds, b.size \in Nat
  PROVE  Flow("anthropic", BlockChunks(b)) /\ Stops(BlockChunks(b)) = IdOf(b)
<1>1. PICK a, s, c, w : /\ a = BlockHead(b) /\ s = BlockInner(b) /\ c = BlockLast(b)
                        /\ w = (<<a>> \o s) \o <<c>> /\ w = BlockChunks(b)
  BY DEF BlockChunks
<1>2. Within(b, s)
  BY <1>1, InnerWithin
<1>3. /\ a.k = "content_block_start" /\ a.id = <<"id", a.index>>
      /\ c.k = "content_block_stop" /\ "index" \in DOMAIN c /\ c.index = b.at
  BY <1>1 DEF BlockHead, BlockLast
<1>4. Knows("anthropic", a) /\ Mark("chunks", a) = {}
  BY <1>3 DEF Knows, Mark, InsideKinds
<1>5. Knows("anthropic", c) /\ Mark("chunks", c) = IdOf(b)
  BY <1>3 DEF Knows, Mark, InsideKinds, IdOf
<1>6. \A x \in Elements(s) : Knows("anthropic", x) /\ Mark("chunks", x) = {}
  BY <1>2 DEF Within, Knows, Mark, InsideKinds
<1>7. Carries("chunks", s, {})
  <2>1. PICK E, g : E = Elements(s) /\ s \in Seq(E) /\ g = Marks("chunks", E)
    BY <1>2 DEF Within, IsSequence
  <2>2. \A i \in 1 .. Len(s) : s[i] \in E
    BY <2>1 DEF Elements
  <2>3. \A i \in 1 .. Len(s) : g[s[i]] = {}
    BY <1>6, <2>1, <2>2 DEF Marks
  <2>4. MarksOf(g, s) = {} /\ Once(g, s)
    BY <2>3 DEF MarksOf, Once
  <2> QED
    BY <1>2, <2>1, <2>4 DEF Carries, Marked, Within
<1>8. PICK p, q : p = <<a>> /\ q = <<c>>
  OBVIOUS
<1>9. Carries("chunks", p, {}) /\ Carries("chunks", q, IdOf(b))
  BY <1>4, <1>5, <1>8, CarriesSome
<1>10. Carries("chunks", p \o s, {})
  <2>1. Carries("chunks", p \o s, {} \cup {})
    BY <1>7, <1>9, CarriesJoin
  <2> QED
    BY <2>1
<1>11. Carries("chunks", w, IdOf(b))
  <2>1. PICK u : u = p \o s
    OBVIOUS
  <2>2. Carries("chunks", u \o q, {} \cup IdOf(b))
    BY <1>9, <1>10, <2>1, CarriesJoin
  <2>3. w = u \o q /\ {} \cup IdOf(b) = IdOf(b)
    BY <1>1, <1>8, <2>1
  <2> QED
    BY <2>2, <2>3
<1>12. Elements(w) \subseteq (Elements(s) \cup {a}) \cup {c}
  <2>1. IsSequence(s) /\ IsSequence(p) /\ IsSequence(q) /\ Elements(p) \subseteq {a} /\ Elements(q) \subseteq {c}
    BY <1>2, <1>8, SequenceJoin DEF Within
  <2>0. IsSequence(p \o s) /\ Elements(p \o s) \subseteq Elements(p) \cup Elements(s)
    BY <2>1, SequenceJoin
  <2>2. PICK u : u = p \o s /\ IsSequence(u) /\ Elements(u) \subseteq Elements(p) \cup Elements(s)
    BY <2>0
  <2>3. Elements(u \o q) \subseteq Elements(u) \cup Elements(q)
    BY <2>1, <2>2, SequenceJoin
  <2> QED
    BY <1>1, <1>8, <2>1, <2>2, <2>3
<1>13. \A x \in Elements(w) : Knows("anthropic", x)
  BY <1>4, <1>5, <1>6, <1>12
<1>14. PICK n \in Nat : n = Len(w) /\ n > 0 /\ w[n] = c
  <2>1. IsSequence(p \o s)
    BY <1>10 DEF Carries
  <2>2. PICK X, u : u \in Seq(X) /\ c \in X /\ u = p \o s
    BY <2>1, InLarger
  <2>3. w = Append(u, c)
    BY <1>1, <1>8, <2>2, AppendIsConcat
  <2> QED
    BY <2>2, <2>3, AppendProperties, LenProperties
<1>15. Ended(w)
  <2> SUFFICES ASSUME NEW i \in 1 .. Len(w), w[i].k \in InsideKinds
               PROVE  \E j \in i .. Len(w) : <<"id", w[i].index>> \in Mark("chunks", w[j])
    BY DEF Ended
  <2>1. w[i] \in Elements(w)
    BY DEF Elements
  <2>2. w[i] # a
    BY <1>3 DEF InsideKinds
  <2>3. w[i].index = b.at
    BY <1>2, <1>3, <1>12, <2>1, <2>2 DEF Within
  <2>4. n \in i .. Len(w)
    BY <1>14
  <2> QED
    BY <1>5, <1>14, <2>3, <2>4 DEF IdOf
<1>16. Stops(w) = IdOf(b)
  BY <1>11 DEF Carries, Stops
<1> QED
  BY <1>1, <1>11, <1>13, <1>15, <1>16 DEF Flow

\* Each block of an Anthropic stream is stopped once.
LEMMA AnthropicBegins ==
  ASSUME NEW r, Sent(r)
  PROVE  Flow("anthropic", AnthropicWire(r))
<1>1. PICK X : X = Elements(r) /\ r \in Seq(X)
  BY DEF Sent, IsSequence
<1>2. \A b \in X : b.kind \in Kinds /\ b.size \in Nat
  BY <1>1 DEF Sent
<1>3. PICK h, k : h = BlockPieces(X) /\ k = IdMarks(X)
  OBVIOUS
<1>4. h = [b \in X |-> h[b]] /\ \A b \in X : h[b] = BlockChunks(b) /\ k[b] = IdOf(b)
  BY <1>3 DEF BlockPieces, IdMarks
<1>5. \A b \in X : Flow("anthropic", h[b]) /\ Stops(h[b]) \subseteq k[b]
  BY <1>2, <1>4, BlockFlow
<1>6. PICK s : s = FlatMap(h, r) /\ Flow("anthropic", s)
  BY <1>1, <1>3, <1>4, <1>5, SentOnce, FlowMapped
<1>7. PICK a, c : /\ a = [k |-> "message_start"]
                  /\ c = LastDelta(IF Calls(r) = <<>> THEN "end_turn" ELSE "tool_use")
  OBVIOUS
<1>8. a.k = "message_start" /\ "index" \notin DOMAIN a /\ c.k = "message_delta" /\ "index" \notin DOMAIN c
  BY <1>7 DEF LastDelta
<1>9. /\ Knows("anthropic", a) /\ Mark("chunks", a) = {} /\ a.k \notin InsideKinds
      /\ Knows("anthropic", c) /\ Mark("chunks", c) = {} /\ c.k \notin InsideKinds
  BY <1>8 DEF Knows, Mark, InsideKinds
<1>10. PICK p, q : /\ p = <<a>> /\ Flow("anthropic", p) /\ Stops(p) = {}
                   /\ q = <<c>> /\ Flow("anthropic", q) /\ Stops(q) = {}
  BY <1>9, OneChunk
<1>11. PICK u : u = p \o s /\ Flow("anthropic", u)
  BY <1>6, <1>10, FlowJoin
<1>12. Flow("anthropic", u \o q)
  BY <1>10, <1>11, FlowJoin
<1>13. AnthropicWire(r) = u \o q
  BY <1>1, <1>3, <1>6, <1>7, <1>10, <1>11, AnthropicSends
<1> QED
  BY <1>12, <1>13

\* One more chunk that ends nothing,
LEMMA QuietAppend ==
  ASSUME NEW d, NEW s, Quiet(d, s), NEW c, Quiet(d, <<c>>)
  PROVE  Quiet(d, Append(s, c))
<1>1. IsSequence(s)
  BY DEF Quiet, Flow, Carries
<1>2. PICK Z : s \in Seq(Z) /\ c \in Z
  BY <1>1, InLarger
<1>3. Append(s, c) = s \o <<c>>
  BY <1>2, AppendIsConcat
<1> QED
  BY <1>3, QuietJoin

\* and mapped pieces that end nothing.
LEMMA QuietMapped ==
  ASSUME NEW d, NEW X, NEW h, h = [x \in X |-> h[x]], \A x \in X : Quiet(d, h[x]), NEW r \in Seq(X)
  PROVE  Quiet(d, FlatMap(h, r))
BY FlowQuiet DEF Quiet

(* Gemini *)

ThoughtParts(b) == [p \in 1 .. b.size |-> [k |-> "thought", text |-> <<Pieces(b)[p]>>,
                                           sig |-> IF p = b.size THEN Seal(b) ELSE <<>>]]
SealPart(b)     == [k |-> "thought", text |-> <<>>, sig |-> Seal(b)]
CallPart(b)     == [k |-> "call", name |-> b.tool, args |-> Pieces(b)]
PartChunks(b)   == CASE b.kind = "text"    -> ChatText("text", b)
                     [] b.kind = "thought" -> ThoughtParts(b) \o When(b.size = 0, SealPart(b))
                     [] b.kind = "call"    -> <<CallPart(b)>>
PartPieces(X)   == [b \in X |-> PartChunks(b)]

\* A Gemini stream: the pieces of the blocks, and its end.
LEMMA GeminiSends ==
  ASSUME NEW X, NEW r \in Seq(X)
  PROVE  GeminiWire(r) = Append(FlatMap(PartPieces(X), r), [k |-> "finish", reason |-> "STOP"])
<1>0. PICK h : h = PartPieces(X)
  OBVIOUS
<1>1. \A b \in X : h[b] = PartChunks(b)
  BY <1>0 DEF PartPieces
<1>2. \A i \in DOMAIN r : h[r[i]] = PartChunks(r[i])
  BY <1>1, LenProperties, ElementOfSeq
<1>3. [i \in DOMAIN r |-> h[r[i]]] = [i \in DOMAIN r |-> PartChunks(r[i])]
  BY <1>2
<1>4. GeminiWire(r) = Append(FlattenSeq([i \in DOMAIN r |-> PartChunks(r[i])]), [k |-> "finish", reason |-> "STOP"])
  BY DEF GeminiWire, Each, PartChunks, ThoughtParts, SealPart, CallPart
<1> QED
  BY <1>0, <1>3, <1>4 DEF FlatMap

\* It ends nothing.
LEMMA GeminiBegins ==
  ASSUME NEW r, Sent(r), \A b \in Elements(r) : b.kind # "redacted"
  PROVE  Quiet("gemini", GeminiWire(r))
<1>1. PICK X : X = Elements(r) /\ r \in Seq(X)
  BY DEF Sent, IsSequence
<1>2. \A b \in X : b.kind \in {"text", "thought", "call"} /\ b.size \in Nat
  BY <1>1 DEF Sent, Kinds
<1>3. \A c : c.k \in {"call", "thought", "text", "finish"} => Knows("gemini", c) /\ Mark("chunks", c) = {}
  BY DEF Knows, Mark
<1>4. \A c : c.k \in {"call", "thought", "text", "finish"} => Quiet("gemini", <<c>>)
  <2> SUFFICES ASSUME NEW c, c.k \in {"call", "thought", "text", "finish"} PROVE Quiet("gemini", <<c>>)
    OBVIOUS
  <2>1. Knows("gemini", c) /\ Mark("chunks", c) = {}
    BY <1>3
  <2> QED
    BY <2>1, QuietJoin
<1>5. ASSUME NEW b \in X PROVE Quiet("gemini", PartChunks(b))
  <2>1. CASE b.kind = "text"
    <3>1. PartChunks(b) = ChatText("text", b)
      BY <2>1 DEF PartChunks
    <3>2. Quiet("gemini", ChatText("text", b))
      BY <1>2, <1>3, TextRun
    <3> QED
      BY <3>1, <3>2
  <2>2. CASE b.kind = "thought"
    <3>1. PICK s, c : s = ThoughtParts(b) /\ c = SealPart(b)
      OBVIOUS
    <3>2. s = [p \in 1 .. b.size |-> s[p]] /\ \A p \in 1 .. b.size : s[p].k = "thought"
      BY <3>1 DEF ThoughtParts
    <3>3. Quiet("gemini", s)
      BY <1>2, <1>3, <3>2, QuietRun
    <3>4. c.k = "thought"
      BY <3>1 DEF SealPart
    <3>5. PICK u : u = When(b.size = 0, c) /\ Quiet("gemini", u)
      <4>1. Quiet("gemini", <<c>>) /\ Quiet("gemini", <<>>)
        BY <1>4, <3>4, QuietJoin
      <4> QED
        BY <4>1 DEF When
    <3>6. PartChunks(b) = s \o u
      BY <2>2, <3>1, <3>5 DEF PartChunks
    <3> QED
      BY <3>3, <3>5, <3>6, QuietJoin
  <2>3. CASE b.kind = "call"
    <3>1. PICK c : c = CallPart(b)
      OBVIOUS
    <3>2. PartChunks(b) = <<c>> /\ c.k = "call"
      BY <2>3, <3>1 DEF PartChunks, CallPart
    <3> QED
      BY <1>4, <3>2
  <2> QED
    BY <1>2, <2>1, <2>2, <2>3
<1>6. PICK h : h = PartPieces(X)
  OBVIOUS
<1>7. h = [b \in X |-> h[b]] /\ \A b \in X : h[b] = PartChunks(b)
  BY <1>6 DEF PartPieces
<1>8. PICK s, c : s = FlatMap(h, r) /\ c = [k |-> "finish", reason |-> "STOP"]
  OBVIOUS
<1>9. Quiet("gemini", s)
  BY <1>1, <1>5, <1>7, <1>8, QuietMapped
<1>10. Quiet("gemini", <<c>>)
  BY <1>4, <1>8
<1>11. GeminiWire(r) = Append(s, c)
  BY <1>1, <1>6, <1>8, GeminiSends
<1> QED
  BY <1>9, <1>10, <1>11, QuietAppend

(* Ollama *)

LineChunks(b) == CASE b.kind = "text"    -> ChatText("content", b)
                   [] b.kind = "thought" -> ChatText("thinking", b)
                   [] b.kind = "call"    -> <<CallPart(b)>>
LinePieces(X) == [b \in X |-> LineChunks(b)]

\* An Ollama stream: the lines of the blocks, and the last.
LEMMA OllamaSends ==
  ASSUME NEW X, NEW r \in Seq(X)
  PROVE  OllamaWire(r) = Append(FlatMap(LinePieces(X), r), [k |-> "done", reason |-> "stop"])
<1>0. PICK h : h = LinePieces(X)
  OBVIOUS
<1>1. \A b \in X : h[b] = LineChunks(b)
  BY <1>0 DEF LinePieces
<1>2. \A i \in DOMAIN r : h[r[i]] = LineChunks(r[i])
  BY <1>1, LenProperties, ElementOfSeq
<1>3. [i \in DOMAIN r |-> h[r[i]]] = [i \in DOMAIN r |-> LineChunks(r[i])]
  BY <1>2
<1>4. OllamaWire(r) = Append(FlattenSeq([i \in DOMAIN r |-> LineChunks(r[i])]), [k |-> "done", reason |-> "stop"])
  BY DEF OllamaWire, Each, LineChunks, CallPart
<1> QED
  BY <1>0, <1>3, <1>4 DEF FlatMap

\* It ends nothing.
LEMMA OllamaBegins ==
  ASSUME NEW r, Sent(r), \A b \in Elements(r) : b.kind # "redacted"
  PROVE  Quiet("ollama", OllamaWire(r))
<1>1. PICK X : X = Elements(r) /\ r \in Seq(X)
  BY DEF Sent, IsSequence
<1>2. \A b \in X : b.kind \in {"text", "thought", "call"} /\ b.size \in Nat
  BY <1>1 DEF Sent, Kinds
<1>3. \A c : c.k \in {"content", "thinking", "call", "done"} => Knows("ollama", c) /\ Mark("chunks", c) = {}
  BY DEF Knows, Mark
<1>4. \A c : c.k \in {"content", "thinking", "call", "done"} => Quiet("ollama", <<c>>)
  <2> SUFFICES ASSUME NEW c, c.k \in {"content", "thinking", "call", "done"} PROVE Quiet("ollama", <<c>>)
    OBVIOUS
  <2>1. Knows("ollama", c) /\ Mark("chunks", c) = {}
    BY <1>3
  <2> QED
    BY <2>1, QuietJoin
<1>5. ASSUME NEW b \in X PROVE Quiet("ollama", LineChunks(b))
  <2>1. Quiet("ollama", ChatText("content", b)) /\ Quiet("ollama", ChatText("thinking", b))
    <3>1. \A c : c.k = "content" => Knows("ollama", c)
      BY <1>3
    <3>2. \A c : c.k = "thinking" => Knows("ollama", c)
      BY <1>3
    <3>3. Quiet("ollama", ChatText("content", b))
      BY <1>2, <3>1, TextRun
    <3>4. Quiet("ollama", ChatText("thinking", b))
      BY <1>2, <3>2, TextRun
    <3> QED
      BY <3>3, <3>4
  <2>2. PICK c : c = CallPart(b) /\ Quiet("ollama", <<c>>)
    <3>1. CallPart(b).k = "call"
      BY DEF CallPart
    <3> QED
      BY <1>4, <3>1
  <2>3. \/ LineChunks(b) = ChatText("content", b) \/ LineChunks(b) = ChatText("thinking", b)
        \/ LineChunks(b) = <<c>>
    <3>1. b.kind = "text" \/ b.kind = "thought" \/ b.kind = "call"
      BY <1>2
    <3> QED
      BY <2>2, <3>1 DEF LineChunks
  <2> QED
    BY <2>1, <2>2, <2>3
<1>6. PICK h : h = LinePieces(X)
  OBVIOUS
<1>7. h = [b \in X |-> h[b]] /\ \A b \in X : h[b] = LineChunks(b)
  BY <1>6 DEF LinePieces
<1>8. PICK s, c : s = FlatMap(h, r) /\ c = [k |-> "done", reason |-> "stop"]
  OBVIOUS
<1>9. Quiet("ollama", s)
  BY <1>1, <1>5, <1>7, <1>8, QuietMapped
<1>10. Quiet("ollama", <<c>>)
  BY <1>4, <1>8
<1>11. OllamaWire(r) = Append(s, c)
  BY <1>1, <1>6, <1>8, OllamaSends
<1> QED
  BY <1>9, <1>10, <1>11, QuietAppend

(* Any dialect *)

\* Whatever a server sends ends each call or block once.
LEMMA WireFlow ==
  ASSUME NEW d \in DialectNames, NEW r, Sent(r), d # "anthropic" => \A b \in Elements(r) : b.kind # "redacted",
         NEW w \in Wires(d, r)
  PROVE  Flow(d, w)
<1>1. CASE d = "chat"
  <2>1. PICK woven \in BOOLEAN : w = ChatWire(r, woven)
    BY <1>1 DEF Wires
  <2>2. Quiet("chat", ChatWire(r, woven))
    BY <1>1, ChatBegins
  <2> QED
    BY <1>1, <2>1, <2>2 DEF Quiet
<1>2. CASE d = "responses"
  <2>1. w = ResponsesWire(r)
    BY <1>2 DEF Wires
  <2> QED
    BY <1>2, <2>1, ResponsesBegins
<1>3. CASE d = "anthropic"
  <2>1. w = AnthropicWire(r)
    BY <1>3 DEF Wires
  <2> QED
    BY <1>3, <2>1, AnthropicBegins
<1>4. CASE d = "gemini"
  <2>1. w = GeminiWire(r)
    BY <1>4 DEF Wires
  <2> QED
    BY <1>4, <2>1, GeminiBegins DEF Quiet
<1>5. CASE d = "ollama"
  <2>1. w = OllamaWire(r)
    BY <1>5 DEF Wires
  <2> QED
    BY <1>5, <2>1, OllamaBegins DEF Quiet
<1> QED
  BY <1>1, <1>2, <1>3, <1>4, <1>5 DEF DialectNames

\* The states the decoders start in.
LEMMA StartOK == ASSUME NEW d \in DialectNames PROVE StateOK(d, Start(d), {})
<1>1. IsSequence(<<>>) /\ Elements(<<>>) = {} /\ Len(<<>>) = 0
  BY EmptySeq DEF IsSequence, Elements
<1>2. ChatOK(ChatStart)
  <2>1. PICK st : st = ChatStart
    OBVIOUS
  <2>2. st = [calls |-> st.calls, stop |-> st.stop, usage |-> st.usage] /\ st.calls = <<>>
    BY <2>1 DEF ChatStart
  <2> QED
    BY <1>1, <2>1, <2>2 DEF ChatOK
<1>3. ResponsesOK(ResponsesStart)
  BY <1>1 DEF ResponsesOK, ResponsesStart
<1>4. AnthropicOK(AnthropicStart)
  BY <1>1 DEF AnthropicOK, AnthropicStart
<1>5. GeminiOK(GeminiStart) /\ Counted(GeminiStart.next, {})
  BY DEF GeminiOK, GeminiStart, Counted
<1>6. OllamaOK(OllamaStart) /\ Counted(OllamaStart.next, {})
  BY DEF OllamaOK, OllamaStart, Counted
<1>7. CASE d = "chat"
  BY <1>2, <1>7 DEF Start, StateOK
<1>8. CASE d = "responses"
  BY <1>3, <1>8 DEF Start, StateOK
<1>9. CASE d = "anthropic"
  BY <1>4, <1>9 DEF Start, StateOK
<1>10. CASE d = "gemini"
  BY <1>5, <1>10 DEF Start, StateOK
<1>11. CASE d = "ollama"
  BY <1>6, <1>11 DEF Start, StateOK
<1> QED
  BY <1>7, <1>8, <1>9, <1>10, <1>11 DEF DialectNames

\* A chunk of any dialect completes at most calls that were not complete before.
LEMMA PumpDecodes ==
  ASSUME NEW d \in DialectNames, NEW st, NEW used, StateOK(d, st, used), NEW c, Knows(d, c),
         d \in {"responses", "anthropic"} => Mark("chunks", c) \cap used = {}
  PROVE  Decodes(d, used, c, Pump(d, st, c))
<1>1. CASE d = "chat"
  BY <1>1, ChatDecodes DEF Pump
<1>2. CASE d = "responses"
  BY <1>2, ResponsesDecodes DEF Pump
<1>3. CASE d = "anthropic"
  BY <1>3, AnthropicDecodes DEF Pump
<1>4. CASE d = "gemini"
  BY <1>4, GeminiDecodes DEF Pump
<1>5. CASE d = "ollama"
  BY <1>5, OllamaDecodes DEF Pump
<1> QED
  BY <1>1, <1>2, <1>3, <1>4, <1>5 DEF DialectNames

\* What is sent when the reply is cut at the token limit.
LEMMA CutFlow ==
  ASSUME NEW d \in DialectNames, NEW w, Flow(d, w), w # <<>>
  PROVE  Flow(d, CutShort(d, w)) /\ Stops(CutShort(d, w)) \subseteq Stops(w)
<1>1. CASE d = "chat"
  BY <1>1, ChatEndQuiet DEF CutShort, Quiet
<1>2. ASSUME NEW c, CutShort(d, w) = <<c>>, Quiet(d, <<c>>)
      PROVE  Flow(d, CutShort(d, w)) /\ Stops(CutShort(d, w)) \subseteq Stops(w)
  BY <1>2 DEF Quiet
<1>3. CASE d = "responses"
  <2>1. PICK c : c = [k |-> "incomplete"]
    OBVIOUS
  <2>2. Knows(d, c) /\ Mark("chunks", c) = {}
    BY <1>3, <2>1 DEF Knows, Mark
  <2>3. CutShort(d, w) = <<c>>
    BY <1>3, <2>1 DEF CutShort
  <2> QED
    BY <1>2, <1>3, <2>2, <2>3, QuietJoin
<1>4. CASE d = "gemini"
  <2>1. PICK c : c = [k |-> "finish", reason |-> "MAX_TOKENS"]
    OBVIOUS
  <2>2. Knows(d, c) /\ Mark("chunks", c) = {}
    BY <1>4, <2>1 DEF Knows, Mark
  <2>3. CutShort(d, w) = <<c>>
    BY <1>4, <2>1 DEF CutShort
  <2> QED
    BY <1>2, <1>4, <2>2, <2>3, QuietJoin
<1>5. CASE d = "ollama"
  <2>1. PICK c : c = [k |-> "done", reason |-> "length"]
    OBVIOUS
  <2>2. Knows(d, c) /\ Mark("chunks", c) = {}
    BY <1>5, <2>1 DEF Knows, Mark
  <2>3. CutShort(d, w) = <<c>>
    BY <1>5, <2>1 DEF CutShort
  <2> QED
    BY <1>2, <1>5, <2>2, <2>3, QuietJoin
<1>6. CASE d = "anthropic"
  <2>1. PICK h : h = Head(w) /\ Knows("anthropic", h)
    BY <1>6, FlowTail
  <2>2. PICK c : c = [k |-> "message_delta", reason |-> "max_tokens"]
    OBVIOUS
  <2>3. Knows("anthropic", c) /\ Mark("chunks", c) = {} /\ c.k \notin InsideKinds
    BY <2>2 DEF Knows, Mark, InsideKinds
  <2>4. PICK q : q = <<c>> /\ Flow("anthropic", q) /\ Stops(q) = {}
    BY <2>3, OneChunk
  <2>5. CASE "index" \in DOMAIN h /\ h.k # "content_block_start"
    <3>1. PICK s : s = [k |-> "content_block_stop", index |-> h.index]
      OBVIOUS
    <3>2. s.k = "content_block_stop" /\ "index" \in DOMAIN s /\ s.index = h.index
      BY <3>1
    <3>3. Knows("anthropic", s) /\ Mark("chunks", s) = {<<"id", h.index>>}
      BY <3>2 DEF Knows, Mark, InsideKinds
    <3>4. PICK p : p = <<s>>
      OBVIOUS
    <3>5. 1 .. Len(p) = {1} /\ p[1] = s
      BY <3>4
    <3>6. Ended(p)
      BY <3>2, <3>3, <3>5 DEF Ended
    <3>7. Carries("chunks", p, {<<"id", h.index>>})
      BY <3>3, <3>4, CarriesSome
    <3>8. Stops(p) = {<<"id", h.index>>}
      BY <3>7 DEF Carries, Stops
    <3>9. \A x \in Elements(p) : Knows("anthropic", x)
      BY <3>3, <3>5 DEF Elements
    <3>10. Flow("anthropic", p)
      BY <3>6, <3>7, <3>8, <3>9 DEF Flow
    <3>11. Flow("anthropic", p \o q) /\ Stops(p \o q) = Stops(p) \cup Stops(q)
      BY <2>4, <3>10, FlowJoin
    <3>12. CutShort(d, w) = p \o q
      BY <1>6, <2>1, <2>2, <2>4, <2>5, <3>1, <3>4 DEF CutShort, When
    <3>13. <<"id", h.index>> \in Stops(w)
      <4>1. h.k \in InsideKinds
        BY <2>1, <2>5 DEF Knows
      <4>2. PICK E, g : E = Elements(w) /\ w \in Seq(E) /\ g = Marks("chunks", E) /\ Ended(w)
        BY <1>6 DEF Flow, Carries, IsSequence
      <4>3. Len(w) \in Nat /\ Len(w) > 0 /\ w[1] = h
        BY <2>1, <4>2
      <4>4. PICK j \in 1 .. Len(w) : <<"id", h.index>> \in Mark("chunks", w[j])
        BY <4>1, <4>2, <4>3 DEF Ended
      <4>5. g[w[j]] = Mark("chunks", w[j])
        BY <4>2, <4>4 DEF Marks, Elements
      <4> QED
        BY <4>2, <4>4, <4>5 DEF Stops, Marked, MarksOf
    <3> QED
      BY <1>6, <2>4, <3>8, <3>11, <3>12, <3>13
  <2>6. CASE ~("index" \in DOMAIN h /\ h.k # "content_block_start")
    <3>1. CutShort(d, w) = <<>> \o q
      BY <1>6, <2>1, <2>2, <2>4, <2>6 DEF CutShort, When
    <3>2. Flow("anthropic", <<>>) /\ Stops(<<>>) = {}
      BY FlowEmpty
    <3>3. Flow("anthropic", <<>> \o q) /\ Stops(<<>> \o q) = Stops(<<>>) \cup Stops(q)
      BY <2>4, <3>2, FlowJoin
    <3> QED
      BY <1>6, <2>4, <3>1, <3>2, <3>3
  <2> QED
    BY <2>5, <2>6
<1> QED
  BY <1>1, <1>3, <1>4, <1>5, <1>6 DEF DialectNames

\* The blocks of a reply have places of their own.
LEMMA NumberedSent ==
  ASSUME NEW r \in Seq(Blocks), NEW d, Speaks(d, r)
  PROVE  /\ Sent(Numbered(r))
         /\ d # "anthropic" => \A b \in Elements(Numbered(r)) : b.kind # "redacted"
<1>1. PICK n \in Nat : n = Len(r) /\ DOMAIN r = 1 .. n
  BY LenProperties
<1>2. \A i \in 1 .. n : r[i].kind \in Kinds /\ r[i].size \in Nat
  <2>1. \A i \in 1 .. n : r[i] \in Blocks
    BY <1>1, ElementOfSeq
  <2> QED
    BY <2>1 DEF Blocks, Kinds
<1>3. PICK s : s = Numbered(r)
  OBVIOUS
<1>4. /\ s = [i \in 1 .. n |-> s[i]]
      /\ \A i \in 1 .. n : s[i].kind = r[i].kind /\ s[i].size = r[i].size /\ s[i].at = <<turn, i>>
  BY <1>1, <1>3 DEF Numbered
<1>5. IsSequence(s) /\ Len(s) = n /\ \A c \in Elements(s) : \E p \in 1 .. n : c = s[p]
  BY <1>4, RunSequence
<1>6. \A b \in Elements(s) : b.kind \in Kinds /\ b.size \in Nat
  BY <1>2, <1>4, <1>5
<1>7. \A i, j \in 1 .. Len(s) : s[i].at = s[j].at => i = j
  BY <1>4, <1>5
<1>8. d # "anthropic" => \A b \in Elements(s) : b.kind # "redacted"
  <2>1. d # "anthropic" => \A i \in 1 .. n : r[i].kind # "redacted"
    BY <1>1 DEF Speaks
  <2> QED
    BY <1>4, <1>5, <2>1
<1> QED
  BY <1>3, <1>5, <1>6, <1>7, <1>8 DEF Sent
-----------------------------------------------------------------------------
(* Calls and answers over a conversation                                   *)

(* The stream and the accumulator *)

\* What the decoder may still do, when the calls `used' were reported.
Pending(d, st, w, used) ==
    /\ StateOK(d, st, used) /\ Flow(d, w)
    /\ d \in {"responses", "anthropic"} => Stops(w) \cap used = {}

\* No call is reported twice: neither one that was taken over nor one that waits.
Streams(d, a, o, p, w) ==
    /\ p = [st |-> p.st, done |-> p.done]
    /\ Reports(o, Marked("events", o)) /\ Marked("events", o) \cap Ids(a.calls) = {}
    /\ ~p.done => Pending(d, p.st, w, Ids(a.calls) \cup Marked("events", o))

\* A stream is well when its events report calls not taken over yet.
LEMMA StreamsIf ==
  ASSUME NEW d, NEW a, NEW o, NEW p, NEW w, NEW ids, p = [st |-> p.st, done |-> p.done],
         Reports(o, ids), ids \cap Ids(a.calls) = {},
         ~p.done => Pending(d, p.st, w, Ids(a.calls) \cup ids)
  PROVE  Streams(d, a, o, p, w)
<1>1. ids = Marked("events", o)
  BY DEF Reports, Carries
<1> QED
  BY <1>1 DEF Streams

\* One more call.
LEMMA IdsAppend ==
  ASSUME NEW s, IsSequence(s), IdsOnce(s), NEW c, c.id \notin Ids(s)
  PROVE  IdsOnce(Append(s, c)) /\ Ids(Append(s, c)) = Ids(s) \cup {c.id}
<1>1. PICK Z : s \in Seq(Z) /\ c \in Z
  BY InLarger
<1>2. PICK n, t : n = Len(s) /\ n \in Nat /\ t = Append(s, c)
  BY <1>1, LenProperties
<1>3. Len(t) = n + 1 /\ t[n + 1] = c /\ \A i \in 1 .. n : t[i] = s[i]
  BY <1>1, <1>2, AppendProperties
<1>4. \A i \in 1 .. n + 1 : i \in 1 .. n \/ i = n + 1
  BY <1>2
<1>5. \A i \in 1 .. n : t[i].id \in Ids(s) /\ t[i].id # c.id
  BY <1>2, <1>3 DEF Ids
<1>6. IdsOnce(t)
  <2> SUFFICES ASSUME NEW i \in 1 .. n + 1, NEW j \in 1 .. n + 1, t[i].id = t[j].id PROVE i = j
    BY <1>3 DEF IdsOnce
  <2>1. CASE i \in 1 .. n /\ j \in 1 .. n
    BY <1>2, <1>3, <2>1 DEF IdsOnce
  <2> QED
    BY <1>3, <1>4, <1>5, <2>1
<1>7. Ids(t) = {t[i].id : i \in 1 .. n + 1}
  BY <1>3 DEF Ids
<1>8. \A x \in Ids(s) : \E i \in 1 .. n : x = t[i].id
  BY <1>2, <1>3 DEF Ids
<1>9. \A i \in 1 .. n : i \in 1 .. n + 1
  BY <1>2
<1>10. n + 1 \in 1 .. n + 1
  BY <1>2
<1>11. Ids(t) \subseteq Ids(s) \cup {c.id}
  BY <1>3, <1>4, <1>5, <1>7
<1>12. Ids(s) \cup {c.id} \subseteq Ids(t)
  BY <1>3, <1>7, <1>8, <1>9, <1>10
<1> QED
  BY <1>2, <1>6, <1>11, <1>12

\* The last element, and those before.
LEMMA AppendAt ==
  ASSUME NEW Z, NEW s \in Seq(Z), NEW x \in Z, NEW n, n = Len(s), NEW t, t = Append(s, x)
  PROVE  Len(t) = n + 1 /\ t[n + 1] = x /\ \A i \in 1 .. n : t[i] = s[i]
BY AppendProperties

\* One more call, with its part.
LEMMA AgreeAppend ==
  ASSUME NEW a, AccShape(a), NEW t, CallsAgree(a, t), NEW b, NEW p, NEW c,
         OfKind(b, "call") = Append(OfKind(a, "call"), p), b.calls = Append(a.calls, c),
         p.id = c.id, p.of = <<t, Len(a.calls) + 1>>
  PROVE  CallsAgree(b, t)
<1>1. PICK q, s : q = OfKind(a, "call") /\ s = a.calls /\ IsSequence(q) /\ IsSequence(s)
  BY CallsType DEF AccShape
<1>2. PICK X, Y : q \in Seq(X) /\ p \in X /\ s \in Seq(Y) /\ c \in Y
  BY <1>1, InLarger
<1>3. PICK n \in Nat : n = Len(q) /\ n = Len(s)
  BY <1>1, <1>2, LenProperties DEF CallsAgree
<1>4. \A i \in 1 .. n : q[i].id = s[i].id /\ q[i].of = <<t, i>>
  BY <1>1, <1>3 DEF CallsAgree
<1>5. PICK q2, s2 : q2 = Append(q, p) /\ s2 = Append(s, c)
  OBVIOUS
<1>6. /\ Len(q2) = n + 1 /\ q2[n + 1] = p /\ \A i \in 1 .. n : q2[i] = q[i]
      /\ Len(s2) = n + 1 /\ s2[n + 1] = c /\ \A i \in 1 .. n : s2[i] = s[i]
  <2>1. Len(q2) = n + 1 /\ q2[n + 1] = p /\ \A i \in 1 .. n : q2[i] = q[i]
    <3>1. q \in Seq(X)
      BY <1>2
    <3>2. p \in X
      BY <1>2
    <3>3. n = Len(q)
      BY <1>3
    <3>4. q2 = Append(q, p)
      BY <1>5
    <3> QED
      BY ONLY <3>1, <3>2, <3>3, <3>4, AppendAt
  <2>2. Len(s2) = n + 1 /\ s2[n + 1] = c /\ \A i \in 1 .. n : s2[i] = s[i]
    BY <1>2, <1>3, <1>5, AppendAt
  <2> QED
    BY <2>1, <2>2
<1>7. \A i \in 1 .. n + 1 : i \in 1 .. n \/ i = n + 1
  BY <1>3
<1>8. p.of = <<t, n + 1>>
  BY <1>1, <1>3
<1>9. \A i \in 1 .. n + 1 : q2[i].id = s2[i].id /\ q2[i].of = <<t, i>>
  BY <1>4, <1>6, <1>7, <1>8
<1>10. OfKind(b, "call") = q2 /\ b.calls = s2
  BY <1>1, <1>5
<1> QED
  BY <1>6, <1>9, <1>10 DEF CallsAgree

\* The accumulator of a new stream.
LEMMA NothingAgrees == ASSUME NEW t PROVE CallsAgree(Nothing, t) /\ IdsOnce(Nothing.calls) /\ Ids(Nothing.calls) = {}
<1>0. PICK a : a = Nothing
  OBVIOUS
<1>1. a = Nothing /\ a.parts = <<>> /\ a.calls = <<>>
  BY <1>0 DEF Nothing
<1>2. OfKind(a, "call") = <<>>
  <2>1. <<>> \in Seq({})
    BY EmptySeq
  <2>2. OfKind(a, "call") = FlatMap(Keep({}, {p \in {} : p.kind = "call"}), <<>>)
    BY <1>1, <2>1, OfKindKept
  <2> QED
    BY <2>2, FlatMapEmpty
<1>3. Len(<<>>) = 0 /\ 1 .. 0 = {}
  OBVIOUS
<1> QED
  BY <1>1, <1>2, <1>3 DEF CallsAgree, IdsOnce, Ids

\* The loop takes an event.
LEMMA TakenKept ==
  ASSUME NEW d, NEW a, AccShape(a), CallsAgree(a, turn), IdsOnce(a.calls), NEW o, NEW p, NEW w,
         Streams(d, a, o, p, w), o # <<>>, NEW b, b = Consume(a, Head(o))
  PROVE  CallsAgree(b, turn) /\ IdsOnce(b.calls) /\ Streams(d, b, Tail(o), p, w)
<1>1. PICK ids : /\ ids = Marked("events", o) /\ Reports(o, ids) /\ ids \cap Ids(a.calls) = {}
                 /\ p = [st |-> p.st, done |-> p.done]
                 /\ ~p.done => Pending(d, p.st, w, Ids(a.calls) \cup ids)
  BY DEF Streams
<1>2. PICK e, u : e = Head(o) /\ u = Tail(o)
  OBVIOUS
<1>3. PICK rest : /\ Reports(u, rest) /\ ids = Mark("events", e) \cup rest
                  /\ Mark("events", e) \cap rest = {}
  <2>1. Carries("events", o, ids)
    BY <1>1 DEF Reports
  <2>2. \E x : /\ Carries("events", Tail(o), x) /\ ids = Mark("events", Head(o)) \cup x
               /\ Mark("events", Head(o)) \cap x = {}
    BY ONLY <2>1, o # <<>>, CarriesTail
  <2> QED
    BY <1>2, <2>2 DEF Reports
<1>4. CASE e.type # "tool_call_end"
  <2>1. OfKind(b, "call") = OfKind(a, "call") /\ b.calls = a.calls
    BY <1>2, <1>4, ConsumeOther
  <2>2. ids = rest
    BY <1>3, <1>4 DEF Mark
  <2>3. Streams(d, b, u, p, w)
    BY <1>1, <1>3, <2>1, <2>2, StreamsIf
  <2> QED
    BY <1>2, <2>1, <2>3 DEF CallsAgree
<1>5. CASE e.type = "tool_call_end"
  <2>1. PICK q, c : /\ OfKind(b, "call") = Append(OfKind(a, "call"), q) /\ b.calls = Append(a.calls, c)
                    /\ q.id = e.id /\ c.id = e.id /\ q.of = <<turn, Len(a.calls) + 1>>
    <3>1. \E q, c : /\ OfKind(Consume(a, e), "call") = Append(OfKind(a, "call"), q)
                    /\ Consume(a, e).calls = Append(a.calls, c)
                    /\ q.id = e.id /\ c.id = e.id /\ q.of = <<turn, Len(a.calls) + 1>>
      BY ONLY AccShape(a), <1>5, ConsumeCall
    <3> QED
      BY <1>2, <3>1
  <2>2. ids = {e.id} \cup rest /\ e.id \notin rest
    BY <1>3, <1>5 DEF Mark
  <2>3. CallsAgree(b, turn)
    BY <2>1, AgreeAppend
  <2>4. e.id \notin Ids(a.calls) /\ rest \cap Ids(a.calls) = {}
    BY <1>1, <2>2
  <2>5. IdsOnce(b.calls) /\ Ids(b.calls) = Ids(a.calls) \cup {e.id}
    <3>1. PICK s : s = a.calls /\ IsSequence(s)
      BY DEF AccShape
    <3>2. IdsOnce(s) /\ c.id \notin Ids(s)
      BY <2>1, <2>4, <3>1
    <3>3. IdsOnce(Append(s, c)) /\ Ids(Append(s, c)) = Ids(s) \cup {c.id}
      BY ONLY <3>1, <3>2, IdsAppend
    <3> QED
      BY <2>1, <3>1, <3>3
  <2>6. rest \cap Ids(b.calls) = {} /\ Ids(b.calls) \cup rest = Ids(a.calls) \cup ids
    BY <2>2, <2>4, <2>5
  <2>7. Streams(d, b, u, p, w)
    BY <1>1, <1>3, <2>6, StreamsIf
  <2> QED
    BY <1>2, <2>3, <2>5, <2>7
<1> QED
  BY <1>4, <1>5

\* The decoder reads a chunk.
LEMMA ReadKept ==
  ASSUME NEW d \in DialectNames, NEW a, NEW p, NEW w, Streams(d, a, <<>>, p, w), ~p.done, w # <<>>,
         NEW r, r = Pump(d, p.st, Head(w))
  PROVE  Streams(d, a, r.events, [p EXCEPT !.st = r.st], Tail(w))
<1>1. PICK used : used = Ids(a.calls) /\ Pending(d, p.st, w, used) /\ p = [st |-> p.st, done |-> p.done]
  <2>1. Reports(<<>>, {})
    BY ReportsQuiet
  <2>2. Marked("events", <<>>) = {}
    BY <2>1 DEF Reports, Carries
  <2>3. Ids(a.calls) \cup {} = Ids(a.calls)
    OBVIOUS
  <2> QED
    BY <2>2, <2>3 DEF Streams
<1>2. PICK c, v : c = Head(w) /\ v = Tail(w)
  OBVIOUS
<1>3. /\ Flow(d, v) /\ Knows(d, c) /\ Stops(w) = Mark("chunks", c) \cup Stops(v)
      /\ Mark("chunks", c) \cap Stops(v) = {}
  BY <1>1, <1>2, FlowTail DEF Pending
<1>4. d \in {"responses", "anthropic"} => (Mark("chunks", c) \cup Stops(v)) \cap used = {}
  BY <1>1, <1>3 DEF Pending
<1>5. StateOK(d, p.st, used)
  BY <1>1 DEF Pending
<1>6. Decodes(d, used, c, r)
  BY <1>2, <1>3, <1>4, <1>5, PumpDecodes
<1>7. PICK ids : /\ Reports(r.events, ids) /\ ids \cap used = {} /\ StateOK(d, r.st, used \cup ids)
                 /\ d \in {"responses", "anthropic"} => ids \subseteq Mark("chunks", c)
  BY <1>6 DEF Decodes
<1>8. d \in {"responses", "anthropic"} => Stops(v) \cap (used \cup ids) = {}
  BY <1>3, <1>4, <1>7
<1>9. Pending(d, r.st, v, used \cup ids)
  BY <1>3, <1>7, <1>8 DEF Pending
<1>10. PICK q : q = [p EXCEPT !.st = r.st]
  OBVIOUS
<1>11. q = [st |-> q.st, done |-> q.done] /\ q.st = r.st
  BY <1>1, <1>10
<1> QED
  BY <1>1, <1>2, <1>7, <1>9, <1>10, <1>11, StreamsIf

\* The decoder produces its last events.
LEMMA EndKept ==
  ASSUME NEW d, NEW a, NEW o, NEW p, NEW w, NEW v, Streams(d, a, <<>>, p, w), NEW ids, Reports(o, ids),
         ids \cap Ids(a.calls) = {}
  PROVE  Streams(d, a, o, [p EXCEPT !.done = TRUE], v)
<1>1. p = [st |-> p.st, done |-> p.done]
  BY DEF Streams
<1>2. PICK q : q = [p EXCEPT !.done = TRUE]
  OBVIOUS
<1>3. q = [st |-> q.st, done |-> q.done] /\ q.done
  BY <1>1, <1>2
<1> QED
  BY <1>2, <1>3, StreamsIf

\* The stream when all of its events were taken.
LEMMA EmptyOut ==
  ASSUME NEW d, NEW a, NEW p, NEW w, Streams(d, a, <<>>, p, w)
  PROVE  /\ ~p.done => Pending(d, p.st, w, Ids(a.calls))
         /\ p = [st |-> p.st, done |-> p.done]
<1>1. Reports(<<>>, {})
  BY ReportsQuiet
<1>2. Marked("events", <<>>) = {}
  BY <1>1 DEF Reports, Carries
<1>3. Ids(a.calls) \cup {} = Ids(a.calls)
  OBVIOUS
<1> QED
  BY <1>2, <1>3 DEF Streams

(* The invariant *)

DialectInv   == phase \in {"asking", "streaming"} => dialect \in DialectNames /\ turn \in Turns
StreamInv    == phase = "streaming" => /\ CallsAgree(acc, turn) /\ IdsOnce(acc.calls)
                                       /\ Streams(dialect, acc, out, pump, wire)
ConversedInv == Conversed(history)
AnswersInv   == ShapeInv /\ DialectInv /\ StreamInv /\ ConversedInv

\* The stream of an answer begins well.
LEMMA AnswerKept == ASSUME DialectInv, Answer PROVE StreamInv'
<1>1. dialect \in DialectNames /\ turn \in DOMAIN Replies
  BY DEF DialectInv, Answer, Turns
<1>2. PICK r \in Replies[turn] : /\ Speaks(dialect, r) /\ reply' = Numbered(r)
                                 /\ wire' \in Wires(dialect, reply')
  BY DEF Answer
<1>3. r \in Seq(Blocks)
  BY <1>1, WireAssumption
<1>4. Sent(Numbered(r)) /\ (dialect # "anthropic" => \A b \in Elements(Numbered(r)) : b.kind # "redacted")
  BY <1>2, <1>3, NumberedSent
<1>5. PICK d, s, w : d = dialect /\ s = Numbered(r) /\ w = wire'
  OBVIOUS
<1>6. w \in Wires(d, s)
  BY <1>2, <1>5
<1>7. d \in DialectNames /\ Sent(s) /\ (d # "anthropic" => \A b \in Elements(s) : b.kind # "redacted")
  BY <1>1, <1>4, <1>5
<1>8. Flow(d, w)
  BY ONLY <1>6, <1>7, WireFlow
<1>9. PICK a, p, o, e, t : /\ a = Nothing /\ p = [st |-> Start(d), done |-> FALSE] /\ o = <<e>>
                           /\ e = [type |-> "message_start"] /\ t = turn
  OBVIOUS
<1>10. e.type # "tool_call_end"
  BY <1>9
<1>11. Reports(o, {})
  BY <1>9, <1>10, ReportsOne
<1>12. CallsAgree(a, t) /\ IdsOnce(a.calls) /\ Ids(a.calls) = {}
  BY <1>9, NothingAgrees
<1>13. p = [st |-> p.st, done |-> p.done] /\ p.st = Start(d)
  BY <1>9
<1>14. Pending(d, p.st, w, {})
  BY <1>7, <1>8, <1>13, StartOK DEF Pending
<1>15. Streams(d, a, o, p, w)
  <2>1. Ids(a.calls) \cup {} = {} /\ {} \cap Ids(a.calls) = {}
    BY <1>12
  <2> QED
    BY <1>11, <1>13, <1>14, <2>1, StreamsIf
<1>16. dialect' = d /\ acc' = a /\ out' = o /\ pump' = p /\ wire' = w /\ turn' = t
  BY <1>5, <1>9 DEF Answer
<1> QED
  BY <1>12, <1>15, <1>16 DEF StreamInv

\* Reading keeps the stream well.
LEMMA PumpKept ==
  ASSUME DialectInv, StreamInv, ReadChunk \/ ReadEnd \/ ReadFails \/ \E how \in {"eof", "length"} : EndsEarly(how)
  PROVE  StreamInv'
<1>1. PICK d, a, p, w, t : d = dialect /\ a = acc /\ p = pump /\ w = wire /\ t = turn
  OBVIOUS
<1>2. /\ phase = "streaming" /\ out = <<>> /\ ~p.done
      /\ dialect' = d /\ acc' = a /\ turn' = t
  BY <1>1 DEF ReadChunk, ReadEnd, ReadFails, EndsEarly, Reading
<1>3. d \in DialectNames /\ CallsAgree(a, t) /\ IdsOnce(a.calls) /\ Streams(d, a, <<>>, p, w)
  BY <1>1, <1>2 DEF DialectInv, StreamInv
<1>4. Pending(d, p.st, w, Ids(a.calls)) /\ p = [st |-> p.st, done |-> p.done]
  BY <1>2, <1>3, EmptyOut
<1>5. PICK o, q, v : o = out' /\ q = pump' /\ v = wire'
  OBVIOUS
<1>6. Streams(d, a, o, q, v)
  <2>1. CASE ReadChunk
    <3>1. PICK r : r = Pump(d, p.st, Head(w))
      OBVIOUS
    <3>2. w # <<>> /\ o = r.events /\ q = [p EXCEPT !.st = r.st] /\ v = Tail(w)
      BY <1>1, <1>5, <2>1, <3>1 DEF ReadChunk
    <3>3. Streams(d, a, r.events, [p EXCEPT !.st = r.st], Tail(w))
      BY ONLY <1>2, <1>3, <3>1, <3>2, ReadKept
    <3> QED
      BY <3>2, <3>3
  <2>2. CASE ReadEnd
    <3>1. o = Finish(d, p.st) /\ q = [p EXCEPT !.done = TRUE]
      BY <1>1, <1>5, <2>2 DEF ReadEnd
    <3>2. \E ids : Reports(Finish(d, p.st), ids) /\ ids \cap Ids(a.calls) = {}
      <4>1. StateOK(d, p.st, Ids(a.calls))
        BY <1>4 DEF Pending
      <4> QED
        BY <1>3, <4>1, FinishReports
    <3>3. PICK ids : Reports(o, ids) /\ ids \cap Ids(a.calls) = {}
      BY <3>1, <3>2
    <3>4. Streams(d, a, o, [p EXCEPT !.done = TRUE], v)
      BY ONLY <1>3, <3>3, EndKept
    <3> QED
      BY <3>1, <3>4
  <2>3. CASE ReadFails
    <3>1. PICK e : e = [type |-> "error"]
      OBVIOUS
    <3>2. o = <<e>> /\ q = [p EXCEPT !.done = TRUE] /\ e.type # "tool_call_end"
      BY <1>1, <1>5, <2>3, <3>1 DEF ReadFails, Breaks
    <3>3. Reports(o, {}) /\ {} \cap Ids(a.calls) = {}
      BY <3>2, ReportsOne
    <3>4. Streams(d, a, o, [p EXCEPT !.done = TRUE], v)
      BY ONLY <1>3, <3>3, EndKept
    <3> QED
      BY <3>2, <3>4
  <2>4. CASE \E how \in {"eof", "length"} : EndsEarly(how)
    <3>1. w # <<>> /\ (v = <<>> \/ v = CutShort(d, w)) /\ q = p /\ o = <<>>
      BY <1>1, <1>2, <1>5, <2>4 DEF EndsEarly
    <3>2. Flow(d, w)
      BY <1>4 DEF Pending
    <3>3. Flow(d, v) /\ Stops(v) \subseteq Stops(w)
      <4>1. Flow(d, <<>>) /\ Stops(<<>>) \subseteq Stops(w)
        BY FlowEmpty
      <4>2. Flow(d, CutShort(d, w)) /\ Stops(CutShort(d, w)) \subseteq Stops(w)
        BY <1>3, <3>1, <3>2, CutFlow
      <4> QED
        BY <3>1, <4>1, <4>2
    <3>4. Pending(d, p.st, v, Ids(a.calls))
      BY <1>4, <3>3 DEF Pending
    <3>5. Reports(<<>>, {}) /\ {} \cap Ids(a.calls) = {} /\ Ids(a.calls) \cup {} = Ids(a.calls)
      BY ReportsQuiet
    <3> QED
      BY <1>4, <3>1, <3>4, <3>5, StreamsIf
  <2> QED
    BY <2>1, <2>2, <2>3, <2>4
<1> QED
  BY <1>2, <1>3, <1>5, <1>6 DEF StreamInv

\* Taking an event keeps the stream well.
LEMMA DeliverKept == ASSUME ShapeInv, StreamInv, Deliver PROVE StreamInv'
<1>1. PICK d, a, o, p, w, b : /\ d = dialect /\ a = acc /\ o = out /\ p = pump /\ w = wire
                              /\ b = Consume(a, Head(o))
  OBVIOUS
<1>2. AccShape(a) /\ CallsAgree(a, turn) /\ IdsOnce(a.calls) /\ Streams(d, a, o, p, w) /\ o # <<>>
  BY <1>1 DEF ShapeInv, StreamInv, Deliver
<1>3. CallsAgree(b, turn) /\ IdsOnce(b.calls) /\ Streams(d, b, Tail(o), p, w)
  BY ONLY <1>1, <1>2, TakenKept
<1>4. PICK t, u : t = turn /\ u = Tail(o)
  OBVIOUS
<1>5. turn' = t /\ dialect' = d /\ acc' = b /\ out' = u /\ pump' = p /\ wire' = w
  BY <1>1, <1>4 DEF Deliver
<1>6. CallsAgree(b, t) /\ IdsOnce(b.calls) /\ Streams(d, b, u, p, w)
  BY <1>3, <1>4
<1> QED
  BY <1>5, <1>6 DEF StreamInv

\* A turn's end puts the message and its results into the conversation.
LEMMA CloseKept ==
  ASSUME ShapeInv, StreamInv, ConversedInv, Close
  PROVE  ConversedInv'
<1>1. Conversed(history \o When(Message # <<>>, [role |-> "assistant", parts |-> Message, from |-> dialect])
                           \o (IF acc.calls = <<>> THEN <<User>> ELSE Results))
  BY CloseConversed DEF ShapeInv, StreamInv, ConversedInv, Close
<1>2. PICK h : /\ h = history \o When(Message # <<>>, [role |-> "assistant", parts |-> Message, from |-> dialect])
                             \o (IF acc.calls = <<>> THEN <<User>> ELSE Results)
               /\ Conversed(h)
  BY <1>1
<1>3. history' = h
  BY <1>2 DEF Close
<1> QED
  BY <1>2, <1>3 DEF ConversedInv

\* Every step keeps the invariant.
LEMMA AnswersNext == AnswersInv /\ [WireNext]_wireVars => AnswersInv'
<1> SUFFICES ASSUME AnswersInv, [WireNext]_wireVars PROVE AnswersInv'
  OBVIOUS
<1>1. ShapeInv /\ DialectInv /\ StreamInv /\ ConversedInv
  BY DEF AnswersInv
<1>2. ShapeInv'
  BY <1>1, ShapeNext
<1>3. DialectInv'
  BY <1>1 DEF DialectInv, WireNext, wireVars, stream, Turns, Ask, AttemptFails, AskFails, Answer, ReadChunk,
     ReadEnd, ReadFails, EndsEarly, Reading, Deliver, DeliverError, Close, Cancel
<1>4. StreamInv'
  <2>1. CASE Answer
    BY <1>1, <2>1, AnswerKept
  <2>2. CASE ReadChunk \/ ReadEnd \/ ReadFails \/ EndsEarly("eof") \/ EndsEarly("length")
    BY <1>1, <2>2, PumpKept
  <2>3. CASE Deliver
    BY <1>1, <2>3, DeliverKept
  <2>4. CASE phase' # "streaming"
    BY <2>4 DEF StreamInv
  <2>5. CASE UNCHANGED <<phase, turn, dialect, acc, out, pump, wire>>
    BY <1>1, <2>5 DEF StreamInv
  <2>6. \/ Answer \/ ReadChunk \/ ReadEnd \/ ReadFails \/ EndsEarly("eof") \/ EndsEarly("length") \/ Deliver
        \/ phase' # "streaming" \/ UNCHANGED <<phase, turn, dialect, acc, out, pump, wire>>
    BY DEF WireNext, wireVars, stream, Ask, AttemptFails, AskFails, DeliverError, Close, Cancel
  <2> QED
    BY <2>1, <2>2, <2>3, <2>4, <2>5, <2>6
<1>5. ConversedInv'
  <2>1. CASE Close
    BY <1>1, <2>1, CloseKept
  <2>2. CASE history' = history
    BY <1>1, <2>2 DEF ConversedInv
  <2>3. Close \/ history' = history
    BY DEF WireNext, wireVars, Ask, AttemptFails, AskFails, Answer, ReadChunk, ReadEnd, ReadFails, EndsEarly,
       Deliver, DeliverError, Cancel
  <2> QED
    BY <2>1, <2>2, <2>3
<1> QED
  BY <1>2, <1>3, <1>4, <1>5 DEF AnswersInv

\* Over any number of turns, whichever provider answers each and whatever its stream does,
\* the next request of any dialect has one result for each call, right after the message
\* that makes them and in their order, and none besides; and each can be told by its id,
\* or by the name of its tool (the to... functions of each encoder; toolacc.go; the pumps;
\* assistantAccum).
THEOREM CallsAnswered == WireSpec => []AnswersFindTheirCalls
<1>1. WireInit => AnswersInv
  <2> SUFFICES ASSUME WireInit PROVE AnswersInv
    OBVIOUS
  <2>1. ShapeInv
    BY NothingShape, UserShape DEF WireInit, ShapeInv
  <2>2. ConversedInv
    BY NothingConversed DEF WireInit, ConversedInv
  <2>3. DialectInv /\ StreamInv
    BY DEF WireInit, DialectInv, StreamInv
  <2> QED
    BY <2>1, <2>2, <2>3 DEF AnswersInv
<1>2. AnswersInv => AnswersFindTheirCalls
  BY ConversationAnswered DEF AnswersInv, ShapeInv, ConversedInv, AnswersFindTheirCalls
<1> QED
  BY <1>1, <1>2, AnswersNext, PTL DEF WireSpec
=============================================================================
