---------------------------- MODULE TokenSource ----------------------------
(***************************************************************************)
(* oauth.TokenSource over a token store, as the codex provider uses it     *)
(* (providers/shared/oauth, providers/codex): goroutines that stream, each *)
(* with a token it asks for, one forced refresh after a 401 and the        *)
(* retries of the HTTP client; a login that stores credentials meanwhile;  *)
(* lost answers, failing saves and crashes of the process.                 *)
(*                                                                         *)
(* Tokens are numbered in the order in which the endpoint issued them, 0   *)
(* is the empty refresh token.  Account ids, scopes and the other data of  *)
(* the credentials are left out: nothing here depends on them.             *)
(***************************************************************************)
EXTENDS Integers, FiniteSets

CONSTANTS
    Callers,     \* goroutines that call Stream
    MaxRetries,  \* shared.Client.MaxRetries
    MaxTokens,   \* bound: tokens the endpoint issues
    None         \* no credentials, no lock holder

ASSUME TokenSourceAssumption ==
    /\ MaxRetries \in Nat
    /\ MaxTokens \in Nat \ {0}
    /\ None \notin Callers
    /\ None \notin [access : Nat, refresh : Nat]

VARIABLES
    store,   \* what the token store holds
    due,     \* the stored access token expires within RefreshSkew
    lock,    \* the caller that holds TokenSource.mu
    call,    \* where each caller's Stream is
    login,   \* the credentials of a login that has yet to decorate them
    \* the token endpoint
    live,    \* the refresh tokens the endpoint accepts
    issued,  \* the last token issued
    \* history
    losses   \* how newer credentials were kept from the store

server == <<issued, live>>
stored == <<store, due>>
vars == <<store, due, lock, call, login, issued, live, losses>>

-----------------------------------------------------------------------------
Tokens == 1 .. MaxTokens
Credentials == [access : Tokens, refresh : Tokens \cup {0}]

\* No Stream call: a caller's state before it and after it returns.
Idle == [pc         |-> "idle",
         attempt    |-> 1,      \* client.Stream's first or second call
         forced     |-> FALSE,  \* the refresh is ForceRefresh's
         refused    |-> 0,      \* the access token that was answered with a 401
         cred       |-> None,   \* what Load or Refresh returned
         tries      |-> 0]      \* shared.Client.Do's attempt

Returns(c) == call' = [call EXCEPT ![c] = Idle]

Init ==
    /\ store \in {None} \cup {[access |-> 1, refresh |-> r] : r \in {0, 1}}
    /\ due = FALSE
    /\ lock = None
    /\ call = [c \in Callers |-> Idle]
    /\ login = None
    /\ issued = 1 /\ live = {1}
    /\ losses = {}

-----------------------------------------------------------------------------
(* The provider and its token source.                                      *)

\* Stream builds a request; the authorizer asks for a token.
Stream(c) ==
    /\ call[c].pc = "idle"
    /\ call' = [call EXCEPT ![c].pc = "token"]
    /\ UNCHANGED <<stored, lock, login, server, losses>>

\* Authorize hands the token to the request, which is sent.
Authorized(c, cred) ==
    call' = [call EXCEPT ![c].pc = "sending", ![c].cred = cred, ![c].tries = 0]

\* The 401 that forces a refresh was an answer to the token refused, or 0 if
\* the token endpoint gave it.
Forces(c, refused) ==
    call' = [call EXCEPT ![c].pc = "forcing", ![c].forced = TRUE,
                         ![c].refused = refused, ![c].cred = None]

\* refreshLocked begins: the refresh token of what was loaded is presented.
Posts(c) ==
    /\ call' = [call EXCEPT ![c].pc = "posting", ![c].cred = store]
    /\ lock' = c

\* Mutant of Locked: Token and ForceRefresh do not exclude each other.
NotLocked(c) == TRUE

\* The mutex is held from Load to the end of Save.  Any Load may fail.
Locked(c) == lock = None

Token(c) ==
    /\ call[c].pc = "token" /\ Locked(c)
    /\ \/ /\ store # None /\ ~due
          /\ Authorized(c, store)
          /\ UNCHANGED lock
       \/ /\ store # None /\ due /\ store.refresh # 0
          /\ Posts(c)
       \/ Returns(c) /\ UNCHANGED lock
    /\ UNCHANGED <<stored, login, server, losses>>

\* After a 401.  If it fails, Stream returns the 401.
ForceRefresh(c) ==
    /\ call[c].pc = "forcing" /\ Locked(c)
    /\ \/ /\ store # None /\ store.refresh # 0
          /\ Posts(c)
       \/ Returns(c) /\ UNCHANGED lock
    /\ UNCHANGED <<stored, login, server, losses>>

\* The endpoint may replace the refresh token, which ends the old one.
Grants(old, rotated, new) ==
    /\ old \in live
    /\ issued < MaxTokens
    /\ new = issued + 1
    /\ issued' = new
    /\ live' = IF rotated THEN (live \ {old}) \cup {new} ELSE live

\* Refresh keeps the old refresh token when the answer has none.
Refreshed(c) ==
    /\ call[c].pc = "posting"
    /\ \E rotated \in BOOLEAN, new \in Tokens :
         /\ Grants(call[c].cred.refresh, rotated, new)
         /\ call' = [call EXCEPT ![c].pc = "saving",
                  ![c].cred = [access  |-> new,
                               refresh |-> IF rotated THEN new ELSE @.refresh]]
    /\ UNCHANGED <<stored, lock, login, losses>>

\* The endpoint rotates the token, and the answer is lost: the connection
\* breaks, it does not parse, or the caller's context ends.
AnswerLost(c) ==
    /\ call[c].pc = "posting"
    /\ \E new \in Tokens : Grants(call[c].cred.refresh, TRUE, new)
    /\ losses' = losses \cup {"answer"}
    /\ Returns(c)
    /\ lock' = None
    /\ UNCHANGED <<stored, login>>

\* The endpoint refuses, or does not see the request.  The refusal is an
\* APIError too: if Token met it with a 401, Stream takes it for the API's and
\* forces a refresh.
PostFails(c) ==
    /\ call[c].pc = "posting"
    /\ \/ Returns(c)
       \/ /\ call[c].attempt = 1 /\ ~call[c].forced
          /\ Forces(c, 0)
    /\ lock' = None
    /\ UNCHANGED <<stored, login, server, losses>>

\* refreshLocked returns: to Token, whose request is sent, or to ForceRefresh,
\* and Stream starts over and asks for a token again.
Continue(c) ==
    IF call[c].forced
    THEN call' = [call EXCEPT ![c].pc = "token", ![c].attempt = 2,
                              ![c].forced = FALSE, ![c].cred = None]
    ELSE Authorized(c, call[c].cred)

\* Mutant of Save: the fresh credentials are returned and not stored.
SaveNothing(c) ==
    /\ call[c].pc = "saving"
    /\ lock' = None
    /\ Continue(c)
    /\ UNCHANGED <<stored, login, server, losses>>

Save(c) ==
    /\ call[c].pc = "saving"
    /\ store' = call[c].cred /\ due' = FALSE
    /\ lock' = None
    /\ Continue(c)
    /\ UNCHANGED <<login, server, losses>>

\* Mutant of SaveFails: an error return that does not unlock.
SaveFailsLocked(c) ==
    /\ call[c].pc = "saving"
    /\ losses' = losses \cup {"save"}
    /\ Returns(c)
    /\ UNCHANGED <<stored, lock, login, server>>

\* The file is replaced by a rename: a failure leaves the old one.
SaveFails(c) ==
    /\ call[c].pc = "saving"
    /\ losses' = IF store # None /\ store.refresh = call[c].cred.refresh
                 THEN losses ELSE losses \cup {"save"}
    /\ Returns(c)
    /\ lock' = None
    /\ UNCHANGED <<stored, login, server>>

-----------------------------------------------------------------------------
(* shared.Client.Do: the authorized request, resent with the same headers. *)

Served(c) ==
    /\ call[c].pc = "sending"
    /\ Returns(c)
    /\ UNCHANGED <<stored, lock, login, server, losses>>

\* 429, 5xx or a network error, and retries left.
Unavailable(c) ==
    /\ call[c].pc = "sending"
    /\ call[c].tries < MaxRetries
    /\ call' = [call EXCEPT ![c].tries = @ + 1]
    /\ UNCHANGED <<stored, lock, login, server, losses>>

\* Out of retries, another status, or the context ends.
StreamFails(c) ==
    /\ call[c].pc = "sending"
    /\ Returns(c)
    /\ UNCHANGED <<stored, lock, login, server, losses>>

\* The API refuses a token that expired or was revoked, at any time.
Unauthorized(c) ==
    /\ call[c].pc = "sending"
    /\ IF call[c].attempt = 1
       THEN Forces(c, call[c].cred.access)
       ELSE Returns(c)
    /\ UNCHANGED <<stored, lock, login, server, losses>>

-----------------------------------------------------------------------------
(* A login, which does not take TokenSource.mu and saves twice; the passage *)
(* of time; a crash.                                                       *)

LoginSaves ==
    /\ login = None
    /\ issued < MaxTokens
    /\ \E refresh \in {0, issued + 1} :
         /\ login' = [access |-> issued + 1, refresh |-> refresh]
         /\ store' = login'
         /\ live' = live \cup ({refresh} \ {0})
    /\ issued' = issued + 1
    /\ due' = FALSE
    /\ UNCHANGED <<lock, call, losses>>

\* The second Save writes what the first one wrote, with the account id.
LoginDecorates ==
    /\ login # None
    /\ losses' = IF store = login THEN losses ELSE losses \cup {"login"}
    /\ store' = login /\ due' \in BOOLEAN
    /\ login' = None
    /\ UNCHANGED <<lock, call, server>>

LoginSaveFails ==
    /\ login # None
    /\ login' = None
    /\ UNCHANGED <<stored, lock, call, server, losses>>

Age ==
    /\ ~due /\ due' = TRUE
    /\ UNCHANGED <<store, lock, call, login, server, losses>>

Crash ==
    /\ losses' = IF \E c \in Callers : call[c].pc = "saving"
                 THEN losses \cup {"crash"} ELSE losses
    /\ call' = [c \in Callers |-> Idle]
    /\ lock' = None
    /\ login' = None
    /\ UNCHANGED <<stored, server>>

TokenStep(c) ==
    \/ Token(c) \/ ForceRefresh(c)
    \/ Refreshed(c) \/ AnswerLost(c) \/ PostFails(c)
    \/ Save(c) \/ SaveFails(c)
    \/ Served(c) \/ Unavailable(c) \/ StreamFails(c) \/ Unauthorized(c)

Next ==
    \/ \E c \in Callers : Stream(c) \/ TokenStep(c)
    \/ LoginSaves \/ LoginDecorates \/ LoginSaveFails
    \/ Age \/ Crash

\* A sync.Mutex in starvation mode serves its waiters in order; requests and
\* saves end, by an answer or by an error.
Fairness ==
    \A c \in Callers : /\ WF_vars(TokenStep(c))
                       /\ SF_vars(Token(c)) /\ SF_vars(ForceRefresh(c))

Spec == Init /\ [][Next]_vars /\ Fairness

-----------------------------------------------------------------------------
Call == [pc         : {"idle", "token", "forcing", "posting", "saving", "sending"},
         attempt    : 1 .. 2,
         forced     : BOOLEAN,
         refused    : Tokens \cup {0},
         cred       : Credentials \cup {None},
         tries      : 0 .. MaxRetries]

\* The types of the variables; a caller has credentials while it refreshes and
\* sends, and never retries more than MaxRetries times.
TypeOK ==
    /\ store \in Credentials \cup {None}
    /\ lock \in Callers \cup {None}
    /\ call \in [Callers -> Call]
    /\ \A c \in Callers :
         call[c].pc \in {"posting", "saving", "sending"} => call[c].cred # None
    /\ login \in Credentials \cup {None}
    /\ issued \in Tokens
    /\ live \subseteq 1 .. issued
    /\ due \in BOOLEAN
    /\ losses \subseteq {"answer", "save", "crash", "login"}

Usable(cred) == cred = None \/ cred.refresh \in live \cup {0}

\* The session is kept: whenever no refresh is under way, the stored refresh
\* token is one the endpoint accepts, however the callers' refreshes, their 401s
\* and the rotations interleave, and a refresh presents such a token; only an
\* answer, a save or a login that got lost on the way excuses a dead one
\* (Token and refreshLocked reload under the lock, and save before unlocking).
SessionKept ==
    losses = {} =>
        /\ lock = None => Usable(store)
        /\ \A c \in Callers : call[c].pc = "posting" => Usable(call[c].cred)

\* A Stream that was refused presents, after its forced refresh, a token issued
\* later than the refused one, unless a login overwrote the store meanwhile
\* (codex Stream drops what ForceRefresh returns, and reads the store again).
RetryUsesNewerToken ==
    \A c \in Callers :
        call[c].pc = "sending" /\ call[c].attempt = 2 /\ "login" \notin losses
            => call[c].cred.access > call[c].refused

\* Every Stream call returns a stream or an error: no path through Token,
\* ForceRefresh and Do waits for ever for the lock or retries for ever.
StreamReturns == \A c \in Callers : call[c].pc # "idle" ~> call[c].pc = "idle"
=============================================================================
