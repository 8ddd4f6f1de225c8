--------------------------- MODULE DLFCredentials ---------------------------
(***************************************************************************)
(* The refreshing DLF credential provider over a token file: concurrent    *)
(* requests of one client share a cached credential, which is reloaded     *)
(* under the provider's mutex when it comes close to its expiry.  The file *)
(* is rewritten by an external agent, so a read may find it missing or     *)
(* half written; the loader tries again a few times.                       *)
(*                                                                         *)
(* The provider tells credentials apart only by their expiry, so a         *)
(* credential is its expiry: the first moment at which it is not usable.   *)
(***************************************************************************)
EXTENDS Integers

CONSTANTS
    Callers,        \* concurrent requests
    Nobody,         \* the mutex is free
    None,           \* no credential was loaded yet
    Broken,         \* the file is missing, half written or invalid
    Error,          \* a request got no credential
    RefreshBefore,  \* how long before its expiry a credential is reloaded
    MaxAttempts,    \* fileDLFTokenLoader.maxAttempts
    MaxTime         \* bound: the clock

ASSUME NobodyAssumption == Nobody \notin Callers
ASSUME NatAssumption ==
    /\ RefreshBefore \in Nat \ {0} /\ MaxAttempts \in Nat \ {0} /\ MaxTime \in Nat
    /\ None \notin Nat /\ Broken \notin Nat /\ Error \notin Nat

\* The latest expiry is never close: it is a credential without an expiration.
Expiries == 0..(MaxTime + RefreshBefore)

VARIABLES
    now,      \* the clock
    file,     \* what the token file holds
    mu,       \* holder of the provider's mutex
    current,  \* the cached credential
    pc,       \* pc[c]: where request c is
    attempt,  \* attempt[c]: loop counter of Load
    loaded,   \* loaded[c]: what Load returned to c
    ctx,      \* ctx[c]: the request's context
    result,   \* result[c]: what Credentials returned to c
    earlier,  \* history: earlier[c]: requests that held a reading when c read the file
    overtaken \* history: requests with a reading older than that of the cached credential

vars == <<now, file, mu, current, pc, attempt, loaded, ctx, result, earlier, overtaken>>
history == <<earlier, overtaken>>
request == <<attempt, loaded, ctx, result, history>>

LoadPlaces == {"load", "retry", "judge"}

\* Types of the shared credential, of the file and of every request; attempts
\* stay within the loader's limit.
TypeOK ==
    /\ now \in 0..MaxTime
    /\ file \in Expiries \cup {Broken}
    /\ mu \in Callers \cup {Nobody}
    /\ current \in Expiries \cup {None}
    /\ pc \in [Callers -> {"idle", "lock", "done"} \cup LoadPlaces]
    /\ attempt \in [Callers -> 1..MaxAttempts]
    /\ loaded \in [Callers -> Expiries \cup {None}]
    /\ ctx \in [Callers -> {"live", "cancelled"}]
    /\ result \in [Callers -> Expiries \cup {None, Error}]
    /\ earlier \in [Callers -> SUBSET Callers]
    /\ overtaken \subseteq Callers

Init ==
    /\ now = 0
    /\ file \in Expiries \cup {Broken}
    /\ mu = Nobody
    /\ current = None
    /\ pc = [c \in Callers |-> "idle"]
    /\ attempt = [c \in Callers |-> 1]
    /\ loaded = [c \in Callers |-> None]
    /\ ctx = [c \in Callers |-> "live"]
    /\ result = [c \in Callers |-> None]
    /\ earlier = [c \in Callers |-> {}]
    /\ overtaken = {}

Goes(c, place) == pc' = [pc EXCEPT ![c] = place]

-----------------------------------------------------------------------------
\* currentUsable and shouldRefresh.
Usable(credential) == credential > now
ShouldRefresh(credential) == credential - now < RefreshBefore

Returns(c, value) ==
    /\ Goes(c, "done")
    /\ result' = [result EXCEPT ![c] = value]

\* Mutant: the cached credential is handed out whatever its age.
CurrentLoaded == current # None
CurrentUsable == current # None /\ Usable(current)

\* Mutant: the mutex is not released.
FallsBackLocked(c) ==
    /\ Returns(c, IF CurrentUsable THEN current ELSE Error)
    /\ UNCHANGED <<mu, current>>

\* Nothing better could be loaded: the cached credential while it is usable.
FallsBack(c) ==
    /\ Returns(c, IF CurrentUsable THEN current ELSE Error)
    /\ mu' = Nobody
    /\ UNCHANGED current

-----------------------------------------------------------------------------
(* A request: refreshingDLFCredentialProvider.Credentials.                 *)

Call(c) ==
    /\ pc[c] = "idle"
    /\ Goes(c, "lock")
    /\ ctx' = [ctx EXCEPT ![c] = "live"]
    /\ UNCHANGED <<now, file, mu, current, attempt, loaded, result, history>>

\* Mutant: nobody waits for the mutex.
NeverHeld == TRUE
MutexFree == mu = Nobody

\* The mutex is taken; a credential that is fresh enough is returned at once.
Lock(c) ==
    /\ pc[c] = "lock"
    /\ MutexFree
    /\ IF current # None /\ ~ShouldRefresh(current)
         THEN Returns(c, current) /\ UNCHANGED <<mu, attempt>>
         ELSE /\ mu' = c
              /\ Goes(c, "load")
              /\ attempt' = [attempt EXCEPT ![c] = 1]
              /\ UNCHANGED result
    /\ UNCHANGED <<now, file, current, loaded, ctx, history>>

AttemptsLeft(c) == attempt[c] < MaxAttempts

\* fileDLFTokenLoader.Load: one attempt to read the file.
ReadFile(c) ==
    /\ pc[c] = "load"
    /\ \/ /\ file # Broken
          /\ loaded' = [loaded EXCEPT ![c] = file]
          /\ Goes(c, "judge")
          /\ earlier' = [earlier EXCEPT ![c] = {d \in Callers \ {c} : pc[d] = "judge"}]
          /\ UNCHANGED <<mu, current, result>>
       \/ /\ file = Broken /\ AttemptsLeft(c)
          /\ Goes(c, "retry")
          /\ UNCHANGED <<mu, current, loaded, result, earlier>>
       \/ /\ file = Broken /\ ~AttemptsLeft(c)
          /\ FallsBack(c)
          /\ UNCHANGED <<loaded, earlier>>
    /\ UNCHANGED <<now, file, attempt, ctx, overtaken>>

RetryDelayEnds(c) ==
    /\ pc[c] = "retry"
    /\ Goes(c, "load")
    /\ attempt' = [attempt EXCEPT ![c] = @ + 1]
    /\ UNCHANGED <<now, file, mu, current, loaded, ctx, result, history>>

\* Mutant: a cancelled request fails at once.
RetryDelayAborted(c) ==
    /\ pc[c] = "retry"
    /\ ctx[c] = "cancelled"
    /\ Returns(c, Error) /\ mu' = Nobody
    /\ UNCHANGED <<now, file, current, attempt, loaded, ctx, history>>

RetryDelayCancelled(c) ==
    /\ pc[c] = "retry"
    /\ ctx[c] = "cancelled"
    /\ FallsBack(c)
    /\ UNCHANGED <<now, file, attempt, loaded, ctx, history>>

\* The loaded credential is kept unless it has expired by now.
Judge(c) ==
    /\ pc[c] = "judge"
    /\ IF Usable(loaded[c])
         THEN /\ current' = loaded[c] /\ Returns(c, loaded[c]) /\ mu' = Nobody
              /\ overtaken' = (overtaken \cup {d \in earlier[c] : pc[d] = "judge"}) \ {c}
         ELSE FallsBack(c) /\ overtaken' = overtaken \ {c}
    /\ earlier' = [earlier EXCEPT ![c] = {}]
    /\ UNCHANGED <<now, file, attempt, loaded, ctx>>

\* The request is signed and sent; the goroutine may make another one.
Sign(c) ==
    /\ pc[c] = "done"
    /\ Goes(c, "idle")
    /\ UNCHANGED <<now, file, mu, current, request>>

-----------------------------------------------------------------------------
(* The environment.                                                        *)

Tick ==
    /\ now < MaxTime
    /\ now' = now + 1
    /\ UNCHANGED <<file, mu, current, pc, request>>

\* The external agent starts rewriting the file, or has rewritten it.
Rewrite(content) ==
    /\ file' = content
    /\ UNCHANGED <<now, mu, current, pc, request>>

Cancel(c) ==
    /\ ctx[c] = "live"
    /\ pc[c] \notin {"idle", "done"}
    /\ ctx' = [ctx EXCEPT ![c] = "cancelled"]
    /\ UNCHANGED <<now, file, mu, current, pc, attempt, loaded, result, history>>

-----------------------------------------------------------------------------
Provider(c) ==
    \/ ReadFile(c) \/ RetryDelayEnds(c) \/ RetryDelayCancelled(c) \/ Judge(c)

Next ==
    \/ \E c \in Callers : Call(c) \/ Lock(c) \/ Provider(c) \/ Sign(c) \/ Cancel(c)
    \/ Tick
    \/ \E content \in Expiries \cup {Broken} : Rewrite(content)

Spec == Init /\ [][Next]_vars

\* Goroutines are scheduled, and sync.Mutex does not starve a waiter.
FairSpec == Spec /\ \A c \in Callers : WF_vars(Provider(c)) /\ SF_vars(Lock(c))

-----------------------------------------------------------------------------
(* What a request may rely on.                                             *)

Answered(c) == pc[c] # "done" /\ pc'[c] = "done"

\* A request never gets a credential that has already expired.
NeverAnswersExpired ==
    [][\A c \in Callers : Answered(c) /\ result'[c] # Error => Usable(result'[c])]_vars

\* A request fails only when the cached credential is of no use either: a
\* failed, cancelled or stale reload never costs a usable credential.
FailsOnlyWithoutUsable ==
    [][\A c \in Callers : Answered(c) /\ result'[c] = Error =>
        current' = None \/ ~Usable(current')]_vars

\* Every request gets an answer: no request waits forever for the mutex.
EveryCallAnswered == \A c \in Callers : (pc[c] = "lock") ~> (pc[c] = "done")

\* Reloads happen in the order in which they read the file: no request is about
\* to cache a credential read before the one that another request has cached
\* meanwhile, so a renewed credential is never replaced by its predecessor.
CacheNeverGoesBack == \A c \in Callers : pc[c] = "judge" => c \notin overtaken

\* What a request that waits or loads still has to do, in steps of its own.
StepsLeft(c) ==
    IF pc[c] = "lock" THEN 2 * MaxAttempts + 1
    ELSE IF pc[c] = "load" THEN 2 * (MaxAttempts - attempt[c]) + 2
    ELSE IF pc[c] = "retry" THEN 2 * (MaxAttempts - attempt[c]) + 1
    ELSE IF pc[c] = "judge" THEN 1
    ELSE 0

\* A request does a bounded amount of work, whatever the file holds and whatever
\* the other requests do: every step between its call and its answer takes it
\* nearer to the answer, and nobody else's step takes it back.
RequestsAreBounded ==
    [][\A c \in Callers :
        \/ pc[c] \in {"idle", "done"}
        \/ pc'[c] = pc[c] /\ attempt'[c] = attempt[c]
        \/ StepsLeft(c)' < StepsLeft(c)]_vars

Pending(c) == pc[c] \in {"lock"} \cup LoadPlaces

WaitsForMutex(c) == pc[c] = "lock" /\ mu # Nobody

\* The requests never wait for one another in a circle: while one of them has no
\* answer, there is one that does not wait for the mutex.
SomeRequestGoesOn ==
    (\E c \in Callers : Pending(c)) => \E c \in Callers : Pending(c) /\ ~WaitsForMutex(c)

=============================================================================
