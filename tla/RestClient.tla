----------------------------- MODULE RestClient -----------------------------
(***************************************************************************)
(* The REST catalog client that all resources of one provider share.       *)
(*                                                                         *)
(* The first operation loads the catalog configuration while it holds the  *)
(* client's mutex; the others wait for it.  Reads (and the configuration   *)
(* load) are attempted up to MaxAttempts times, mutations once.  What a    *)
(* call returns is classified by IsNotFound and IsMutationOutcomeUncertain *)
(* into what the resources may conclude.                                   *)
(***************************************************************************)
EXTENDS Naturals

CONSTANTS
    Calls,          \* concurrent operations
    Nobody,         \* the mutex is free
    Settings,       \* setting keys: the prefix and the headers
    Values,         \* setting values
    Unset,          \* the key is missing
    UserSettings,   \* what the provider block sets
    ServerConfigs,  \* the configurations the server may answer with
    MaxAttempts     \* maxReadAttempts

SettingMap == [Settings -> Values \cup {Unset}]

ASSUME NobodyAssumption == Nobody \notin Calls
ASSUME AttemptsAssumption == MaxAttempts \in Nat \ {0}
ASSUME SettingsAssumption ==
    /\ UserSettings \in SettingMap
    /\ ServerConfigs \subseteq [defaults : SettingMap, overrides : SettingMap]

VARIABLES
    mu,          \* holder of Client.mu
    configured,  \* Client.configured
    settings,    \* Client.prefix and Client.headers
    kind,        \* kind[c]: read or mutation
    ctx,         \* ctx[c]: the caller's context
    pc,          \* pc[c]: where the call is
    attempt,     \* attempt[c]: loop counter of doRaw
    carried,     \* carried[c]: prefix and headers the operation goes out with
    result,      \* result[c]: what the call returned
    sends,       \* history: how often the operation was handed to the transport
    effect       \* effect[c]: what became of the mutation in the catalog

vars == <<mu, configured, settings, kind, ctx, pc, attempt, carried, result, sends, effect>>
client == <<mu, configured, settings>>

-----------------------------------------------------------------------------
\* Statuses: 50x are 502, 503 and 504, 500 the other server errors.
Statuses == {"404", "4xx", "429", "50x", "500"}
\* Failures the client raises itself: authentication, redirect, unreadable body.
Local == {"auth", "redirect", "body"}
RoundTrips == {"ok", "transport"} \cup Statuses \cup Local

Outcomes == [kind : {"none", "ok", "transport", "cancelled"} \cup Statuses \cup Local,
             loading : BOOLEAN]
NoResult == [kind |-> "none", loading |-> FALSE]

\* client.IsNotFound, client.IsConfigurationFailure, client.IsMutationOutcomeUncertain
IsNotFound(r) == r.kind = "404"
IsConfigurationFailure(r) == r.kind \in Statuses /\ r.loading
\* Mutant: only server errors are uncertain.
UncertainServerErrorsOnly(r) == r.kind \in {"50x", "500"}
IsMutationOutcomeUncertain(r) == r.kind \in {"429", "50x", "500", "transport"}
\* explainableNotFound
ExplainableNotFound(r) == IsNotFound(r) /\ ~IsConfigurationFailure(r)

LoadPlaces == {"config", "configWait"}
Places == {"idle", "build", "ensure", "path", "headers", "op", "opWait", "done"} \cup LoadPlaces

\* Types of the shared client and of every call; no call makes more attempts
\* than doRaw allows.
TypeOK ==
    /\ mu \in Calls \cup {Nobody}
    /\ configured \in BOOLEAN
    /\ settings \in SettingMap
    /\ kind \in [Calls -> {"read", "mutation"}]
    /\ ctx \in [Calls -> {"live", "cancelled"}]
    /\ pc \in [Calls -> Places]
    /\ attempt \in [Calls -> 1..MaxAttempts]
    /\ carried \in [Calls -> SettingMap]
    /\ result \in [Calls -> Outcomes]
    /\ sends \in [Calls -> 0..MaxAttempts]
    /\ effect \in [Calls -> {"none", "pending", "applied"}]

Init ==
    /\ mu = Nobody
    /\ configured = FALSE
    /\ settings = UserSettings
    /\ kind \in [Calls -> {"read", "mutation"}]
    /\ ctx = [c \in Calls |-> "live"]
    /\ pc = [c \in Calls |-> "idle"]
    /\ attempt = [c \in Calls |-> 1]
    /\ carried = [c \in Calls |-> UserSettings]
    /\ result = [c \in Calls |-> NoResult]
    /\ sends = [c \in Calls |-> 0]
    /\ effect = [c \in Calls |-> "none"]

Goes(c, place) == pc' = [pc EXCEPT ![c] = place]

-----------------------------------------------------------------------------
(* Around the configuration.                                               *)

\* A resource makes a call; it builds the path with catalogPrefix, which
\* needs the mutex, before do replaces the prefix.
Start(c) ==
    /\ pc[c] = "idle"
    /\ Goes(c, "build")
    /\ UNCHANGED <<client, kind, ctx, attempt, carried, result, sends, effect>>

BuildPath(c) ==
    /\ pc[c] = "build"
    /\ mu = Nobody
    /\ Goes(c, "ensure")
    /\ carried' = [carried EXCEPT ![c] = settings]
    /\ UNCHANGED <<client, kind, ctx, attempt, result, sends, effect>>

\* Mutant: ensureConfigured does not wait for the mutex.
EnsureConfiguredUnlocked(c) ==
    /\ pc[c] = "ensure"
    /\ IF configured
         THEN Goes(c, "path") /\ UNCHANGED mu
         ELSE Goes(c, "config") /\ mu' = c
    /\ UNCHANGED <<configured, settings, kind, ctx, attempt, carried, result, sends, effect>>

EnsureConfigured(c) ==
    /\ pc[c] = "ensure"
    /\ mu = Nobody
    /\ IF configured
         THEN Goes(c, "path") /\ UNCHANGED mu
         ELSE Goes(c, "config") /\ mu' = c
    /\ UNCHANGED <<configured, settings, kind, ctx, attempt, carried, result, sends, effect>>

\* Server overrides beat the provider block, which beats server defaults.
Merge(config) ==
    [k \in Settings |->
        IF config.overrides[k] # Unset THEN config.overrides[k]
        ELSE IF UserSettings[k] # Unset THEN UserSettings[k]
        ELSE config.defaults[k]]

\* do: the path, then the headers, are taken from the client's settings.
TakePrefix(c) ==
    /\ pc[c] = "path"
    /\ mu = Nobody
    /\ Goes(c, "headers")
    /\ carried' = [carried EXCEPT ![c] = settings]
    /\ UNCHANGED <<client, kind, ctx, attempt, result, sends, effect>>

TakeHeaders(c) ==
    /\ pc[c] = "headers"
    /\ mu = Nobody
    /\ Goes(c, "op")
    /\ attempt' = [attempt EXCEPT ![c] = 1]
    /\ UNCHANGED <<client, kind, ctx, carried, result, sends, effect>>

-----------------------------------------------------------------------------
(* doRaw.                                                                  *)

\* Mutant: mutations are retried as well.
AttemptsForAll(c) == MaxAttempts
Attempts(c) == IF pc[c] \in LoadPlaces \/ kind[c] = "read" THEN MaxAttempts ELSE 1

RetryableReadStatus(a) == a \in {"429", "50x"}

\* A failed round trip is tried again when attempts are left and either the
\* status is retryable or the transport failed under a live context.
Retries(c, a) ==
    /\ attempt[c] < Attempts(c)
    /\ RetryableReadStatus(a) \/ (a = "transport" /\ ctx[c] = "live")

\* The round trips possible now: a cancelled context never gets an answer.
RoundTripsOf(c) == IF ctx[c] = "live" THEN RoundTrips ELSE {"transport", "auth"}

Returns(c, a) ==
    /\ Goes(c, "done")
    /\ result' = [result EXCEPT ![c] = [kind |-> a, loading |-> pc[c] \in LoadPlaces]]
    /\ mu' = IF mu = c THEN Nobody ELSE mu

\* One attempt to load the configuration.
LoadConfig(c) ==
    /\ pc[c] = "config"
    /\ \E a \in RoundTripsOf(c) :
        \/ /\ a = "ok"
           /\ \E config \in ServerConfigs : settings' = Merge(config)
           /\ configured' = TRUE
           /\ mu' = Nobody
           /\ Goes(c, "path")
           /\ UNCHANGED result
        \/ /\ Retries(c, a)
           /\ Goes(c, "configWait")
           /\ UNCHANGED <<client, result>>
        \/ /\ a # "ok" /\ ~Retries(c, a)
           /\ Returns(c, a)
           /\ UNCHANGED <<configured, settings>>
    /\ UNCHANGED <<kind, ctx, attempt, carried, sends, effect>>

\* What a round trip does to a mutation in the catalog (external): success
\* means it was carried out, a redirect or a 4xx that it was not; after 429,
\* a server error or a transport failure it may have been, now or later.
EffectsOf(c, a) ==
    IF kind[c] = "read" THEN {effect[c]}
    ELSE CASE a \in {"ok", "body"} -> {"applied"}
           [] a \in {"429", "50x", "500", "transport"} -> {"none", "pending", "applied"}
           [] OTHER -> {"none"}

\* The body of a mutation's answer is not read.
Operation(c) ==
    /\ pc[c] = "op"
    /\ \E a \in RoundTripsOf(c) :
        /\ ~(a = "body" /\ kind[c] = "mutation")
        /\ effect' \in {[effect EXCEPT ![c] = e] : e \in EffectsOf(c, a)}
        /\ sends' = [sends EXCEPT ![c] = IF a = "auth" THEN @ ELSE @ + 1]
        /\ IF Retries(c, a)
             THEN Goes(c, "opWait") /\ UNCHANGED <<mu, result>>
             ELSE Returns(c, a)
    /\ UNCHANGED <<configured, settings, kind, ctx, attempt, carried>>

\* Mutant: the attempt is not counted.
RetryDelayUncounted(c) ==
    /\ pc[c] \in {"configWait", "opWait"}
    /\ Goes(c, IF pc[c] = "configWait" THEN "config" ELSE "op")
    /\ UNCHANGED <<client, kind, ctx, attempt, carried, result, sends, effect>>

\* waitForReadRetry: the delay passes, or the context ends first.
RetryDelayEnds(c) ==
    /\ pc[c] \in {"configWait", "opWait"}
    /\ Goes(c, IF pc[c] = "configWait" THEN "config" ELSE "op")
    /\ attempt' = [attempt EXCEPT ![c] = @ + 1]
    /\ UNCHANGED <<client, kind, ctx, carried, result, sends, effect>>

RetryDelayCancelled(c) ==
    /\ pc[c] \in {"configWait", "opWait"}
    /\ ctx[c] = "cancelled"
    /\ Returns(c, "cancelled")
    /\ UNCHANGED <<configured, settings, kind, ctx, attempt, carried, sends, effect>>

-----------------------------------------------------------------------------
(* The environment.                                                        *)

Cancel(c) ==
    /\ ctx[c] = "live"
    /\ pc[c] \notin {"idle", "done"}
    /\ ctx' = [ctx EXCEPT ![c] = "cancelled"]
    /\ UNCHANGED <<client, kind, pc, attempt, carried, result, sends, effect>>

\* A mutation the client gave up on reaches the catalog, or is lost.
LateEffect(c) ==
    /\ effect[c] = "pending"
    /\ \E e \in {"applied", "none"} : effect' = [effect EXCEPT ![c] = e]
    /\ UNCHANGED <<client, kind, ctx, pc, attempt, carried, result, sends>>

-----------------------------------------------------------------------------
Step(c) ==
    \/ Start(c) \/ BuildPath(c) \/ EnsureConfigured(c) \/ LoadConfig(c)
    \/ TakePrefix(c) \/ TakeHeaders(c) \/ Operation(c)
    \/ RetryDelayEnds(c) \/ RetryDelayCancelled(c)

\* Every call has returned: nothing is left to do.
Finished == (\A c \in Calls : pc[c] = "done") /\ UNCHANGED vars

Next == (\E c \in Calls : Step(c) \/ Cancel(c) \/ LateEffect(c)) \/ Finished

Spec == Init /\ [][Next]_vars

\* Goroutines are scheduled, the HTTP client times out, sync.Mutex hands over.
FairSpec == Spec /\ \A c \in Calls : WF_vars(Step(c))

-----------------------------------------------------------------------------
(* What the resources rely on.                                             *)

\* A mutation is handed to the transport at most once: the client never
\* blindly repeats a write.
MutationSentOnce == \A c \in Calls : kind[c] = "mutation" => sends[c] <= 1

\* A mutation that returns an error which is not classified as uncertain was
\* not carried out and never will be; one that returns success was; and one that
\* is uncertain was sent, unless the configuration could not be loaded: such a
\* failure counts as uncertain like the mutation's own (client.go:268).
DefiniteOutcomes ==
    \A c \in Calls : kind[c] = "mutation" /\ pc[c] = "done" =>
        /\ result[c].kind = "ok" => effect[c] = "applied"
        /\ result[c].kind # "ok" /\ ~IsMutationOutcomeUncertain(result[c]) => effect[c] = "none"
        /\ IsMutationOutcomeUncertain(result[c]) => sends[c] > 0 \/ result[c].loading

\* Operations only leave after the configuration was loaded, and all of them
\* carry the same prefix and headers, those of the one load that succeeded.
SameSettings ==
    \A c \in Calls : sends[c] > 0 => configured /\ carried[c] = settings

\* The settings are loaded once: later operations cannot change them.
LoadedOnce == [][configured => UNCHANGED <<configured, settings>>]_vars

\* A 404 that the diagnostics explain as a missing object came from the
\* operation, not from the configuration load.
ExplainedNotFoundWasAnswered ==
    \A c \in Calls : pc[c] = "done" /\ ExplainableNotFound(result[c]) => sends[c] > 0

\* What the resources make of a result.
Meaning(r) ==
    IF r.kind = "ok" THEN "ok"
    ELSE IF IsNotFound(r) THEN "notfound"
    ELSE IF IsMutationOutcomeUncertain(r) THEN "uncertain" ELSE "rejected"
AnswerTo(c) == IF pc[c] = "done" THEN Meaning(result[c]) ELSE "none"

Remote == INSTANCE RemoteCalls WITH answer <- [c \in Calls |-> AnswerTo(c)]

\* Loading, waiting, retrying and cancelling are invisible to a caller: whatever
\* the calls beside it do, it sees one answer, and the catalog changes only as
\* that answer says, now or, if it was uncertain, at most once later.  It is
\* what the resources assume of a call (Settles and LateArrival there).
ImplementsRemoteCalls == Remote!Spec

\* How many steps of its own a call may still take before it returns.
StepsLeft(c) ==
    CASE pc[c] = "idle" -> 4 * MaxAttempts + 6
      [] pc[c] = "build" -> 4 * MaxAttempts + 5
      [] pc[c] = "ensure" -> 4 * MaxAttempts + 4
      [] pc[c] = "config" -> 4 * MaxAttempts + 4 - 2 * attempt[c]
      [] pc[c] = "configWait" -> 4 * MaxAttempts + 3 - 2 * attempt[c]
      [] pc[c] = "path" -> 2 * MaxAttempts + 2
      [] pc[c] = "headers" -> 2 * MaxAttempts + 1
      [] pc[c] = "op" -> 2 * MaxAttempts + 1 - 2 * attempt[c]
      [] pc[c] = "opWait" -> 2 * MaxAttempts - 2 * attempt[c]
      [] OTHER -> 0

\* A call returns after at most 4 * MaxAttempts + 6 steps of its own, whatever the
\* others do meanwhile: no step starts a loop over, and none of another call
\* costs this one an attempt.
CallsAreBounded ==
    [][\A c \in Calls :
         \/ UNCHANGED <<pc[c], attempt[c]>>
         \/ StepsLeft(c)' < StepsLeft(c)]_vars

\* As long as a call has not returned, one of them can go on: whoever holds the
\* mutex needs nobody else to release it.
WaitsForMutex(c) == pc[c] \in {"build", "ensure", "path", "headers"} /\ mu # Nobody
SomeCallGoesOn ==
    (\E c \in Calls : pc[c] # "done") => \E c \in Calls : pc[c] # "done" /\ ~WaitsForMutex(c)

\* Every call that starts returns, also when others fail to load the
\* configuration, are cancelled or wait for the mutex.
CallReturns == \A c \in Calls : (pc[c] = "build") ~> (pc[c] = "done")

-----------------------------------------------------------------------------
\* The inductive invariant: who holds the mutex and what a place implies.
CallInv(c) ==
    /\ pc[c] \in LoadPlaces <=> mu = c
    /\ pc[c] \in {"path", "headers", "op", "opWait"} => configured
    /\ pc[c] \in {"headers", "op", "opWait"} => carried[c] = settings
    /\ pc[c] = "op" => sends[c] < attempt[c]
    /\ pc[c] = "opWait" => sends[c] <= attempt[c]
    /\ pc[c] \in {"configWait", "opWait"} => attempt[c] < Attempts(c)
    /\ pc[c] \notin {"op", "opWait", "done"} => sends[c] = 0 /\ effect[c] = "none"
    /\ kind[c] = "mutation" /\ pc[c] = "op" => attempt[c] = 1 /\ effect[c] = "none"
    /\ pc[c] = "done" /\ result[c].loading => sends[c] = 0 /\ effect[c] = "none"
    /\ pc[c] = "done" /\ ~result[c].loading /\ IsNotFound(result[c]) => sends[c] > 0

ClientInv ==
    /\ TypeOK
    /\ mu = Nobody \/ ~configured
    /\ \A c \in Calls : CallInv(c)
    /\ MutationSentOnce /\ DefiniteOutcomes /\ SameSettings

=============================================================================
