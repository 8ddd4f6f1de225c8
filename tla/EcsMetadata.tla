---------------------------- MODULE EcsMetadata ----------------------------
(***************************************************************************)
(* The ECS credential loader: it discovers the RAM role once, and reads    *)
(* role and credentials from the metadata service with a session token it  *)
(* caches.  The service may forget its tokens at any time; a request it    *)
(* refuses is sent once more with a new token.                             *)
(*                                                                         *)
(* Load holds the loader's mutex from beginning to end, so one request     *)
(* runs at a time.  A client reads its credentials from this service or    *)
(* from a file, never from both: where a name of DLFCredentials would fit  *)
(* here too another one is taken, so that one module can have either.      *)
(***************************************************************************)
EXTENDS Naturals

CONSTANTS
    NoToken,    \* no token is cached; no role is known
    Margin,     \* how long before its end a token is no longer used
    Lifetime,   \* ecsMetadataTokenTTL
    LastMoment, \* bound: the clock
    MaxTokens,  \* bound: tokens handed out
    MaxFaults   \* bound: requests that fail, and times the service forgets

Tokens == 1..MaxTokens

ASSUME TimesAssumption ==
    /\ Margin \in Nat /\ Lifetime \in Nat /\ LastMoment \in Nat /\ Margin < Lifetime
    /\ MaxTokens \in Nat /\ MaxFaults \in Nat /\ NoToken \notin Nat

VARIABLES
    moment,    \* the clock
    accepted,  \* tokens the service accepts
    issued,    \* how many tokens the service has handed out
    token,     \* the cached token
    expires,   \* when it ends
    role,      \* the role name is known
    step,      \* where Load is
    try,       \* loop counter of getText
    sent,      \* history: tokens this getText has sent and the service refused
    chosen,    \* history: when the token of the running request was taken
    outcome,   \* how the last Load ended
    faults     \* remaining faults

loaderVars == <<moment, accepted, issued, token, expires, role, step, try, sent, chosen, outcome, faults>>
service == <<moment, accepted, issued>>

-----------------------------------------------------------------------------
\* Types of the service, of the cached token and of the running request, whose
\* attempts stay within getText's limit.
LoaderTypeOK ==
    /\ moment \in 0..LastMoment
    /\ accepted \subseteq 1..issued
    /\ issued \in 0..MaxTokens
    /\ token \in (1..issued) \cup {NoToken}
    /\ expires \in 0..(LastMoment + Lifetime)
    /\ role \in BOOLEAN
    /\ step \in {"idle", "token", "get"}
    /\ try \in 0..1
    /\ sent \subseteq 1..issued
    /\ chosen \in 0..LastMoment
    /\ outcome \in {"none", "ok", "failed"}
    /\ faults \in 0..MaxFaults

LoaderInit ==
    /\ moment = 0
    /\ accepted = {}
    /\ issued = 0
    /\ token = NoToken
    /\ expires = 0
    /\ role \in BOOLEAN  \* dlf_ecs_role_name is set or not
    /\ step = "idle"
    /\ try = 0
    /\ sent = {}
    /\ chosen = 0
    /\ outcome = "none"
    /\ faults = MaxFaults

GetText ==
    /\ step' = "token"
    /\ try' = 0
    /\ sent' = {}

Ends(how) ==
    /\ step' = "idle"
    /\ outcome' = how
    /\ UNCHANGED <<try, sent>>

-----------------------------------------------------------------------------
\* The provider needs credentials; the role name is read first.
Load ==
    /\ step = "idle"
    /\ GetText
    /\ outcome' = "none"
    /\ UNCHANGED <<service, token, expires, role, chosen, faults>>

CachedToken == token # NoToken /\ moment + Margin < expires

\* metadataToken: a cached token, or a new one, valid for Lifetime from the
\* moment before it was requested.
MetadataToken ==
    /\ step = "token"
    /\ \/ /\ CachedToken
          /\ step' = "get" /\ chosen' = moment
          /\ UNCHANGED <<accepted, issued, token, expires, try, sent, outcome, faults>>
       \/ /\ ~CachedToken
          /\ issued < MaxTokens
          /\ issued' = issued + 1
          /\ accepted' = accepted \cup {issued'}
          /\ token' = issued'
          /\ expires' = moment + Lifetime
          /\ step' = "get" /\ chosen' = moment
          /\ UNCHANGED <<try, sent, outcome, faults>>
       \/ /\ ~CachedToken
          /\ faults > 0
          /\ faults' = faults - 1
          /\ Ends("failed")
          /\ UNCHANGED <<accepted, issued, token, expires, chosen>>
    /\ UNCHANGED <<moment, role>>

\* Mutant: the refused token stays cached.
RefusedKeepsToken ==
    IF try = 0
      THEN step' = "token" /\ try' = 1 /\ sent' = sent \cup {token} /\ UNCHANGED <<token, outcome>>
      ELSE Ends("failed") /\ UNCHANGED token

\* The service refuses the token: on the first attempt it is dropped and the
\* request is tried again.
Refused ==
    IF try = 0
      THEN step' = "token" /\ try' = 1 /\ sent' = sent \cup {token} /\ token' = NoToken /\ UNCHANGED outcome
      ELSE Ends("failed") /\ UNCHANGED token

\* One GET of getText: the role name, then the credentials; a token is good
\* while the service remembers it and it has not ended.
Good == token \in accepted /\ moment < expires

Get ==
    /\ step = "get"
    /\ \/ /\ Good /\ ~role
          /\ role' = TRUE
          /\ GetText
          /\ UNCHANGED <<token, outcome, faults>>
       \/ /\ Good /\ role
          /\ Ends("ok")
          /\ UNCHANGED <<token, role, faults>>
       \/ /\ ~Good
          /\ Refused
          /\ UNCHANGED <<role, faults>>
       \/ /\ faults > 0
          /\ faults' = faults - 1
          /\ Ends("failed")
          /\ UNCHANGED <<token, role>>
    /\ UNCHANGED <<service, expires, chosen>>

-----------------------------------------------------------------------------
(* The environment.                                                        *)

MomentPasses ==
    /\ moment < LastMoment
    /\ moment' = moment + 1
    /\ UNCHANGED <<accepted, issued, token, expires, role, step, try, sent, chosen, outcome, faults>>

\* The metadata service restarts and forgets its tokens.
Forgets ==
    /\ faults > 0
    /\ accepted # {}
    /\ accepted' = {}
    /\ faults' = faults - 1
    /\ UNCHANGED <<moment, issued, token, expires, role, step, try, sent, chosen, outcome>>

LoaderNext == Load \/ MetadataToken \/ Get \/ MomentPasses \/ Forgets

LoaderSpec == LoaderInit /\ [][LoaderNext]_loaderVars

\* The provider goes on loading; requests to the service end.
FairLoaderSpec == LoaderSpec /\ WF_loaderVars(Load) /\ WF_loaderVars(MetadataToken) /\ WF_loaderVars(Get)

-----------------------------------------------------------------------------
(* What the loader promises.                                               *)

\* "Reacquires it once on an unauthorized response": a request that is tried
\* again never carries a token the service has just refused.
NeverResendsRefused == step = "get" => token \notin sent

\* "Refreshes it before expiry": a request that leaves within Margin of taking
\* its token carries one that has not ended.
SentBeforeExpiry == step = "get" /\ moment <= chosen + Margin => moment < expires

\* Once the metadata service behaves, the loader gets credentials: no cached
\* token that the service forgot keeps it from them.
EventuallyLoads == (faults = 0) ~> (outcome = "ok")

\* What a running load still has to do, in steps of its own: two of them for
\* every attempt, and two attempts for the role name and for the credentials.
LoadStepsLeft ==
    IF step = "idle" THEN 0
    ELSE (IF role THEN 0 ELSE 4) + 2 * (1 - try) + (IF step = "token" THEN 2 ELSE 1)

\* A load ends after a bounded number of requests, whatever the service answers:
\* each of its steps takes it nearer to its end, and nothing else sets it back.
LoadsAreBounded ==
    [][\/ step = "idle"
       \/ step' = step /\ try' = try /\ role' = role
       \/ LoadStepsLeft' < LoadStepsLeft]_loaderVars

=============================================================================
