-------------------------- MODULE EcsMetadata_proofs --------------------------
(***************************************************************************)
(* Proofs about EcsMetadata, for every lifetime and margin of tokens and   *)
(* every bound: a refused token is not sent again, and a token is taken    *)
(* early enough to be valid when its request leaves.                       *)
(***************************************************************************)
EXTENDS EcsMetadata, TLAPS

\* After a refusal no token is cached, and the next one is new; a token is only
\* taken when more than Margin of it is left.
TokenInv ==
    /\ step = "token" => token = NoToken \/ sent = {}
    /\ step = "get" => token # NoToken /\ token \notin sent /\ chosen + Margin < expires

LoaderInv == LoaderTypeOK /\ TokenInv

LEMMA InitLoader == LoaderInit => LoaderInv
BY TimesAssumption DEF LoaderInit, LoaderInv, LoaderTypeOK, TokenInv

LEMMA LoadStep == LoaderInv /\ Load => LoaderInv'
BY TimesAssumption DEF LoaderInv, LoaderTypeOK, TokenInv, Load, GetText, service

\* A cached token is not in sent, because nothing is cached after a refusal; a
\* new one has never been sent.
LEMMA MetadataTokenStep == LoaderInv /\ MetadataToken => LoaderInv'
<1> SUFFICES ASSUME LoaderInv, MetadataToken PROVE LoaderInv'
  OBVIOUS
<1> USE TimesAssumption DEF LoaderInv, LoaderTypeOK, TokenInv
<1>1. CASE CachedToken
  BY <1>1 DEF MetadataToken, CachedToken
<1>2. CASE ~CachedToken /\ issued' = issued + 1
  <2>1. token' = issued + 1 /\ issued' = issued + 1 /\ accepted' = accepted \cup {issued + 1}
        /\ expires' = moment + Lifetime /\ chosen' = moment /\ step' = "get"
        /\ UNCHANGED <<moment, role, try, sent, outcome, faults>> /\ issued < MaxTokens
    BY <1>2 DEF MetadataToken, Ends
  <2>2. issued' \in 0..MaxTokens /\ expires' \in 0..(LastMoment + Lifetime)
    BY <2>1
  <2>3. accepted' \subseteq 1..issued' /\ sent' \subseteq 1..issued'
    BY <2>1
  <2>4. token' \notin sent' /\ token' \in 1..issued' /\ token' # NoToken
    BY <2>1
  <2> QED BY <2>1, <2>2, <2>3, <2>4
<1>3. CASE ~CachedToken /\ issued' # issued + 1
  <2>1. step' = "idle" /\ outcome' = "failed" /\ faults > 0 /\ faults' = faults - 1
        /\ UNCHANGED <<moment, role, try, sent, accepted, issued, token, expires, chosen>>
    BY <1>3 DEF MetadataToken, Ends
  <2> QED BY <2>1
<1> QED BY <1>1, <1>2, <1>3

LEMMA GetStep == LoaderInv /\ Get => LoaderInv'
<1> SUFFICES ASSUME LoaderInv, Get PROVE LoaderInv'
  OBVIOUS
<1> USE TimesAssumption DEF LoaderInv, LoaderTypeOK, TokenInv
<1>0. step = "get" /\ UNCHANGED <<moment, accepted, issued, expires, chosen>>
  BY DEF Get, service
<1>1. CASE Good /\ ~role /\ role' = TRUE /\ GetText /\ UNCHANGED <<token, outcome, faults>>
  BY <1>0, <1>1 DEF GetText
<1>2. CASE Ends("ok") /\ UNCHANGED <<token, role, faults>>
  BY <1>0, <1>2 DEF Ends
<1>3. CASE Refused /\ UNCHANGED <<role, faults>>
  <2>1. CASE try = 0
    <3>1. sent \cup {token} \subseteq 1..issued
      BY <1>0
    <3>2. step' = "token" /\ try' = 1 /\ sent' = sent \cup {token} /\ token' = NoToken
          /\ UNCHANGED <<outcome, role, faults>>
      BY <1>3, <2>1 DEF Refused
    <3> QED BY <1>0, <3>1, <3>2
  <2>2. CASE try # 0
    BY <1>0, <1>3, <2>2 DEF Refused, Ends
  <2> QED BY <2>1, <2>2
<1>4. CASE faults > 0 /\ faults' = faults - 1 /\ Ends("failed") /\ UNCHANGED <<token, role>>
  BY <1>0, <1>4 DEF Ends
<1> QED BY <1>1, <1>2, <1>3, <1>4 DEF Get

LEMMA LoaderStep == LoaderInv /\ [LoaderNext]_loaderVars => LoaderInv'
<1> SUFFICES ASSUME LoaderInv, [LoaderNext]_loaderVars PROVE LoaderInv'
  OBVIOUS
<1>1. CASE MomentPasses
  BY <1>1, TimesAssumption DEF MomentPasses, LoaderInv, LoaderTypeOK, TokenInv
<1>2. CASE Forgets
  BY <1>2, TimesAssumption DEF Forgets, LoaderInv, LoaderTypeOK, TokenInv
<1>3. CASE UNCHANGED loaderVars
  BY <1>3 DEF loaderVars, LoaderInv, LoaderTypeOK, TokenInv
<1> QED BY <1>1, <1>2, <1>3, LoadStep, MetadataTokenStep, GetStep DEF LoaderNext

\* Every reachable state is well typed, for every lifetime and bound.
THEOREM TypeCorrect == LoaderSpec => []LoaderTypeOK
<1>1. LoaderInv => LoaderTypeOK
  BY DEF LoaderInv
<1> QED BY <1>1, InitLoader, LoaderStep, PTL DEF LoaderSpec

\* The second attempt of a metadata request never carries the token that the
\* service has just refused, whenever it forgets its tokens.
THEOREM RefusedIsNotResent == LoaderSpec => []NeverResendsRefused
<1>1. LoaderInv => NeverResendsRefused
  BY DEF LoaderInv, TokenInv, NeverResendsRefused
<1> QED BY <1>1, InitLoader, LoaderStep, PTL DEF LoaderSpec

\* A metadata request that leaves within Margin of taking its token carries one
\* that has not ended.
THEOREM TokensAreTakenInTime == LoaderSpec => []SentBeforeExpiry
<1>1. LoaderInv => SentBeforeExpiry
  BY TimesAssumption DEF LoaderInv, LoaderTypeOK, TokenInv, SentBeforeExpiry
<1> QED BY <1>1, InitLoader, LoaderStep, PTL DEF LoaderSpec

-----------------------------------------------------------------------------
\* A refused token is answered by the one other attempt or by the end; the role
\* name, once read, is not read again.
LEMMA GetCounts == LoaderInv /\ Get => LoadStepsLeft' < LoadStepsLeft
<1> SUFFICES ASSUME LoaderInv, Get PROVE LoadStepsLeft' < LoadStepsLeft
  OBVIOUS
<1> USE DEF LoaderInv, LoaderTypeOK, LoadStepsLeft
<1>0. step = "get" /\ try \in 0..1
  BY DEF Get
<1>1. CASE ~role /\ role' = TRUE /\ GetText
  BY <1>0, <1>1 DEF GetText
<1>2. CASE step' = "idle"
  BY <1>0, <1>2
<1>3. CASE try = 0 /\ try' = 1 /\ step' = "token" /\ role' = role
  BY <1>0, <1>3
<1> QED BY <1>1, <1>2, <1>3 DEF Get, Refused, Ends

\* Whenever the service forgets its tokens, a load makes at most two requests for
\* the role name and two for the credentials.
THEOREM EveryLoadIsBounded == LoaderSpec => LoadsAreBounded
<1>1. LoaderInv /\ [LoaderNext]_loaderVars =>
        [\/ step = "idle"
         \/ step' = step /\ try' = try /\ role' = role
         \/ LoadStepsLeft' < LoadStepsLeft]_loaderVars
  <2> SUFFICES ASSUME LoaderInv, [LoaderNext]_loaderVars, step # "idle"
               PROVE  \/ step' = step /\ try' = try /\ role' = role
                      \/ LoadStepsLeft' < LoadStepsLeft
    OBVIOUS
  <2>1. CASE MetadataToken
    <3>1. step = "token" /\ role' = role /\ try' = try /\ step' \in {"get", "idle"}
      BY <2>1 DEF MetadataToken, Ends
    <3>2. try \in 0..1
      BY DEF LoaderInv, LoaderTypeOK
    <3> QED BY <3>1, <3>2 DEF LoadStepsLeft
  <2>2. CASE Load \/ MomentPasses \/ Forgets \/ UNCHANGED loaderVars
    BY <2>2 DEF Load, MomentPasses, Forgets, loaderVars
  <2> QED BY <2>1, <2>2, GetCounts DEF LoaderNext
<1> QED BY <1>1, InitLoader, LoaderStep, PTL DEF LoaderSpec, LoadsAreBounded
=============================================================================
