-------------------------- MODULE RestClient_proofs --------------------------
(***************************************************************************)
(* Proofs about RestClient for any number of concurrent calls, any settings *)
(* and server configurations, and any number of attempts.                  *)
(***************************************************************************)
EXTENDS RestClient, TLAPS

\* Every operation on the settings yields settings.
LEMMA MergeType ==
    ASSUME NEW config \in ServerConfigs
    PROVE  Merge(config) \in SettingMap
<1>1. config.defaults \in SettingMap /\ config.overrides \in SettingMap
  BY SettingsAssumption
<1>2. UserSettings \in SettingMap
  BY SettingsAssumption
<1>3. \A k \in Settings : Merge(config)[k] \in {config.overrides[k], UserSettings[k],
                                               config.defaults[k]}
  BY DEF Merge
<1>4. \A k \in Settings : Merge(config)[k] \in Values \cup {Unset}
  BY <1>1, <1>2, <1>3 DEF SettingMap
<1>5. Merge(config) = [k \in Settings |-> Merge(config)[k]]
  BY DEF Merge
<1> QED BY <1>4, <1>5 DEF SettingMap

\* The invariant holds before the first call.
LEMMA InitInv == Init => ClientInv
<1> SUFFICES ASSUME Init PROVE ClientInv
  OBVIOUS
<1>1. NoResult \in Outcomes
  BY DEF NoResult, Outcomes
<1>2. 1 \in 1..MaxAttempts /\ 0 \in 0..MaxAttempts
  BY AttemptsAssumption
<1>3. TypeOK
  BY <1>1, <1>2, SettingsAssumption DEF Init, TypeOK, Places
<1>4. \A c \in Calls : CallInv(c)
  BY NobodyAssumption DEF Init, CallInv, LoadPlaces
<1>5. MutationSentOnce /\ DefiniteOutcomes /\ SameSettings
  BY DEF Init, MutationSentOnce, DefiniteOutcomes, SameSettings
<1> QED BY <1>3, <1>4, <1>5 DEF Init, ClientInv

\* The parts of the invariant about one call, in one place.
CallOK(c) ==
    /\ CallInv(c)
    /\ kind[c] = "mutation" => sends[c] <= 1
    /\ kind[c] = "mutation" /\ pc[c] = "done" =>
        /\ result[c].kind = "ok" => effect[c] = "applied"
        /\ result[c].kind # "ok" /\ ~IsMutationOutcomeUncertain(result[c]) => effect[c] = "none"
        /\ IsMutationOutcomeUncertain(result[c]) => sends[c] > 0 \/ result[c].loading
    /\ sends[c] > 0 => configured /\ carried[c] = settings

\* The invariant, call by call.
LEMMA ClientInvParts ==
    ClientInv <=> TypeOK /\ (mu = Nobody \/ ~configured) /\ \A c \in Calls : CallOK(c)
BY DEF ClientInv, CallOK, MutationSentOnce, DefiniteOutcomes, SameSettings

\* Whatever one call does, the invariant holds for all of them.
LEMMA Steps ==
    ASSUME ClientInv, NEW c \in Calls, Step(c) \/ Cancel(c) \/ LateEffect(c)
    PROVE  ClientInv'
<1> USE NobodyAssumption, AttemptsAssumption
<1>0. TypeOK /\ (mu = Nobody \/ ~configured) /\ \A d \in Calls : CallOK(d)
  BY ClientInvParts
<1> SUFFICES TypeOK' /\ (mu = Nobody \/ ~configured)' /\ \A d \in Calls : CallOK(d)'
  BY DEF ClientInv, CallOK, MutationSentOnce, DefiniteOutcomes, SameSettings
<1> USE <1>0 DEF TypeOK, CallOK, CallInv, Goes, client, LoadPlaces, Attempts
<1>1. CASE Start(c)
  BY <1>1 DEF Start, Places
<1>2. CASE BuildPath(c)
  BY <1>2 DEF BuildPath, Places
<1>3. CASE EnsureConfigured(c)
  BY <1>3 DEF EnsureConfigured, Places
<1>4. CASE LoadConfig(c)
  <2>1. PICK a \in RoundTripsOf(c) :
          \/ /\ a = "ok"
             /\ \E config \in ServerConfigs : settings' = Merge(config)
             /\ configured' = TRUE
             /\ mu' = Nobody
             /\ Goes(c, "path")
             /\ UNCHANGED result
          \/ /\ Retries(c, a)
             /\ Goes(c, "configWait")
             /\ UNCHANGED <<client, result>>
          \/ /\ a # "ok" /\ ~Retries(c, a)
             /\ Returns(c, a)
             /\ UNCHANGED <<configured, settings>>
    BY <1>4 DEF LoadConfig
  <2>2. /\ pc[c] = "config" /\ mu = c /\ ~configured
        /\ UNCHANGED <<kind, ctx, attempt, carried, sends, effect>>
    BY <1>4 DEF LoadConfig
  <2>3. CASE a = "ok" /\ \E config \in ServerConfigs : settings' = Merge(config)
             /\ configured' = TRUE /\ mu' = Nobody /\ Goes(c, "path") /\ UNCHANGED result
    BY <2>2, <2>3, MergeType DEF Places
  <2>4. CASE Retries(c, a) /\ Goes(c, "configWait") /\ UNCHANGED <<client, result>>
    BY <2>2, <2>4 DEF Places, Retries
  <2>5. CASE a # "ok" /\ ~Retries(c, a) /\ Returns(c, a) /\ UNCHANGED <<configured, settings>>
    <3>1. result' = [result EXCEPT ![c] = [kind |-> a, loading |-> TRUE]]
      BY <2>2, <2>5 DEF Returns
    <3>2. /\ pc' = [pc EXCEPT ![c] = "done"] /\ mu' = Nobody
          /\ UNCHANGED <<configured, settings>>
      BY <2>2, <2>5 DEF Returns
    <3>3. a \in RoundTrips \ {"ok"}
      BY <2>5 DEF RoundTripsOf, RoundTrips, Local
    <3>4. TypeOK'
      BY <2>2, <3>1, <3>2, <3>3 DEF Places, Outcomes, RoundTrips
    <3>5. result'[c].kind = a /\ result'[c].loading = TRUE
      BY <3>1
    <3>6. CallOK(c)'
      BY <2>2, <3>2, <3>3, <3>5
    <3>7. ASSUME NEW d \in Calls, d # c PROVE CallOK(d)'
      BY <2>2, <3>1, <3>2, <3>7
    <3> QED BY <2>2, <3>2, <3>4, <3>6, <3>7
  <2> QED BY <2>1, <2>3, <2>4, <2>5
<1>5. CASE TakePrefix(c)
  BY <1>5 DEF TakePrefix, Places
<1>6. CASE TakeHeaders(c)
  BY <1>6 DEF TakeHeaders, Places
<1>7. CASE Operation(c)
  <2>1. PICK a \in RoundTripsOf(c) :
          /\ ~(a = "body" /\ kind[c] = "mutation")
          /\ effect' \in {[effect EXCEPT ![c] = e] : e \in EffectsOf(c, a)}
          /\ sends' = [sends EXCEPT ![c] = IF a = "auth" THEN @ ELSE @ + 1]
          /\ IF Retries(c, a)
               THEN Goes(c, "opWait") /\ UNCHANGED <<mu, result>>
               ELSE Returns(c, a)
    BY <1>7 DEF Operation
  <2>2. pc[c] = "op" /\ mu # c /\ configured /\ carried[c] = settings
    BY <1>7 DEF Operation
  <2>3. UNCHANGED <<configured, settings, kind, ctx, attempt, carried>>
    BY <1>7 DEF Operation
  <2>4. PICK e \in EffectsOf(c, a) : effect' = [effect EXCEPT ![c] = e]
    BY <2>1
  <2>5. e \in {"none", "pending", "applied"}
    BY <2>4 DEF EffectsOf
  <2>6. sends'[c] \in 0..MaxAttempts /\ sends'[c] <= attempt[c]
    BY <2>1, <2>2
  <2>7. a \in RoundTrips
    BY DEF RoundTripsOf, RoundTrips, Local
  <2>8. mu' = mu
    BY <2>1, <2>2 DEF Returns
  <2>9. ASSUME NEW d \in Calls, d # c PROVE CallOK(d)'
    BY <2>1, <2>2, <2>3, <2>4, <2>8, <2>9 DEF Returns
  <2>10. CASE Retries(c, a)
    <3>1. kind[c] = "read" /\ attempt[c] < MaxAttempts
      BY <2>2, <2>10 DEF Retries
    <3>2. pc' = [pc EXCEPT ![c] = "opWait"] /\ result' = result
      BY <2>1, <2>10
    <3>3. CallOK(c)'
      BY <2>1, <2>2, <2>3, <2>6, <2>8, <3>1, <3>2
    <3>4. TypeOK'
      BY <2>1, <2>3, <2>4, <2>5, <2>6, <2>8, <3>2 DEF Places
    <3> QED BY <2>3, <2>8, <2>9, <3>3, <3>4
  <2>11. CASE ~Retries(c, a)
    <3>0. (pc[c] \in LoadPlaces) = FALSE
      BY <2>2
    <3>1. /\ pc' = [pc EXCEPT ![c] = "done"]
          /\ result' = [result EXCEPT ![c] = [kind |-> a, loading |-> FALSE]]
      BY <2>1, <2>11, <3>0, Zenon DEF Returns
    <3>2. TypeOK'
      BY <2>1, <2>3, <2>4, <2>5, <2>6, <2>7, <2>8, <3>1
         DEF Places, Outcomes, RoundTrips
    <3>3. /\ result'[c].kind = a /\ ~result'[c].loading /\ pc'[c] = "done"
          /\ effect'[c] = e /\ effect'[c] \in EffectsOf(c, a)
      BY <2>4, <3>1
    <3>4. kind[c] = "mutation" =>
            /\ sends'[c] <= 1
            /\ a = "ok" => e = "applied"
            /\ a # "ok" /\ ~IsMutationOutcomeUncertain(result'[c]) => e = "none"
            /\ IsMutationOutcomeUncertain(result'[c]) => sends'[c] > 0
      BY <2>1, <2>2, <2>6, <2>7, <3>3
         DEF EffectsOf, IsMutationOutcomeUncertain, RoundTrips, Statuses, Local
    <3>5. IsNotFound(result'[c]) => sends'[c] > 0
      BY <2>1, <2>2, <3>3 DEF IsNotFound
    <3>6. CallOK(c)'
      BY <2>2, <2>3, <2>6, <2>8, <3>3, <3>4, <3>5
    <3> QED BY <2>3, <2>8, <2>9, <3>2, <3>6
  <2> QED BY <2>10, <2>11
<1>8. CASE RetryDelayEnds(c)
  BY <1>8 DEF RetryDelayEnds, Places
<1>9. CASE RetryDelayCancelled(c)
  <2>1. TypeOK' /\ (mu = Nobody \/ ~configured)'
    BY <1>9 DEF RetryDelayCancelled, Returns, Places, Outcomes
  <2>2. /\ kind[c] = "read" \/ pc[c] = "configWait"
        /\ result'[c].kind = "cancelled" /\ pc'[c] = "done"
        /\ pc[c] = "opWait" => ~IsNotFound(result'[c])
    BY <1>9 DEF RetryDelayCancelled, Returns, IsNotFound
  <2>3. result'[c].loading => pc[c] = "configWait"
    BY <1>9 DEF RetryDelayCancelled, Returns
  <2>4. CallOK(c)'
    BY <1>9, <2>2, <2>3 DEF RetryDelayCancelled, Returns, IsNotFound
  <2>5. ASSUME NEW d \in Calls, d # c PROVE CallOK(d)'
    BY <1>9, <2>5 DEF RetryDelayCancelled, Returns
  <2> QED BY <2>1, <2>4, <2>5
<1>10. CASE Cancel(c)
  BY <1>10 DEF Cancel
<1>11. CASE LateEffect(c)
  BY <1>11 DEF LateEffect
<1> QED BY <1>1, <1>2, <1>3, <1>4, <1>5, <1>6, <1>7, <1>8, <1>9, <1>10, <1>11 DEF Step

\* The invariant is inductive.
LEMMA InvStep == ClientInv /\ [Next]_vars => ClientInv'
<1>1. ASSUME ClientInv, UNCHANGED vars PROVE ClientInv'
  BY <1>1 DEF vars, ClientInv, TypeOK, CallInv, Attempts, MutationSentOnce,
     DefiniteOutcomes, SameSettings
<1> QED BY <1>1, Steps DEF Next, Finished

LEMMA Invariant == Spec => []ClientInv
BY InitInv, InvStep, PTL DEF Spec

\* Every reachable state is well typed.
THEOREM TypeCorrect == Spec => []TypeOK
<1>1. ClientInv => TypeOK
  BY DEF ClientInv
<1> QED BY <1>1, Invariant, PTL

\* No mutation is ever handed to the transport twice.
THEOREM MutationsAreSentOnce == Spec => []MutationSentOnce
<1>1. ClientInv => MutationSentOnce
  BY DEF ClientInv
<1> QED BY <1>1, Invariant, PTL

\* A definite answer to a mutation is true of the catalog, forever.
THEOREM DefiniteOutcomesAreTrue == Spec => []DefiniteOutcomes
<1>1. ClientInv => DefiniteOutcomes
  BY DEF ClientInv
<1> QED BY <1>1, Invariant, PTL

\* All operations of a client carry the settings of the one load.
THEOREM OperationsShareSettings == Spec => []SameSettings
<1>1. ClientInv => SameSettings
  BY DEF ClientInv
<1> QED BY <1>1, Invariant, PTL

\* A 404 explained as a missing object is the operation's own.
THEOREM ExplainedNotFoundIsTheOperations == Spec => []ExplainedNotFoundWasAnswered
<1>1. ClientInv => ExplainedNotFoundWasAnswered
  BY DEF ClientInv, CallInv, ExplainedNotFoundWasAnswered, ExplainableNotFound,
     IsConfigurationFailure, IsNotFound, Statuses
<1> QED BY <1>1, Invariant, PTL

\* Once loaded, the settings never change.
THEOREM SettingsAreLoadedOnce == Spec => LoadedOnce
<1>1. ClientInv /\ [Next]_vars => [configured => UNCHANGED <<configured, settings>>]_vars
  <2> SUFFICES ASSUME ClientInv, [Next]_vars, configured
               PROVE  UNCHANGED <<configured, settings>>
    OBVIOUS
  <2>1. ASSUME NEW c \in Calls, LoadConfig(c) PROVE FALSE
    BY <2>1, NobodyAssumption DEF LoadConfig, ClientInv, CallInv, LoadPlaces
  <2> QED BY <2>1 DEF Next, vars, Finished, Step, Start, BuildPath, EnsureConfigured,
          TakePrefix, TakeHeaders, Operation, RetryDelayEnds, RetryDelayCancelled, Cancel,
          LateEffect, client, Returns
<1> QED BY <1>1, Invariant, PTL DEF Spec, LoadedOnce

-----------------------------------------------------------------------------
(* What a caller sees.                                                     *)

\* A read never has an effect.
ReadsInv == \A c \in Calls : kind[c] = "read" => effect[c] = "none"

LEMMA ReadsStep == ClientInv /\ ReadsInv /\ [Next]_vars => ReadsInv'
<1> SUFFICES ASSUME ClientInv, ReadsInv, [Next]_vars PROVE ReadsInv'
  OBVIOUS
<1> USE DEF ClientInv, TypeOK, ReadsInv
<1>1. ASSUME NEW c \in Calls, Operation(c) PROVE ReadsInv'
  BY <1>1 DEF Operation, EffectsOf
<1>2. ASSUME NEW c \in Calls, LateEffect(c) PROVE ReadsInv'
  BY <1>2 DEF LateEffect
<1>3. ASSUME UNCHANGED <<kind, effect>> PROVE ReadsInv'
  BY <1>3
<1> QED BY <1>1, <1>2, <1>3 DEF Next, Step, Finished, vars, Start, BuildPath, EnsureConfigured,
     LoadConfig, TakePrefix, TakeHeaders, RetryDelayEnds, RetryDelayCancelled, Cancel

LEMMA ReadsHaveNoEffect == Spec => []ReadsInv
<1>1. Init => ReadsInv
  BY DEF Init, ReadsInv
<1> QED BY <1>1, ReadsStep, Invariant, PTL DEF Spec

\* A step that leaves results, effects and who is done alone is invisible.
LEMMA InvisibleStep ==
    ASSUME TypeOK, NEW c \in Calls, NEW place \in Places, pc[c] # "done", place # "done",
           pc' = [pc EXCEPT ![c] = place], UNCHANGED <<kind, result, effect>>
    PROVE  [Remote!Next]_<<kind, [d \in Calls |-> AnswerTo(d)], effect>>
BY DEF TypeOK, AnswerTo, Meaning, IsNotFound, IsMutationOutcomeUncertain

\* The step in which a call returns with a result is the answer to its caller.
LEMMA AnswerStep ==
    ASSUME TypeOK, NEW c \in Calls, pc[c] # "done", NEW r \in Outcomes, r.kind # "none",
           pc' = [pc EXCEPT ![c] = "done"], result' = [result EXCEPT ![c] = r], kind' = kind,
           NEW e, effect' = [effect EXCEPT ![c] = e],
           kind[c] = "read" => e = "none",
           kind[c] = "mutation" =>
              /\ r.kind = "ok" => e = "applied"
              /\ r.kind # "ok" /\ ~IsMutationOutcomeUncertain(r) => e = "none"
              /\ e \in {"none", "pending", "applied"}
    PROVE  Remote!Next
<1>1. pc'[c] = "done" /\ result'[c] = r
  BY DEF TypeOK
<1>2. AnswerTo(c) = "none" /\ AnswerTo(c)' = Meaning(r)
  BY <1>1 DEF AnswerTo, Meaning, IsNotFound, IsMutationOutcomeUncertain
<1>3. \A d \in Calls \ {c} : AnswerTo(d)' = AnswerTo(d)
  BY DEF TypeOK, AnswerTo, Meaning, IsNotFound, IsMutationOutcomeUncertain
<1>4. Meaning(r) \in Remote!Answers
  BY DEF Remote!Answers, Meaning
<1>5. e \in Remote!Effects(kind[c], Meaning(r))
  <2>1. kind[c] \in {"read", "mutation"}
    BY DEF TypeOK
  <2>2. /\ r.kind = "ok" => Meaning(r) = "ok"
        /\ r.kind # "ok" /\ IsMutationOutcomeUncertain(r) => Meaning(r) = "uncertain"
        /\ r.kind # "ok" /\ ~IsMutationOutcomeUncertain(r) => Meaning(r) \in {"notfound", "rejected"}
    BY DEF Meaning, IsNotFound, IsMutationOutcomeUncertain
  <2> QED BY <2>1, <2>2 DEF Remote!Effects
<1>6. [d \in Calls |-> AnswerTo(d)]' = [[d \in Calls |-> AnswerTo(d)] EXCEPT ![c] = Meaning(r)]
  BY <1>2, <1>3
<1>7. [d \in Calls |-> AnswerTo(d)][c] = "none"
  BY <1>2
<1> QED BY <1>4, <1>5, <1>6, <1>7 DEF Remote!Next, Remote!Answer

LEMMA LateStep ==
    ASSUME NEW c \in Calls, LateEffect(c)
    PROVE  Remote!Next
<1>1. [d \in Calls |-> AnswerTo(d)]' = [d \in Calls |-> AnswerTo(d)]
  BY DEF LateEffect, AnswerTo, Meaning, IsNotFound, IsMutationOutcomeUncertain
<1> QED BY <1>1 DEF LateEffect, Remote!Next, Remote!Late

\* Every step is an answer, a late effect, or invisible.
LEMMA RemoteStep ==
    ASSUME ClientInv, ReadsInv, [Next]_vars
    PROVE  [Remote!Next]_<<kind, [d \in Calls |-> AnswerTo(d)], effect>>
<1> USE DEF Goes
<1>0. TypeOK /\ TypeOK'
  BY InvStep DEF ClientInv
<1>1. ASSUME UNCHANGED <<kind, pc, result, effect>>
      PROVE  [Remote!Next]_<<kind, [d \in Calls |-> AnswerTo(d)], effect>>
  BY <1>1 DEF AnswerTo, Meaning, IsNotFound, IsMutationOutcomeUncertain
<1>2. ASSUME NEW c \in Calls, Start(c) \/ BuildPath(c) \/ EnsureConfigured(c) \/ TakePrefix(c)
                              \/ TakeHeaders(c) \/ RetryDelayEnds(c)
      PROVE  [Remote!Next]_<<kind, [d \in Calls |-> AnswerTo(d)], effect>>
  <2>1. /\ UNCHANGED <<kind, result, effect>>
        /\ pc[c] # "done"
        /\ \E place \in Places \ {"done"} : pc' = [pc EXCEPT ![c] = place]
    BY <1>2 DEF Start, BuildPath, EnsureConfigured, TakePrefix, TakeHeaders, RetryDelayEnds,
         Places, LoadPlaces
  <2> QED BY <1>0, <2>1, InvisibleStep
<1>3. ASSUME NEW c \in Calls, LoadConfig(c)
      PROVE  [Remote!Next]_<<kind, [d \in Calls |-> AnswerTo(d)], effect>>
  <2>1. pc[c] = "config" /\ UNCHANGED <<kind, effect>>
    BY <1>3 DEF LoadConfig
  <2>2. CASE \E place \in Places \ {"done"} : pc' = [pc EXCEPT ![c] = place] /\ result' = result
    BY <1>0, <2>1, <2>2, InvisibleStep
  <2>3. CASE \E a \in RoundTrips : a # "ok" /\ Returns(c, a)
    <3>1. PICK a \in RoundTrips : a # "ok" /\ Returns(c, a)
      BY <2>3
    <3> DEFINE r == [kind |-> a, loading |-> TRUE]
    <3>2. /\ pc' = [pc EXCEPT ![c] = "done"]
          /\ result' = [result EXCEPT ![c] = r]
      BY <2>1, <3>1 DEF Returns, LoadPlaces
    <3>3. r \in Outcomes /\ r.kind # "none" /\ r.kind # "ok"
      BY <3>1 DEF Outcomes, RoundTrips, Statuses, Local
    <3>4. effect[c] = "none" /\ effect' = [effect EXCEPT ![c] = "none"]
      BY <1>0, <2>1 DEF ClientInv, CallInv, TypeOK
    <3> QED BY <1>0, <2>1, <3>2, <3>3, <3>4, AnswerStep
  <2> QED BY <1>3, <2>2, <2>3 DEF LoadConfig, RoundTripsOf, RoundTrips, Local, Places, LoadPlaces, client
<1>4. ASSUME NEW c \in Calls, Operation(c)
      PROVE  [Remote!Next]_<<kind, [d \in Calls |-> AnswerTo(d)], effect>>
  <2>0. PICK a \in RoundTripsOf(c) :
          /\ ~(a = "body" /\ kind[c] = "mutation")
          /\ \E e \in EffectsOf(c, a) : effect' = [effect EXCEPT ![c] = e]
          /\ IF Retries(c, a)
               THEN pc' = [pc EXCEPT ![c] = "opWait"] /\ UNCHANGED <<mu, result>>
               ELSE Returns(c, a)
    BY <1>4 DEF Operation
  <2>1. PICK e \in EffectsOf(c, a) : effect' = [effect EXCEPT ![c] = e]
    BY <2>0
  <2>2. pc[c] = "op" /\ kind' = kind /\ kind[c] \in {"read", "mutation"}
    BY <1>0, <1>4 DEF Operation, TypeOK
  <2>3. a \in RoundTrips
    BY DEF RoundTripsOf, RoundTrips, Local
  <2>4. kind[c] = "read" => e = "none"
    BY DEF EffectsOf, ReadsInv
  <2>5. CASE Retries(c, a)
    <3>1. kind[c] = "read"
      BY <2>2, <2>5 DEF Retries, Attempts, ClientInv, CallInv, LoadPlaces
    <3>2. effect' = effect
      BY <1>0, <2>1, <2>4, <3>1 DEF ReadsInv, TypeOK
    <3> QED BY <1>0, <2>0, <2>2, <2>5, <3>2, InvisibleStep DEF Places
  <2>6. CASE ~Retries(c, a)
    <3> DEFINE r == [kind |-> a, loading |-> FALSE]
    <3>0. (pc[c] \in LoadPlaces) = FALSE
      BY <2>2 DEF LoadPlaces
    <3>1. /\ pc' = [pc EXCEPT ![c] = "done"]
          /\ result' = [result EXCEPT ![c] = r]
      BY <2>0, <2>6, <3>0, Zenon DEF Returns
    <3>2. r \in Outcomes /\ r.kind # "none" /\ r.kind = a
      BY <2>3 DEF Outcomes, RoundTrips, Statuses, Local
    <3>3. kind[c] = "mutation" =>
            /\ a = "ok" => e = "applied"
            /\ a # "ok" /\ ~IsMutationOutcomeUncertain(r) => e = "none"
            /\ e \in {"none", "pending", "applied"}
      BY <2>0, <2>3, <3>2 DEF EffectsOf, IsMutationOutcomeUncertain, RoundTrips, Statuses, Local
    <3> HIDE DEF r
    <3> QED BY <1>0, <2>1, <2>2, <2>4, <3>1, <3>2, <3>3, AnswerStep
  <2> QED BY <2>5, <2>6
<1>5. ASSUME NEW c \in Calls, RetryDelayCancelled(c)
      PROVE  [Remote!Next]_<<kind, [d \in Calls |-> AnswerTo(d)], effect>>
  <2>1. pc[c] \in {"configWait", "opWait"} /\ UNCHANGED <<kind, effect>>
    BY <1>5 DEF RetryDelayCancelled
  <2> DEFINE loading == pc[c] \in LoadPlaces
  <2>2. /\ pc' = [pc EXCEPT ![c] = "done"]
        /\ result' = [result EXCEPT ![c] = [kind |-> "cancelled", loading |-> loading]]
    BY <1>5, Zenon DEF RetryDelayCancelled, Returns
  <2>5. loading \in BOOLEAN
    OBVIOUS
  <2> DEFINE r == [kind |-> "cancelled", loading |-> loading]
  <2> HIDE DEF loading
  <2>3. r \in Outcomes /\ r.kind = "cancelled"
    BY <2>5 DEF Outcomes
  <2>4. effect[c] = "none" /\ effect' = [effect EXCEPT ![c] = "none"]
    BY <1>0, <2>1 DEF ClientInv, CallInv, TypeOK, ReadsInv, Attempts, LoadPlaces
  <2> HIDE DEF r
  <2> QED BY <1>0, <2>1, <2>2, <2>3, <2>4, AnswerStep DEF r
<1>6. ASSUME NEW c \in Calls, Cancel(c) PROVE UNCHANGED <<kind, pc, result, effect>>
  BY <1>6 DEF Cancel
<1>7. ASSUME NEW c \in Calls, LateEffect(c) PROVE Remote!Next
  BY <1>7, LateStep
<1>8. ASSUME Finished \/ UNCHANGED vars PROVE UNCHANGED <<kind, pc, result, effect>>
  BY <1>8 DEF Finished, vars
<1> QED BY <1>1, <1>2, <1>3, <1>4, <1>5, <1>6, <1>7, <1>8 DEF Next, Step

\* The client, shared by any number of operations, is to each of them what
\* RemoteCalls promises.
THEOREM CallsAreRemoteCalls == Spec => ImplementsRemoteCalls
<1>1. Init => Remote!Init
  BY DEF Init, Remote!Init, AnswerTo
<1>2. ClientInv /\ ReadsInv /\ [Next]_vars =>
        [Remote!Next]_<<kind, [c \in Calls |-> AnswerTo(c)], effect>>
  BY RemoteStep
<1> QED BY <1>1, <1>2, Invariant, ReadsHaveNoEffect, PTL
     DEF Spec, ImplementsRemoteCalls, Remote!Spec

-----------------------------------------------------------------------------
(* What is left of liveness without fairness.                              *)

\* Another call's step leaves this one where it is.
LEMMA OthersStay ==
    ASSUME TypeOK, NEW c \in Calls, NEW d \in Calls \ {c}, Step(d) \/ Cancel(d) \/ LateEffect(d)
    PROVE  UNCHANGED <<pc[c], attempt[c]>>
BY DEF TypeOK, Step, Start, BuildPath, EnsureConfigured, LoadConfig, TakePrefix, TakeHeaders,
    Operation, RetryDelayEnds, RetryDelayCancelled, Cancel, LateEffect, Goes, Returns

\* A call's own step goes on to a later place, or uses up an attempt.
LEMMA OwnStepCounts ==
    ASSUME ClientInv, NEW c \in Calls, Step(c)
    PROVE  StepsLeft(c)' < StepsLeft(c)
<1> USE AttemptsAssumption DEF Goes
<1>0. /\ TypeOK /\ attempt[c] \in 1..MaxAttempts /\ MaxAttempts \in Nat
      /\ pc[c] \in {"configWait", "opWait"} => attempt[c] < MaxAttempts
  BY DEF ClientInv, CallInv, TypeOK, Attempts
<1>1. CASE Start(c) \/ BuildPath(c) \/ EnsureConfigured(c)
  BY <1>0, <1>1 DEF Start, BuildPath, EnsureConfigured, StepsLeft, TypeOK
<1>2. CASE LoadConfig(c)
  <2>1. pc[c] = "config" /\ attempt' = attempt /\ pc'[c] \in {"path", "configWait", "done"}
    BY <1>0, <1>2 DEF LoadConfig, Returns, TypeOK
  <2> QED BY <1>0, <2>1 DEF StepsLeft
<1>3. CASE TakePrefix(c) \/ TakeHeaders(c)
  BY <1>0, <1>3 DEF TakePrefix, TakeHeaders, StepsLeft, TypeOK
<1>4. CASE Operation(c)
  <2>1. pc[c] = "op" /\ attempt' = attempt /\ pc'[c] \in {"opWait", "done"}
    BY <1>0, <1>4 DEF Operation, Returns, TypeOK
  <2> QED BY <1>0, <2>1 DEF StepsLeft
<1>5. CASE RetryDelayEnds(c)
  <2>1. /\ attempt'[c] = attempt[c] + 1
        /\ \/ pc[c] = "configWait" /\ pc'[c] = "config"
           \/ pc[c] = "opWait" /\ pc'[c] = "op"
    BY <1>0, <1>5 DEF RetryDelayEnds, TypeOK
  <2> QED BY <1>0, <2>1 DEF StepsLeft
<1>6. CASE RetryDelayCancelled(c)
  <2>1. pc[c] \in {"configWait", "opWait"} /\ attempt' = attempt /\ pc'[c] = "done"
    BY <1>0, <1>6 DEF RetryDelayCancelled, Returns, TypeOK
  <2> QED BY <1>0, <2>1 DEF StepsLeft
<1> QED BY <1>1, <1>2, <1>3, <1>4, <1>5, <1>6 DEF Step

\* A call returns after a bounded number of steps of its own, whatever answers
\* it gets and whatever the others do.
THEOREM EveryCallIsBounded == Spec => CallsAreBounded
<1>1. ClientInv /\ [Next]_vars =>
        [\A c \in Calls :
           \/ UNCHANGED <<pc[c], attempt[c]>>
           \/ StepsLeft(c)' < StepsLeft(c)]_vars
  <2> SUFFICES ASSUME ClientInv, Next, NEW c \in Calls
               PROVE  UNCHANGED <<pc[c], attempt[c]>> \/ StepsLeft(c)' < StepsLeft(c)
    OBVIOUS
  <2>1. CASE Step(c)
    BY <2>1, OwnStepCounts
  <2>2. CASE Cancel(c) \/ LateEffect(c)
    BY <2>2 DEF Cancel, LateEffect
  <2>3. CASE \E d \in Calls \ {c} : Step(d) \/ Cancel(d) \/ LateEffect(d)
    BY <2>3, OthersStay DEF ClientInv
  <2>4. CASE Finished
    BY <2>4 DEF Finished, vars
  <2> QED BY <2>1, <2>2, <2>3, <2>4 DEF Next
<1> QED BY <1>1, Invariant, PTL DEF Spec, CallsAreBounded

\* The calls never wait for each other: a call that holds the mutex is loading
\* the configuration, and can go on.
THEOREM CallsNeverDeadlock == Spec => []SomeCallGoesOn
<1>1. ClientInv => SomeCallGoesOn
  BY DEF ClientInv, TypeOK, CallInv, SomeCallGoesOn, WaitsForMutex, LoadPlaces
<1> QED BY <1>1, Invariant, PTL
=============================================================================
