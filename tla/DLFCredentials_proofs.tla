------------------------ MODULE DLFCredentials_proofs ------------------------
(***************************************************************************)
(* Proofs about DLFCredentials, for every set of concurrent requests,      *)
(* every refresh margin and every number of attempts: requests load one at *)
(* a time, the cache never goes back, no expired credential is handed out, *)
(* and a request fails only when there is none to fall back on.            *)
(***************************************************************************)
EXTENDS DLFCredentials, TLAPS

\* Exactly the request that loads holds the mutex; so nobody else holds a
\* reading of the file when one is taken.
MutexInv ==
    /\ \A c \in Callers : pc[c] \in LoadPlaces <=> mu = c
    /\ \A c \in Callers : earlier[c] = {}
    /\ overtaken = {}

\* A request that judges has a credential; one that will retry may.
ReadingInv == \A c \in Callers :
    /\ pc[c] = "judge" => loaded[c] # None
    /\ pc[c] = "retry" => AttemptsLeft(c)

ProviderInv == TypeOK /\ MutexInv /\ ReadingInv

LEMMA ExpiriesAreNaturals == Expiries \subseteq Nat /\ None \notin Expiries
BY NatAssumption DEF Expiries

LEMMA InitProvider == Init => ProviderInv
BY NobodyAssumption, NatAssumption DEF Init, ProviderInv, TypeOK, MutexInv, ReadingInv, AttemptsLeft, LoadPlaces, Expiries

\* What falling back leaves: the mutex is free and the request has its answer.
LEMMA FallsBackFacts ==
    ASSUME TypeOK, NEW c \in Callers, FallsBack(c)
    PROVE  /\ pc' = [pc EXCEPT ![c] = "done"]
           /\ result' \in [Callers -> Expiries \cup {None, Error}]
           /\ mu' = Nobody
           /\ current' = current
BY DEF TypeOK, FallsBack, Returns, Goes, CurrentUsable

\* One step of one request.
LEMMA CallerStep ==
    ASSUME ProviderInv, NEW c \in Callers,
           Call(c) \/ Lock(c) \/ Provider(c) \/ Sign(c) \/ Cancel(c)
    PROVE  ProviderInv'
<1> USE NobodyAssumption, NatAssumption DEF ProviderInv, TypeOK, MutexInv, ReadingInv, LoadPlaces,
        Goes, history, AttemptsLeft
<1>1. CASE Call(c)
  BY <1>1 DEF Call
<1>2. CASE Lock(c)
  <2>1. CASE pc' = [pc EXCEPT ![c] = "done"]
    BY <1>2, <2>1 DEF Lock, Returns, MutexFree
  <2>2. CASE pc' = [pc EXCEPT ![c] = "load"]
    BY <1>2, <2>2 DEF Lock, Returns, MutexFree
  <2> QED BY <1>2, <2>1, <2>2 DEF Lock, Returns
<1>3. CASE ReadFile(c)
  <2>1. CASE file # Broken
    <3>1. {d \in Callers \ {c} : pc[d] = "judge"} = {}
      BY <1>3 DEF ReadFile
    <3>2. earlier' = earlier
      BY <1>3, <2>1, <3>1 DEF ReadFile
    <3> QED BY <1>3, <2>1, <3>2, ExpiriesAreNaturals DEF ReadFile
  <2>2. CASE file = Broken /\ AttemptsLeft(c)
    BY <1>3, <2>2 DEF ReadFile
  <2>3. CASE file = Broken /\ ~AttemptsLeft(c)
    BY <1>3, <2>3, FallsBackFacts DEF ReadFile
  <2> QED BY <2>1, <2>2, <2>3
<1>4. CASE RetryDelayEnds(c)
  <2>1. attempt[c] + 1 \in 1..MaxAttempts
    BY <1>4 DEF RetryDelayEnds
  <2> QED BY <1>4, <2>1 DEF RetryDelayEnds
<1>5. CASE RetryDelayCancelled(c)
  BY <1>5, FallsBackFacts DEF RetryDelayCancelled
<1>6. CASE Judge(c)
  <2>1. overtaken' = {} /\ earlier' = earlier
    BY <1>6 DEF Judge
  <2>2. CASE Usable(loaded[c])
    BY <1>6, <2>1, <2>2 DEF Judge, Returns
  <2>3. CASE ~Usable(loaded[c])
    BY <1>6, <2>1, <2>3, FallsBackFacts DEF Judge
  <2> QED BY <2>2, <2>3
<1>7. CASE Sign(c)
  BY <1>7 DEF Sign, request
<1>8. CASE Cancel(c)
  BY <1>8 DEF Cancel
<1> QED BY <1>1, <1>2, <1>3, <1>4, <1>5, <1>6, <1>7, <1>8 DEF Provider

LEMMA ProviderStep == ProviderInv /\ [Next]_vars => ProviderInv'
<1> SUFFICES ASSUME ProviderInv, [Next]_vars PROVE ProviderInv'
  OBVIOUS
<1>1. CASE Tick
  BY <1>1, NatAssumption DEF Tick, request, history, ProviderInv, TypeOK, MutexInv, ReadingInv, AttemptsLeft
<1>2. ASSUME NEW content \in Expiries \cup {Broken}, Rewrite(content) PROVE ProviderInv'
  BY <1>2 DEF Rewrite, request, history, ProviderInv, TypeOK, MutexInv, ReadingInv, AttemptsLeft
<1>3. CASE UNCHANGED vars
  BY <1>3 DEF vars, request, history, ProviderInv, TypeOK, MutexInv, ReadingInv, AttemptsLeft
<1> QED BY <1>1, <1>2, <1>3, CallerStep DEF Next

\* Every reachable state is well typed, for every set of requests.
THEOREM TypeCorrect == Spec => []TypeOK
<1>1. ProviderInv => TypeOK
  BY DEF ProviderInv
<1> QED BY <1>1, InitProvider, ProviderStep, PTL DEF Spec

\* A renewed credential is never replaced by its predecessor: requests read the
\* file and cache what they read one after the other.
THEOREM CacheOnlyAdvances == Spec => []CacheNeverGoesBack
<1>1. ProviderInv => CacheNeverGoesBack
  BY DEF ProviderInv, MutexInv, CacheNeverGoesBack
<1> QED BY <1>1, InitProvider, ProviderStep, PTL DEF Spec

-----------------------------------------------------------------------------
\* How a request is answered: with a credential that is usable now, or with an
\* error when the cached one is not.
LEMMA Answers ==
    ASSUME ProviderInv, [Next]_vars, NEW c \in Callers, Answered(c)
    PROVE  /\ now' = now
           /\ \/ result'[c] # Error /\ Usable(result'[c])
              \/ result'[c] = Error /\ current' = current /\ ~CurrentUsable
<1> USE DEF ProviderInv, TypeOK, Answered, Goes
<1>0. Error \notin Expiries
  BY NatAssumption, ExpiriesAreNaturals
<1>1. Lock(c) \/ Provider(c)
  BY DEF Next, vars, Call, Lock, Provider, ReadFile, RetryDelayEnds, RetryDelayCancelled, Judge,
     Sign, Cancel, Tick, Rewrite, FallsBack, Returns
<1>2. CASE Lock(c)
  <2>1. current # None /\ ~ShouldRefresh(current) /\ result'[c] = current /\ now' = now
    BY <1>2 DEF Lock, Returns
  <2>2. current \in Expiries /\ now \in 0..MaxTime
    BY <2>1
  <2>3. current \in Nat /\ now \in Nat
    BY <2>2, NatAssumption, ExpiriesAreNaturals
  <2>4. Usable(current)
    BY <2>1, <2>3, NatAssumption DEF ShouldRefresh, Usable
  <2> QED BY <1>0, <2>1, <2>2, <2>4 DEF Usable
<1>3. CASE FallsBack(c) /\ now' = now
  BY <1>0, <1>3 DEF FallsBack, Returns, CurrentUsable
<1>4. CASE Judge(c) /\ Usable(loaded[c])
  <2>1. result'[c] = loaded[c] /\ now' = now
    BY <1>4 DEF Judge, Returns
  <2>2. loaded[c] \in Expiries
    BY <1>4 DEF ReadingInv, Judge
  <2> QED BY <1>0, <1>4, <2>1, <2>2
<1>5. Provider(c) => (FallsBack(c) /\ now' = now) \/ (Judge(c) /\ Usable(loaded[c]))
  BY DEF Provider, ReadFile, RetryDelayEnds, RetryDelayCancelled, Judge
<1> QED BY <1>1, <1>2, <1>3, <1>4, <1>5

\* No request is given an expired credential, however long loading took.
THEOREM AnswersAreUsable == Spec => NeverAnswersExpired
<1>1. ProviderInv /\ [Next]_vars =>
        [\A c \in Callers : Answered(c) /\ result'[c] # Error => Usable(result'[c])]_vars
  BY Answers
<1> QED BY <1>1, InitProvider, ProviderStep, PTL DEF Spec, NeverAnswersExpired

\* A broken file, a cancelled request or a stale reading never costs a request
\* the usable credential that is cached.
THEOREM FailuresAreNecessary == Spec => FailsOnlyWithoutUsable
<1>1. ProviderInv /\ [Next]_vars =>
        [\A c \in Callers : Answered(c) /\ result'[c] = Error =>
            current' = None \/ ~Usable(current')]_vars
  <2> SUFFICES ASSUME ProviderInv, [Next]_vars, NEW c \in Callers, Answered(c), result'[c] = Error
               PROVE  current' = None \/ ~Usable(current')
    OBVIOUS
  <2> QED BY Answers DEF CurrentUsable, Usable
<1> QED BY <1>1, InitProvider, ProviderStep, PTL DEF Spec, FailsOnlyWithoutUsable

-----------------------------------------------------------------------------
\* The other requests' part in a step of one request.
LEMMA OthersStay ==
    ASSUME TypeOK, NEW c \in Callers, Call(c) \/ Lock(c) \/ Provider(c) \/ Sign(c) \/ Cancel(c),
           NEW d \in Callers, d # c
    PROVE  pc'[d] = pc[d] /\ attempt'[d] = attempt[d]
BY DEF TypeOK, Call, Lock, Provider, ReadFile, RetryDelayEnds, RetryDelayCancelled, Judge, Sign,
   Cancel, FallsBack, Returns, Goes, request, history

\* A request's own step: retries leave fewer attempts, everything else leads to
\* the answer.
LEMMA OwnStepCounts ==
    ASSUME ProviderInv, NEW c \in Callers, pc[c] \notin {"idle", "done"},
           Call(c) \/ Lock(c) \/ Provider(c) \/ Sign(c) \/ Cancel(c)
    PROVE  \/ pc'[c] = pc[c] /\ attempt'[c] = attempt[c]
           \/ StepsLeft(c)' < StepsLeft(c)
<1> USE NatAssumption DEF ProviderInv, TypeOK, Goes, StepsLeft
<1>0. attempt[c] \in 1..MaxAttempts /\ MaxAttempts \in Nat
  OBVIOUS
<1>1. CASE Lock(c)
  <2>1. pc[c] = "lock" /\ StepsLeft(c) = 2 * MaxAttempts + 1
    BY <1>1 DEF Lock
  <2>2. CASE pc'[c] = "done"
    BY <1>0, <2>1, <2>2
  <2>3. CASE pc'[c] = "load" /\ attempt'[c] = 1
    BY <1>0, <2>1, <2>3
  <2> QED BY <1>1, <2>2, <2>3 DEF Lock, Returns
<1>2. CASE ReadFile(c)
  <2>1. pc[c] = "load" /\ attempt'[c] = attempt[c]
    BY <1>2 DEF ReadFile
  <2>2. pc'[c] \in {"judge", "retry", "done"}
    BY <1>2, FallsBackFacts DEF ReadFile
  <2> QED BY <1>0, <2>1, <2>2
<1>3. CASE RetryDelayEnds(c)
  <2>1. pc[c] = "retry" /\ pc'[c] = "load" /\ attempt'[c] = attempt[c] + 1
    BY <1>3 DEF RetryDelayEnds
  <2> QED BY <1>0, <2>1
<1>4. CASE RetryDelayCancelled(c)
  <2>1. pc[c] = "retry" /\ pc'[c] = "done" /\ attempt[c] < MaxAttempts
    BY <1>4, FallsBackFacts DEF RetryDelayCancelled, ReadingInv, AttemptsLeft
  <2> QED BY <1>0, <2>1
<1>5. CASE Judge(c)
  <2>1. pc[c] = "judge" /\ pc'[c] = "done"
    BY <1>5, FallsBackFacts DEF Judge, Returns
  <2> QED BY <2>1
<1>6. CASE Cancel(c)
  BY <1>6 DEF Cancel
<1> QED BY <1>1, <1>2, <1>3, <1>4, <1>5, <1>6 DEF Provider, Call, Sign

\* However often the file is broken or rewritten, and whatever the others do,
\* a request is at most 2 * MaxAttempts + 1 steps of its own from its answer.
THEOREM EveryRequestIsBounded == Spec => RequestsAreBounded
<1>1. ProviderInv /\ [Next]_vars =>
        [\A c \in Callers :
            \/ pc[c] \in {"idle", "done"}
            \/ pc'[c] = pc[c] /\ attempt'[c] = attempt[c]
            \/ StepsLeft(c)' < StepsLeft(c)]_vars
  <2> SUFFICES ASSUME ProviderInv, [Next]_vars, NEW c \in Callers, pc[c] \notin {"idle", "done"}
               PROVE  \/ pc'[c] = pc[c] /\ attempt'[c] = attempt[c]
                      \/ StepsLeft(c)' < StepsLeft(c)
    OBVIOUS
  <2>1. ASSUME NEW d \in Callers, Call(d) \/ Lock(d) \/ Provider(d) \/ Sign(d) \/ Cancel(d)
        PROVE  \/ pc'[c] = pc[c] /\ attempt'[c] = attempt[c]
               \/ StepsLeft(c)' < StepsLeft(c)
    <3>1. CASE c = d
      BY <2>1, <3>1, OwnStepCounts
    <3>2. CASE c # d
      BY <2>1, <3>2, OthersStay DEF ProviderInv
    <3> QED BY <3>1, <3>2
  <2>2. CASE Tick \/ (\E content \in Expiries \cup {Broken} : Rewrite(content)) \/ UNCHANGED vars
    BY <2>2 DEF Tick, Rewrite, request, vars
  <2> QED BY <2>1, <2>2 DEF Next
<1> QED BY <1>1, InitProvider, ProviderStep, PTL DEF Spec, RequestsAreBounded

\* The holder of the mutex is a request that loads, so it does not wait for it:
\* no set of requests can wait for one another.
THEOREM RequestsNeverDeadlock == Spec => []SomeRequestGoesOn
<1>1. ProviderInv => SomeRequestGoesOn
  <2> SUFFICES ASSUME ProviderInv, NEW c \in Callers, Pending(c)
               PROVE  \E d \in Callers : Pending(d) /\ ~WaitsForMutex(d)
    BY DEF SomeRequestGoesOn
  <2>1. CASE mu = Nobody
    BY <2>1 DEF WaitsForMutex
  <2>2. CASE mu # Nobody
    <3>1. mu \in Callers /\ pc[mu] \in LoadPlaces
      BY <2>2 DEF ProviderInv, TypeOK, MutexInv
    <3> QED BY <3>1 DEF Pending, WaitsForMutex, LoadPlaces
  <2> QED BY <2>1, <2>2
<1> QED BY <1>1, InitProvider, ProviderStep, PTL DEF Spec
=============================================================================
