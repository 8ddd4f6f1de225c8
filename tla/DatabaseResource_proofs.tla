----------------------- MODULE DatabaseResource_proofs -----------------------
(***************************************************************************)
(* Proofs about DatabaseResource, for every set of keys and values, every  *)
(* server default and every bound: type correctness, what a success and an *)
(* adoption mean, that unverified removals stay managed, and, when the     *)
(* configuration load never answers 404, truth of state.                   *)
(***************************************************************************)
EXTENDS DatabaseResource, TLAPS

\* The handler's inputs fit the place it is at: Terraform passes the state it
\* has, and a create that was acknowledged has been visible.
OpInv ==
    /\ pc = "create" => op.kind = "create"
    /\ pc = "alter" => op.kind = "update"
    /\ pc = "read" => op.kind \in {"read", "import"}
    /\ pc = "delete" => op.kind = "delete"
    /\ pc = "verify" => op.kind \in {"create", "update"}
    /\ pc # "idle" => IF op.kind \in {"create", "import"} THEN tf = NoState ELSE tf = op.before

\* The planned options are among those of a database in the window.
PlanShown ==
    \E d \in since \ {Missing} : \A k \in Keys : op.plan[k] # Absent => d[k] = op.plan[k]

AcceptedInv == pc = "verify" /\ op.kind = "create" /\ accepted => PlanShown

HandlerInv ==
    /\ TypeOK
    /\ OpInv
    /\ Visible \subseteq since
    /\ AcceptedInv
    /\ SuccessWasConverged
    /\ AdoptionWasExact

-----------------------------------------------------------------------------
LEMMA RequestTypes ==
    ASSUME TypeOK
    PROVE  /\ Request("create", op.plan, {}) \in Requests
           /\ Request("alter", Updates(op.before, op.plan), Removals(op.before, op.plan)) \in Requests
           /\ Request("drop", NoOptions, {}) \in Requests
BY DEF TypeOK, Request, Requests, Updates, Removals, NoOptions, Options

\* A request that can be applied leads to a database or removes it.
LEMMA AfterType ==
    ASSUME TypeOK, NEW r \in Requests, CanApply(r)
    PROVE  After(r) \in Databases
<1>1. CASE r.type = "create"
  BY <1>1, DefaultsAssumption DEF Requests, After, Databases, Options
<1>2. CASE r.type = "alter"
  <2>1. db \in Options
    BY <1>2 DEF CanApply, TypeOK, Databases
  <2> QED BY <1>2, <2>1 DEF Requests, After, Databases, Options
<1>3. CASE r.type = "drop"
  BY <1>3 DEF After, Databases
<1> QED BY <1>1, <1>2, <1>3 DEF Requests

\* A call leaves the catalog well typed and opens a window on what it left; an
\* acknowledged request is visible in it, and so is an absence, unless the 404
\* is that of the configuration load.
LEMMA SettlesFacts ==
    ASSUME TypeOK, NEW r \in Requests, NEW a, Settles(r, a)
    PROVE  /\ db' \in Databases /\ replica' \in Databases
           /\ inflight' \subseteq Requests
           /\ configured' \in BOOLEAN
           /\ since' = Visible' /\ since' \subseteq Databases
           /\ a = "ok" => CanApply(r) /\ After(r) \in since'
           /\ a = "notfound" /\ "notfound" \notin ConfigFailures => Missing \in since'
<1>1. since' = {db', replica'} /\ replica' \in {replica, db'}
  BY DEF Settles, Shows, Visible
<1>2. a # "ok" => db' = db
  BY DEF Settles, ConfigFails
<1>3. a = "ok" => CanApply(r) /\ db' = After(r)
  BY ConfigAssumption DEF Settles, ConfigFails, Failures
<1>4. db' \in Databases
  BY <1>2, <1>3, AfterType DEF TypeOK
<1>5. inflight' \subseteq Requests /\ configured' \in BOOLEAN
  BY DEF TypeOK, Settles, ConfigFails
<1>6. a = "notfound" /\ "notfound" \notin ConfigFailures => db' = Missing
  BY DEF Settles, ConfigFails
<1> QED BY <1>1, <1>3, <1>4, <1>5, <1>6 DEF TypeOK, Visible

\* Whatever a lookup sees is in the window, except a 404 of the configuration.
LEMMA SeesFacts ==
    ASSUME TypeOK, NEW d \in Databases, Sees(d)
    PROVE  /\ configured' \in BOOLEAN
           /\ d # Missing \/ "notfound" \notin ConfigFailures => d \in Visible
           /\ d # Missing => d \in Options
BY DEF TypeOK, Sees, ConfigFails, Databases

LEMMA SyncedType ==
    ASSUME NEW managed \in Options, NEW d \in Databases
    PROVE  StateAfterRead(managed, d) \in Options \cup {NoState}
BY DEF StateAfterRead, Synced, Options, Databases

-----------------------------------------------------------------------------
LEMMA TypeStep == TypeOK /\ OpInv /\ [Next]_vars => TypeOK'
<1> SUFFICES ASSUME TypeOK, OpInv, [Next]_vars PROVE TypeOK'
  OBVIOUS
<1> USE DEF TypeOK
<1>0. NoOptions \in Options
  BY DEF NoOptions, Options
<1>1. CASE Begin
  <2>1. PICK kind \in Handlers, before \in Options, plan \in Options,
             first \in {"create", "read", "alter", "delete", "verify"} :
            Start(kind, before, plan, first)
    BY <1>0, <1>1 DEF Begin, StartImport, StartRead, StartDelete, StartCreate, StartUpdate, Handlers
  <2>2. budget' \in [ops : 0..MaxOps, other : 0..MaxOther, crashes : 0..MaxCrashes]
    BY <2>1, BoundsAssumption DEF Start
  <2>3. op' \in [kind : Handlers, before : Options, plan : Options]
    BY <2>1 DEF Start
  <2> QED BY <2>1, <2>2, <2>3 DEF Start, Visible, Results
<1>2. CASE Handler
  <2>1. CASE CreateCall
    BY <2>1, RequestTypes, SettlesFacts DEF CreateCall, Reconcile, Finish, Results
  <2>2. CASE AlterCall
    BY <2>2, RequestTypes, SettlesFacts DEF AlterCall, Reconcile, Finish, Results
  <2>3. CASE DeleteCall
    BY <2>3, RequestTypes, SettlesFacts DEF DeleteCall, Finish, Results
  <2>4. CASE ReadCall
    <3>1. UNCHANGED <<db, replica, inflight, op, accepted, since, budget>> /\ pc' = "idle"
          /\ result' \in {"ok", "failed"}
      BY <2>4 DEF ReadCall, Finish
    <3>2. configured' \in BOOLEAN /\ tf' \in Options \cup {NoState}
      BY <2>4, SeesFacts, SyncedType DEF ReadCall, Finish, SeesNothing
    <3> QED BY <3>1, <3>2 DEF Results
  <2>5. CASE LookupAgain
    BY <2>5, SeesFacts DEF LookupAgain, SeesNothing
  <2>6. CASE LookupReady
    <3>1. UNCHANGED <<db, replica, inflight, op, accepted, since, budget>> /\ pc' = "idle"
          /\ result' \in {"ok", "adopted"}
      BY <2>6 DEF LookupReady, Finish
    <3>2. PICK d \in Databases : Sees(d) /\ Ready(d) /\ tf' = Synced(op.plan, d)
      BY <2>6 DEF LookupReady, Finish
    <3>3. configured' \in BOOLEAN /\ tf' \in Options \cup {NoState}
      BY <3>2, SeesFacts, SyncedType DEF Ready, StateAfterRead
    <3> QED BY <3>1, <3>3 DEF Results
  <2>7. CASE Deadline
    BY <2>7 DEF Deadline, Finish, Results
  <2> QED BY <1>2, <2>1, <2>2, <2>3, <2>4, <2>5, <2>6, <2>7 DEF Handler
<1>3. CASE Environment
  <2>1. ASSUME NEW r \in inflight, LateArrival(r) PROVE TypeOK'
    <3>1. db' \in Databases
      BY <2>1, AfterType DEF LateArrival
    <3> QED BY <2>1, <3>1 DEF LateArrival, Shows, Visible
  <2>2. ASSUME NEW d \in Databases, OutOfBand(d) PROVE TypeOK'
    BY <2>2, BoundsAssumption DEF OutOfBand, Shows, Visible
  <2>3. CASE Replicate
    BY <2>3 DEF Replicate
  <2>4. CASE Crash
    <3>1. inflight' \subseteq Requests
      BY <2>4, RequestTypes DEF Crash
    <3>2. budget' \in [ops : 0..MaxOps, other : 0..MaxOther, crashes : 0..MaxCrashes]
      BY <2>4, BoundsAssumption DEF Crash
    <3> QED BY <2>4, <3>1, <3>2 DEF Crash, Finish, Results
  <2> QED BY <1>3, <2>1, <2>2, <2>3, <2>4 DEF Environment
<1>4. CASE UNCHANGED vars
  BY <1>4 DEF vars
<1> QED BY <1>1, <1>2, <1>3, <1>4 DEF Next

\* A refresh and a delete run on the state they are given.
LEMMA StartReadOp ==
    ASSUME StartRead PROVE OpInv'
<1>1. op'.kind = "read" /\ pc' = "read"
  BY DEF StartRead, Start
<1>2. op'.before = tf /\ tf' = tf
  BY DEF StartRead, Start
<1> QED BY <1>1, <1>2 DEF OpInv

LEMMA StartDeleteOp ==
    ASSUME StartDelete PROVE OpInv'
<1>1. op'.kind = "delete" /\ pc' = "delete"
  BY DEF StartDelete, Start
<1>2. op'.before = tf /\ tf' = tf
  BY DEF StartDelete, Start
<1> QED BY <1>1, <1>2 DEF OpInv

LEMMA OpStep == TypeOK /\ OpInv /\ [Next]_vars => OpInv'
<1> SUFFICES ASSUME TypeOK, OpInv, [Next]_vars PROVE OpInv'
  OBVIOUS
<1>1. CASE Begin
  <2>1. CASE StartImport
    BY <2>1 DEF StartImport, Start, TypeOK, OpInv
  <2>4. CASE StartRead
    BY <2>4, StartReadOp
  <2>5. CASE StartDelete
    BY <2>5, StartDeleteOp
  <2>2. ASSUME NEW plan \in Options, StartCreate(plan) PROVE OpInv'
    BY <2>2 DEF StartCreate, Start, TypeOK, OpInv
  <2>3. ASSUME NEW plan \in Options, StartUpdate(plan) PROVE OpInv'
    BY <2>3 DEF StartUpdate, Start, TypeOK, OpInv
  <2> QED BY <1>1, <2>1, <2>2, <2>3, <2>4, <2>5 DEF Begin
<1>2. CASE Handler
  BY <1>2 DEF Handler, CreateCall, AlterCall, DeleteCall, ReadCall, LookupAgain, LookupReady,
     Deadline, Reconcile, Finish, TypeOK, OpInv
<1>3. CASE Environment
  BY <1>3 DEF Environment, LateArrival, OutOfBand, Replicate, Crash, Finish, TypeOK, OpInv
<1>4. CASE UNCHANGED vars
  BY <1>4 DEF vars, OpInv
<1> QED BY <1>1, <1>2, <1>3, <1>4 DEF Next

LEMMA InitHandler == Init => HandlerInv
<1> SUFFICES ASSUME Init PROVE HandlerInv
  OBVIOUS
<1> USE DEF Init
<1>1. db \in Databases /\ NoOptions \in Options
  BY DefaultsAssumption DEF Databases, NoOptions, Options
<1>2. budget \in [ops : 0..MaxOps, other : 0..MaxOther, crashes : 0..MaxCrashes]
  BY BoundsAssumption
<1>3. TypeOK
  BY <1>1, <1>2 DEF TypeOK, Handlers, Results, Visible
<1> QED BY <1>3 DEF HandlerInv, OpInv, AcceptedInv, SuccessWasConverged, AdoptionWasExact

\* Every reachable state is well typed, for every set of keys and values.
THEOREM TypeCorrect == Spec => []TypeOK
<1>1. TypeOK /\ OpInv /\ [Next]_vars => (TypeOK /\ OpInv)'
  BY TypeStep, OpStep
<1> QED BY <1>1, InitHandler, PTL DEF Spec, HandlerInv

-----------------------------------------------------------------------------
\* What a lookup that satisfies the handler shows.
LEMMA ReadyFacts ==
    ASSUME TypeOK, NEW d \in Databases, Ready(d)
    PROVE  /\ d \in Options /\ d # Missing
           /\ \A k \in Keys : \/ op.plan[k] # Absent /\ d[k] = op.plan[k]
                              \/ op.plan[k] = Absent /\ (op.before[k] # Absent => d[k] = Absent)
           /\ op.kind = "create" /\ ~accepted => d = op.plan
<1>1. d \in Options /\ d # Missing
  BY DEF Ready, Databases
<1>2. \A k \in Keys : \/ op.plan[k] # Absent /\ d[k] = op.plan[k]
                      \/ op.plan[k] = Absent /\ (op.before[k] # Absent => d[k] = Absent)
  BY DEF Ready, Converged, Removals
<1>3. ASSUME op.kind = "create", ~accepted PROVE d = op.plan
  <2>1. {k \in Keys : d[k] # Absent} = {k \in Keys : op.plan[k] # Absent}
    BY <1>3 DEF Ready
  <2>2. ASSUME NEW k \in Keys PROVE d[k] = op.plan[k]
    BY <1>2, <2>1
  <2> QED BY <1>1, <2>2 DEF TypeOK, Options
<1> QED BY <1>1, <1>2, <1>3

\* An acknowledged create shows its plan.
LEMMA CreateShown ==
    ASSUME TypeOK, pc = "create", Settles(Request("create", op.plan, {}), "ok"), op' = op
    PROVE  PlanShown'
<1> DEFINE r == Request("create", op.plan, {})
<1>1. After(r) \in since' /\ After(r) \in Options
  <2>1. r \in Requests
    BY RequestTypes
  <2>2. After(r) \in since' /\ CanApply(r)
    BY <2>1, SettlesFacts
  <2>3. After(r) = [k \in Keys |-> IF op.plan[k] # Absent THEN op.plan[k] ELSE Defaults[k]]
    BY DEF After, Request
  <2> QED BY <2>2, <2>3, DefaultsAssumption DEF TypeOK, Options
<1>2. \A k \in Keys : op.plan[k] # Absent => After(r)[k] = op.plan[k]
  BY DEF After, Request
<1> HIDE DEF r
<1> QED BY <1>1, <1>2, SentinelAssumption DEF PlanShown

LEMMA HandlerStep == HandlerInv /\ [Next]_vars => HandlerInv'
<1> SUFFICES ASSUME HandlerInv, [Next]_vars
             PROVE  /\ (Visible \subseteq since)' /\ AcceptedInv'
                    /\ SuccessWasConverged' /\ AdoptionWasExact'
  BY TypeStep, OpStep DEF HandlerInv
<1>0. /\ TypeOK /\ OpInv /\ Visible \subseteq since /\ AcceptedInv
      /\ SuccessWasConverged /\ AdoptionWasExact
  BY DEF HandlerInv
<1>1. CASE Begin
  <2>1. since' = Visible' /\ ~accepted' /\ (pc' # "idle")
    BY <1>1 DEF Begin, Start, StartImport, StartRead, StartDelete, StartCreate, StartUpdate, Visible
  <2> QED BY <2>1 DEF AcceptedInv, SuccessWasConverged, AdoptionWasExact
<1>2. CASE Handler
  <2>1. CASE CreateCall
    <3>1. PICK a \in Failures \cup {"ok"} :
              /\ Settles(Request("create", op.plan, {}), a)
              /\ IF a \in {"notfound", "rejected"}
                   THEN Finish(tf, "failed") /\ UNCHANGED accepted
                   ELSE Reconcile(a)
      BY <2>1 DEF CreateCall
    <3>2. since' = Visible'
      BY <1>0, <3>1, RequestTypes, SettlesFacts
    <3>3. op' = op /\ pc = "create"
      BY <2>1 DEF CreateCall
    <3>4. pc' = "verify" /\ accepted' => PlanShown'
      BY <1>0, <3>1, <3>3, CreateShown DEF Finish, Reconcile
    <3>5. pc' = "verify" \/ result' = "failed"
      BY <3>1 DEF Finish, Reconcile
    <3> QED BY <3>2, <3>4, <3>5 DEF AcceptedInv, SuccessWasConverged, AdoptionWasExact
  <2>2. CASE AlterCall
    <3>1. since' = Visible'
      BY <1>0, <2>2, RequestTypes, SettlesFacts DEF AlterCall
    <3>2. op.kind = "update" /\ op' = op /\ (pc' = "verify" \/ result' = "failed")
      BY <1>0, <2>2 DEF AlterCall, Finish, Reconcile, OpInv
    <3> QED BY <3>1, <3>2 DEF AcceptedInv, SuccessWasConverged, AdoptionWasExact
  <2>3. CASE DeleteCall
    <3>1. since' = Visible'
      BY <1>0, <2>3, RequestTypes, SettlesFacts DEF DeleteCall
    <3>2. op.kind = "delete" /\ op' = op /\ pc' = "idle"
      BY <1>0, <2>3 DEF DeleteCall, Finish, OpInv
    <3> QED BY <3>1, <3>2 DEF AcceptedInv, SuccessWasConverged, AdoptionWasExact
  <2>4. CASE ReadCall
    <3>1. UNCHANGED <<Visible, since>> /\ op.kind \in {"read", "import"} /\ op' = op /\ pc' = "idle"
      BY <1>0, <2>4 DEF ReadCall, Finish, OpInv, Visible
    <3> QED BY <1>0, <3>1 DEF AcceptedInv, SuccessWasConverged, AdoptionWasExact
  <2>5. CASE LookupAgain
    BY <1>0, <2>5 DEF LookupAgain, Visible, AcceptedInv, PlanShown, SuccessWasConverged, AdoptionWasExact
  <2>6. CASE LookupReady
    <3>1. PICK d \in Databases : Sees(d) /\ Ready(d)
              /\ result' = IF accepted \/ (op.kind = "update" /\ op.plan = op.before)
                             THEN "ok" ELSE "adopted"
      BY <2>6 DEF LookupReady, Finish
    <3>2. UNCHANGED <<Visible, since, op, accepted>> /\ pc' = "idle"
      BY <2>6 DEF LookupReady, Finish, Visible
    <3>3. d \in since \ {Missing}
      BY <1>0, <3>1, ReadyFacts, SeesFacts
    <3>4. SuccessWasConverged'
      BY <1>0, <3>1, <3>2, <3>3, ReadyFacts DEF SuccessWasConverged
    <3>5. AdoptionWasExact'
      BY <1>0, <3>1, <3>2, <3>3, ReadyFacts DEF AdoptionWasExact
    <3> QED BY <1>0, <3>2, <3>4, <3>5 DEF AcceptedInv
  <2>7. CASE Deadline
    BY <1>0, <2>7 DEF Deadline, Finish, Visible, AcceptedInv, SuccessWasConverged, AdoptionWasExact
  <2> QED BY <1>2, <2>1, <2>2, <2>3, <2>4, <2>5, <2>6, <2>7 DEF Handler
<1>3. CASE Environment
  <2>1. CASE Crash
    BY <1>0, <2>1 DEF Crash, Finish, Visible, AcceptedInv, SuccessWasConverged, AdoptionWasExact
  <2>2. CASE ~Crash
    <3>1. UNCHANGED <<tf, op, pc, accepted, result>>
      BY <1>3, <2>2 DEF Environment, LateArrival, OutOfBand, Replicate
    <3>2. since \subseteq since' /\ Visible' \subseteq since'
      BY <1>0, <1>3, <2>2 DEF Environment, LateArrival, OutOfBand, Replicate, Visible
    <3> QED BY <1>0, <3>1, <3>2 DEF AcceptedInv, PlanShown, SuccessWasConverged, AdoptionWasExact
  <2> QED BY <2>1, <2>2
<1>4. CASE UNCHANGED vars
  BY <1>0, <1>4 DEF vars, Visible, AcceptedInv, PlanShown, SuccessWasConverged, AdoptionWasExact
<1> QED BY <1>1, <1>2, <1>3, <1>4 DEF Next

\* A success was converged in one answer, and an adoption exact, whatever is
\* lost, late, changed by others or killed.
THEOREM SuccessesConverged == Spec => []SuccessWasConverged
<1>1. HandlerInv => SuccessWasConverged
  BY DEF HandlerInv
<1> QED BY <1>1, InitHandler, HandlerStep, PTL DEF Spec

\* A create of uncertain outcome takes over no database of somebody else's
\* making unless it has exactly the planned options.
THEOREM AdoptionsAreExact == Spec => []AdoptionWasExact
<1>1. HandlerInv => AdoptionWasExact
  BY DEF HandlerInv
<1> QED BY <1>1, InitHandler, HandlerStep, PTL DEF Spec
-----------------------------------------------------------------------------
\* The steps that change Terraform state, and what they may write.
LEMMA StateSteps ==
    ASSUME HandlerInv, [Next]_vars, tf' # tf
    PROVE  \/ DeleteCall /\ tf' = NoState
           \/ ReadCall /\ result' = "ok"
                /\ \E d \in Databases : Sees(d) /\ tf' = StateAfterRead(op.before, d)
           \/ LookupReady /\ result' \in {"ok", "adopted"}
                /\ \E d \in Databases : Sees(d) /\ Ready(d) /\ tf' = Synced(op.plan, d)
           \/ Deadline /\ op.kind = "create" /\ accepted /\ tf = NoState /\ tf' = op.plan
<1>0. TypeOK /\ OpInv
  BY DEF HandlerInv
<1>1. DeleteCall \/ ReadCall \/ LookupReady \/ Deadline
  BY DEF Next, vars, Begin, Start, StartImport, StartRead, StartDelete, StartCreate, StartUpdate,
     Handler, CreateCall, AlterCall, LookupAgain, Reconcile, Environment, LateArrival, OutOfBand,
     Replicate, Crash, Finish
<1>2. CASE DeleteCall
  BY <1>2 DEF DeleteCall, Finish
<1>3. CASE ReadCall
  BY <1>3 DEF ReadCall, Finish
<1>4. CASE LookupReady
  BY <1>4 DEF LookupReady, Finish
<1>5. CASE Deadline
  BY <1>0, <1>5 DEF Deadline, Finish, OpInv
<1> QED BY <1>1, <1>2, <1>3, <1>4, <1>5

\* A managed option leaves the state of an existing database only with a
\* success, and only after the catalog has shown the database without it.
THEOREM RemovalsAreVerified == Spec => RemovalsStayManaged
<1>1. HandlerInv /\ HandlerInv' /\ [Next]_vars =>
        [tf # NoState /\ tf' # NoState =>
           \A k \in Keys : tf[k] # Absent /\ tf'[k] = Absent =>
              /\ result' \in {"ok", "adopted"}
              /\ \E d \in since' : d # Missing /\ d[k] = Absent]_vars
  <2> SUFFICES ASSUME HandlerInv, HandlerInv', [Next]_vars, tf # NoState, tf' # NoState,
                      NEW k \in Keys, tf[k] # Absent, tf'[k] = Absent
               PROVE  /\ result' \in {"ok", "adopted"}
                      /\ \E d \in since' : d # Missing /\ d[k] = Absent
    OBVIOUS
  <2>0. TypeOK /\ OpInv /\ Visible \subseteq since /\ (Visible \subseteq since)'
    BY DEF HandlerInv
  <2>1. tf' # tf
    OBVIOUS
  <2>2. CASE ReadCall /\ result' = "ok"
                /\ \E d \in Databases : Sees(d) /\ tf' = StateAfterRead(op.before, d)
    <3>1. PICK d \in Databases : Sees(d) /\ tf' = StateAfterRead(op.before, d)
      BY <2>2
    <3>2. d # Missing /\ d \in since'
      BY <2>0, <2>2, <3>1, SeesFacts DEF StateAfterRead, ReadCall
    <3>3. op.before = tf
      BY <2>0, <2>2 DEF ReadCall, OpInv
    <3>4. d[k] = Absent
      BY <3>1, <3>2, <3>3 DEF StateAfterRead, Synced
    <3> QED BY <2>2, <3>2, <3>4
  <2>3. CASE LookupReady /\ result' \in {"ok", "adopted"}
                /\ \E d \in Databases : Sees(d) /\ Ready(d) /\ tf' = Synced(op.plan, d)
    <3>1. PICK d \in Databases : Sees(d) /\ Ready(d) /\ tf' = Synced(op.plan, d)
      BY <2>3
    <3>2. d # Missing /\ d \in since'
      BY <2>0, <2>3, <3>1, SeesFacts, ReadyFacts DEF LookupReady
    <3>3. op.before = tf
      BY <2>0, <2>3 DEF LookupReady, OpInv
    <3>4. d[k] = Absent
      BY <2>0, <3>1, <3>3, ReadyFacts DEF Synced
    <3> QED BY <2>3, <3>2, <3>4
  <2> QED BY <2>1, <2>2, <2>3, StateSteps
<1> QED BY <1>1, InitHandler, HandlerStep, PTL DEF Spec, RemovalsStayManaged

-----------------------------------------------------------------------------
\* The managed part of a database is one of its views.
LEMMA SyncedIsView ==
    ASSUME NEW managed \in Options, NEW d \in Options
    PROVE  Synced(managed, d) \in Views(d)
<1> DEFINE K == {k \in Keys : managed[k] # Absent}
<1>1. Synced(managed, d) = [k \in Keys |-> IF k \in K THEN d[k] ELSE Absent]
  BY DEF Synced
<1>2. d # Missing
  BY SentinelAssumption
<1> QED BY <1>1, <1>2 DEF Views

LEMMA ViewsType ==
    ASSUME NEW d \in Databases PROVE Views(d) \subseteq Options \cup {NoState}
BY DEF Views, Databases, Options

\* Without a 404 from the configuration load, Terraform state only ever takes a
\* view of a database in the handler's window.
LEMMA StateFromWindow ==
    ASSUME HandlerInv, HandlerInv', [Next]_vars, tf' # tf, "notfound" \notin ConfigFailures
    PROVE  \E d \in since' : tf' \in Views(d)
<1>0. TypeOK /\ OpInv /\ AcceptedInv /\ Visible \subseteq since /\ (Visible \subseteq since)'
  BY DEF HandlerInv
<1>1. Views(Missing) = {NoState}
  BY DEF Views
<1>2. CASE DeleteCall /\ tf' = NoState
  <2>1. PICK a \in Failures \cup {"ok"} :
            /\ Settles(Request("drop", NoOptions, {}), a)
            /\ IF a \in {"ok", "notfound"} THEN Finish(NoState, "ok") ELSE Finish(tf, "failed")
    BY <1>2 DEF DeleteCall
  <2>2. a \in {"ok", "notfound"}
    BY <2>1 DEF Finish
  <2>3. After(Request("drop", NoOptions, {})) = Missing
    BY DEF After, Request
  <2>4. Missing \in since'
    BY <1>0, <2>1, <2>2, <2>3, RequestTypes, SettlesFacts
  <2> QED BY <1>1, <1>2, <2>4
<1>3. CASE ReadCall /\ \E d \in Databases : Sees(d) /\ tf' = StateAfterRead(op.before, d)
  <2>1. PICK d \in Databases : Sees(d) /\ tf' = StateAfterRead(op.before, d)
    BY <1>3
  <2>2. d \in since'
    BY <1>0, <1>3, <2>1, SeesFacts DEF ReadCall
  <2>3. tf' \in Views(d)
    <3>1. CASE d = Missing
      BY <1>1, <2>1, <3>1 DEF StateAfterRead
    <3>2. CASE d # Missing
      BY <1>0, <2>1, <3>2, SyncedIsView DEF StateAfterRead, TypeOK, Databases
    <3> QED BY <3>1, <3>2
  <2> QED BY <2>2, <2>3
<1>4. CASE LookupReady /\ \E d \in Databases : Sees(d) /\ Ready(d) /\ tf' = Synced(op.plan, d)
  <2>1. PICK d \in Databases : Sees(d) /\ Ready(d) /\ tf' = Synced(op.plan, d)
    BY <1>4
  <2>2. d \in since' /\ d \in Options
    BY <1>0, <1>4, <2>1, SeesFacts, ReadyFacts DEF LookupReady
  <2>3. tf' \in Views(d)
    BY <1>0, <2>1, <2>2, SyncedIsView DEF TypeOK
  <2> QED BY <2>2, <2>3
<1>5. CASE Deadline /\ op.kind = "create" /\ accepted /\ tf' = op.plan
  <2>1. PICK d \in since \ {Missing} : \A k \in Keys : op.plan[k] # Absent => d[k] = op.plan[k]
    BY <1>0, <1>5 DEF Deadline, AcceptedInv, PlanShown
  <2>2. d \in Options /\ d \in since' /\ op.plan \in Options
    BY <1>0, <1>5, <2>1 DEF Deadline, TypeOK, Databases
  <2>3. Synced(op.plan, d) = op.plan
    BY <2>1, <2>2 DEF Synced, Options
  <2> QED BY <1>5, <2>2, <2>3, SyncedIsView
<1> QED BY <1>2, <1>3, <1>4, <1>5, StateSteps

\* How a step moves the window: it is reopened, or grows by what is shown.
LEMMA WindowStep ==
    ASSUME HandlerInv, HandlerInv', [Next]_vars
    PROVE  since' \in {Visible', since \cup Visible'}
<1>1. Visible' \subseteq since'
  BY DEF HandlerInv
<1>2. CASE since' = since
  BY <1>1, <1>2
<1>3. CASE Begin
  BY <1>3 DEF Begin, Start, StartImport, StartRead, StartDelete, StartCreate, StartUpdate, Visible
<1>4. CASE CreateCall \/ AlterCall \/ DeleteCall
  BY <1>4 DEF CreateCall, AlterCall, DeleteCall, Settles
<1>5. CASE since' = since \cup Visible'
  BY <1>5
<1> QED BY <1>2, <1>3, <1>4, <1>5 DEF Next, vars, Handler, ReadCall, LookupAgain, LookupReady,
     Deadline, Environment, LateArrival, OutOfBand, Replicate, Crash

\* DatabaseResource implements TruthfulState, as long as the configuration load
\* does not answer 404: Terraform state only takes options of one database the
\* catalog has shown since the last call settled, or nothing if it was missing.
THEOREM ImplementsTruthfulState ==
    ASSUME "notfound" \notin ConfigFailures PROVE Spec => StateIsTruthful
<1> DEFINE shown == UNION {Views(d) : d \in Visible}
           window == UNION {Views(d) : d \in since}
<1>1. Init => Truthful!Init
  <2> SUFFICES ASSUME Init PROVE Truthful!Init
    OBVIOUS
  <2>1. Visible \subseteq Databases
    BY InitHandler DEF HandlerInv, TypeOK, Visible
  <2>2. shown \subseteq Options \cup {NoState}
    BY <2>1, ViewsType
  <2> QED BY <2>2 DEF Init, Truthful!Init
<1>2. HandlerInv /\ HandlerInv' /\ [Next]_vars => [Truthful!Next]_<<shown, tf, window>>
  <2> SUFFICES ASSUME HandlerInv, HandlerInv', [Next]_vars PROVE Truthful!Next
    OBVIOUS
  <2>1. Visible' \subseteq Databases
    BY DEF HandlerInv, TypeOK, Visible
  <2>2. shown' \subseteq Options \cup {NoState}
    BY <2>1, ViewsType
  <2>3. window' \in {shown', window \cup shown'}
    <3>1. CASE since' = Visible'
      BY <3>1
    <3>2. CASE since' = since \cup Visible'
      BY <3>2
    <3> QED BY <3>1, <3>2, WindowStep
  <2>4. tf' = tf \/ tf' \in window'
    BY StateFromWindow
  <2> QED BY <2>2, <2>3, <2>4 DEF Truthful!Next, Truthful!Changes, Truthful!Records
<1> QED BY <1>1, <1>2, InitHandler, HandlerStep, PTL DEF Spec, StateIsTruthful, Truthful!Spec

-----------------------------------------------------------------------------
\* The inductive strengthening: requests in flight are numbered by the handlers
\* that have started; the running one has sent none before its call, and leaves
\* none when the call was acknowledged or was not needed.
Unsent == \A r \in inflight : r.id # budget.ops
NothingToAlter == op.kind = "update" /\ op.plan = op.before

SentInv ==
    /\ \A r \in inflight : r.id >= budget.ops
    /\ pc \in {"create", "alter", "delete", "read"} => Unsent
    /\ pc = "alter" => ~NothingToAlter
    /\ pc = "verify" /\ (accepted \/ NothingToAlter) => Unsent
    /\ OneMutationEach

\* A call that ends definitely sends nothing that stays in flight; after an
\* uncertain one only this handler's request does.
LEMMA SettlesInFlight ==
    ASSUME TypeOK, SentInv, Unsent, NEW type, NEW set, NEW unset, NEW a,
           Settles(Request(type, set, unset), a), budget' = budget
    PROVE  /\ \A r \in inflight' : r.id >= budget'.ops
           /\ \A r, q \in inflight' : r.id = q.id => r = q
           /\ a # "uncertain" => Unsent'
<1>1. Request(type, set, unset).id = budget.ops /\ budget.ops \in Nat
  BY DEF Request, TypeOK
<1>2. \/ inflight' = inflight
      \/ a = "uncertain" /\ inflight' = inflight \cup {Request(type, set, unset)}
  BY DEF Settles, ConfigFails
<1> QED BY <1>1, <1>2 DEF SentInv, Unsent, OneMutationEach

LEMMA StartSends ==
    ASSUME TypeOK, SentInv, NEW kind, NEW before, NEW plan, NEW first,
           Start(kind, before, plan, first),
           first \in {"create", "read", "delete", "alter", "verify"},
           first = "alter" => plan # before
    PROVE  SentInv'
<1>1. inflight' = inflight /\ budget'.ops = budget.ops - 1 /\ pc' = first /\ result' = "none"
      /\ op' = [kind |-> kind, before |-> before, plan |-> plan]
  BY DEF Start, TypeOK
<1>2. \A r \in inflight : r.id \in Nat /\ r.id > budget'.ops
  BY <1>1 DEF TypeOK, SentInv, Requests
<1>3. budget.ops \in Nat
  BY DEF TypeOK
<1>4. Unsent'
  BY <1>1, <1>2, <1>3 DEF Unsent
<1> QED BY <1>1, <1>2, <1>3, <1>4 DEF SentInv, OneMutationEach, NothingToAlter

LEMMA SentStep == TypeOK /\ OpInv /\ SentInv /\ [Next]_vars => SentInv'
<1> SUFFICES ASSUME TypeOK, OpInv, SentInv, [Next]_vars PROVE SentInv'
  OBVIOUS
<1>1. CASE Begin
  BY <1>1, StartSends DEF Begin, StartImport, StartRead, StartDelete, StartCreate, StartUpdate
<1>2. CASE CreateCall \/ AlterCall \/ DeleteCall
  <2> DEFINE Ends(type, set, unset, a) ==
               /\ Settles(Request(type, set, unset), a)
               /\ \/ pc' = "verify" /\ accepted' = (a = "ok") /\ pc \in {"create", "alter"}
                  \/ pc' = "idle" /\ (a = "uncertain" => result' = "failed")
  <2>0. \E type, set, unset, a : Ends(type, set, unset, a)
    <3>1. CASE CreateCall
      <4>1. \E a \in Failures \cup {"ok"} : Ends("create", op.plan, {}, a)
        BY <3>1 DEF CreateCall, Finish, Reconcile
      <4> QED BY <4>1
    <3>2. CASE AlterCall
      <4>1. \E a \in Failures \cup {"ok"} :
                Ends("alter", Updates(op.before, op.plan), Removals(op.before, op.plan), a)
        BY <3>2 DEF AlterCall, Finish, Reconcile
      <4> QED BY <4>1
    <3>3. CASE DeleteCall
      <4>1. \E a \in Failures \cup {"ok"} : Ends("drop", NoOptions, {}, a)
        BY <3>3 DEF DeleteCall, Finish
      <4> QED BY <4>1
    <3> QED BY <1>2, <3>1, <3>2, <3>3
  <2>1. PICK type, set, unset, a : Ends(type, set, unset, a)
    BY <2>0
  <2>2. pc \in {"create", "alter", "delete"} /\ UNCHANGED <<op, budget>>
    BY <1>2 DEF CreateCall, AlterCall, DeleteCall
  <2>3. /\ \A r \in inflight' : r.id >= budget'.ops
        /\ \A r, q \in inflight' : r.id = q.id => r = q
        /\ a # "uncertain" => Unsent'
    BY <2>1, <2>2, SettlesInFlight DEF SentInv
  <2>4. CASE pc' = "verify"
    <3>1. ~NothingToAlter'
      BY <2>1, <2>2, <2>4 DEF OpInv, SentInv, NothingToAlter
    <3>2. accepted' => Unsent'
      BY <2>1, <2>3, <2>4
    <3> QED BY <2>3, <2>4, <3>1, <3>2 DEF SentInv, OneMutationEach
  <2>5. CASE pc' = "idle" /\ (a = "uncertain" => result' = "failed")
    BY <2>3, <2>5 DEF SentInv, OneMutationEach, Unsent
  <2> QED BY <2>1, <2>4, <2>5
<1>3. CASE ReadCall \/ LookupAgain \/ LookupReady \/ Deadline
  <2>1. UNCHANGED <<inflight, op, accepted, budget>>
    BY <1>3 DEF ReadCall, LookupAgain, LookupReady, Deadline
  <2>2. \/ pc' = pc
        \/ pc' = "idle" /\ pc = "read"
        \/ pc' = "idle" /\ pc = "verify" /\ (result' \in {"ok", "unverified"} => accepted \/ NothingToAlter)
    BY <1>3 DEF ReadCall, LookupAgain, LookupReady, Deadline, Finish, NothingToAlter
  <2>3. pc' = pc => result' = result
    BY <1>3 DEF ReadCall, LookupAgain, LookupReady, Deadline, Finish
  <2> QED BY <2>1, <2>2, <2>3 DEF SentInv, OneMutationEach, Unsent, NothingToAlter
<1>4. CASE Crash
  <2>1. pc' = "idle" /\ result' = "crashed" /\ budget'.ops = budget.ops
    BY <1>4 DEF Crash, Finish, TypeOK
  <2>2. \/ inflight' = inflight
        \/ /\ pc \in {"create", "alter", "delete"}
           /\ \E type, set, unset : inflight' = inflight \cup {Request(type, set, unset)}
    BY <1>4 DEF Crash
  <2>3. \A type, set, unset : Request(type, set, unset).id = budget.ops
    BY DEF Request
  <2>4. budget.ops \in Nat
    BY DEF TypeOK
  <2> QED BY <2>1, <2>2, <2>3, <2>4 DEF SentInv, OneMutationEach, Unsent
<1>5. CASE (\E r \in inflight : LateArrival(r)) \/ (\E d \in Databases : OutOfBand(d)) \/ Replicate
           \/ UNCHANGED vars
  <2>1. UNCHANGED <<op, pc, accepted, result>> /\ inflight' \subseteq inflight /\ budget'.ops = budget.ops
    BY <1>5 DEF LateArrival, OutOfBand, Replicate, vars, TypeOK
  <2> QED BY <2>1 DEF SentInv, OneMutationEach, Unsent, NothingToAlter
<1> QED BY <1>1, <1>2, <1>3, <1>4, <1>5 DEF Next, Handler, Environment

\* However calls, crashes and late arrivals interleave, a handler leaves at most
\* one request behind, and none when it knows the outcome.
THEOREM HandlersSendOnce == Spec => []OneMutationEach
<1>1. Init => SentInv
  BY DEF Init, SentInv, OneMutationEach, Unsent
<1>2. Init => TypeOK /\ OpInv
  BY InitHandler DEF HandlerInv
<1>3. TypeOK /\ OpInv /\ [Next]_vars => (TypeOK /\ OpInv)'
  BY TypeStep, OpStep
<1>4. SentInv => OneMutationEach
  BY DEF SentInv
<1> QED BY <1>1, <1>2, <1>3, <1>4, SentStep, PTL DEF Spec
=============================================================================
