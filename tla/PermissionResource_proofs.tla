---------------------- MODULE PermissionResource_proofs ----------------------
(***************************************************************************)
(* Proofs about PermissionResource, for every set of grants and every      *)
(* bound: type correctness, truth of diagnostics, truth of state.          *)
(***************************************************************************)
EXTENDS PermissionResource, TLAPS

\* The handler's inputs fit the place it is at.
OpInv ==
    /\ pc = "grant" \/ Looping => op.plan \in Grants /\ op.kind \in {"create", "update"}
    /\ pc = "read" => op.kind \in {"import", "read"}
    /\ pc = "revoke" => op.kind = "delete"
    /\ pc = "grant" => last = NoLookup

\* What the loop remembers was shown in the current window, and an
\* acknowledged grant was shown too.
LoopInv ==
    Looping =>
        /\ last.found => last.grant \in since \ {None, op.plan}
        /\ last.looked /\ ~last.failed /\ ~last.found => None \in since
        /\ pc = "verify" => op.plan \in since

DiagnosticInv == TypeOK /\ OpInv /\ Visible \subseteq since /\ LoopInv /\ DiagnosticTruth

-----------------------------------------------------------------------------
\* A call leaves the catalog well typed and opens a window on what it left;
\* an acknowledged request is visible in it.
LEMMA SettlesFacts ==
    ASSUME TypeOK, NEW g \in Maybe, NEW a, Settles(g, a)
    PROVE  /\ granted' \in Maybe /\ replica' \in Maybe
           /\ inflight' \in [Maybe -> Nat]
           /\ since' = Visible' /\ since' \subseteq Maybe
           /\ a = "ok" => g \in since'
           /\ a = "notfound" => None \in since'
<1>1. granted' \in Maybe /\ (a = "ok" => granted' = g) /\ (a = "notfound" => granted' = None)
  BY DEF TypeOK, Settles, Maybe
<1>2. inflight' \in [Maybe -> Nat]
  BY DEF TypeOK, Settles
<1>3. replica' \in Maybe /\ since' = {granted', replica'}
  BY <1>1 DEF TypeOK, Settles, Shows, Visible
<1> QED BY <1>1, <1>2, <1>3 DEF Visible

LEMMA ObservedType ==
    ASSUME TypeOK, NEW seen \in Maybe
    PROVE  /\ Observed(seen) \in [looked : BOOLEAN, found : BOOLEAN, grant : Maybe, failed : BOOLEAN]
           /\ Failed \in [looked : BOOLEAN, found : BOOLEAN, grant : Maybe, failed : BOOLEAN]
BY DEF TypeOK, Observed, Failed

\* Steps preserve the types; what a handler records is its plan or was seen.
LEMMA TypeStep == TypeOK /\ OpInv /\ [Next]_vars => TypeOK'
<1> SUFFICES ASSUME TypeOK, OpInv, [Next]_vars PROVE TypeOK'
  OBVIOUS
<1> USE DEF TypeOK
<1>1. CASE Begin
  <2>1. PICK kind \in Kinds, plan \in Maybe, first \in {"grant", "read", "revoke"} :
            Start(kind, plan, first)
    BY <1>1 DEF Begin, StartImport, StartRead, StartDelete, StartCreate, StartUpdate, Maybe, Kinds
  <2>2. budget' \in [ops : Nat, other : Nat, crashes : Nat]
    BY <2>1 DEF Start
  <2>3. op' \in [kind : Kinds, plan : Maybe] /\ pc' \in {"grant", "read", "revoke"}
    BY <2>1 DEF Start
  <2> QED BY <2>1, <2>2, <2>3 DEF Start, catalog, Visible, Maybe, Results, NoLookup
<1>2. CASE Handler
  <2>1. CASE GrantCall
    <3>1. op.plan \in Maybe
      OBVIOUS
    <3> QED BY <2>1, <3>1, SettlesFacts DEF GrantCall
  <2>2. CASE RevokeCall
    <3>1. None \in Maybe
      BY DEF Maybe
    <3> QED BY <2>2, <3>1, SettlesFacts DEF RevokeCall, Finish, Results
  <2>3. CASE ReadCall
    BY <2>3 DEF ReadCall, catalog, Finish, Visible, Results
  <2>4. CASE LookupAgain
    BY <2>4, ObservedType DEF LookupAgain, catalog, Visible
  <2>5. CASE LookupReady
    BY <2>5, ObservedType DEF LookupReady, catalog, Visible, Finish, Results
  <2>6. CASE Deadline
    BY <2>6 DEF Deadline, Expiry, catalog, Finish, Results
  <2> QED BY <1>2, <2>1, <2>2, <2>3, <2>4, <2>5, <2>6 DEF Handler
<1>3. CASE Environment
  <2>1. ASSUME NEW g \in Maybe, LateArrival(g) PROVE TypeOK'
    BY <2>1 DEF LateArrival, Shows, Visible
  <2>2. ASSUME NEW g \in Maybe, OutOfBand(g) PROVE TypeOK'
    BY <2>2 DEF OutOfBand, Shows, Visible
  <2>3. CASE Replicate
    BY <2>3 DEF Replicate
  <2>4. CASE Crash
    <3>1. inflight' \in [Maybe -> Nat]
      BY <2>4 DEF Crash, Maybe
    <3> QED BY <2>4, <3>1 DEF Crash, Finish, Results
  <2> QED BY <1>3, <2>1, <2>2, <2>3, <2>4 DEF Environment
<1>4. CASE UNCHANGED vars
  BY <1>4 DEF vars
<1> QED BY <1>1, <1>2, <1>3, <1>4 DEF Next

LEMMA OpStep == TypeOK /\ OpInv /\ [Next]_vars => OpInv'
<1> SUFFICES ASSUME TypeOK, OpInv, [Next]_vars PROVE OpInv'
  OBVIOUS
<1> USE DEF TypeOK, OpInv, Looping
<1>1. CASE Begin
  BY <1>1 DEF Begin, Start, StartImport, StartRead, StartDelete, StartCreate, StartUpdate
<1>2. CASE Handler
  BY <1>2 DEF Handler, GrantCall, RevokeCall, ReadCall, LookupAgain, LookupReady, Deadline,
     Expiry, Finish
<1>3. CASE Environment
  BY <1>3 DEF Environment, LateArrival, OutOfBand, Replicate, Crash, Finish
<1>4. CASE UNCHANGED vars
  BY <1>4 DEF vars
<1> QED BY <1>1, <1>2, <1>3, <1>4 DEF Next

LEMMA InitTypes == Init => DiagnosticInv
BY BoundsAssumption DEF Init, DiagnosticInv, TypeOK, OpInv, LoopInv, DiagnosticTruth, Looping,
   NoLookup, Maybe, Kinds, Results, Visible

\* Every reachable state is well typed, for every set of grants and every bound.
THEOREM TypeCorrect == Spec => []TypeOK
<1>1. TypeOK /\ OpInv /\ [Next]_vars => (TypeOK /\ OpInv)'
  BY TypeStep, OpStep
<1> QED BY <1>1, InitTypes, PTL DEF Spec, DiagnosticInv

-----------------------------------------------------------------------------
\* Every step keeps what the loop remembers true of the window, and every
\* diagnostic it issues is.
LEMMA DiagnosticStep == DiagnosticInv /\ [Next]_vars => DiagnosticInv'
<1> SUFFICES ASSUME DiagnosticInv, [Next]_vars
             PROVE  (Visible \subseteq since)' /\ LoopInv' /\ DiagnosticTruth'
  BY TypeStep, OpStep DEF DiagnosticInv
<1>0. TypeOK /\ OpInv /\ Visible \subseteq since /\ LoopInv /\ DiagnosticTruth
  BY DEF DiagnosticInv
<1>1. CASE Begin
  BY <1>0, <1>1 DEF Begin, Start, StartImport, StartRead, StartDelete, StartCreate, StartUpdate,
     catalog, Visible, LoopInv, DiagnosticTruth, Looping, NoLookup
<1>2. CASE Handler
  <2>1. CASE GrantCall
    <3>1. PICK a \in {"ok", "notfound", "rejected", "uncertain"} :
              Settles(op.plan, a) /\ pc' = IF a = "ok" THEN "verify" ELSE "reconcile"
      BY <2>1 DEF GrantCall
    <3>2. since' = Visible' /\ (a = "ok" => op.plan \in since')
      BY <1>0, <3>1, SettlesFacts DEF TypeOK
    <3>3. LoopInv'
      BY <1>0, <2>1, <3>1, <3>2 DEF GrantCall, OpInv, LoopInv, Looping, NoLookup
    <3> QED BY <1>0, <2>1, <3>1, <3>2, <3>3 DEF GrantCall, LoopInv, DiagnosticTruth, Looping
  <2>2. CASE RevokeCall
    <3>1. PICK a \in {"ok", "notfound", "rejected", "uncertain"} :
             /\ Settles(None, a)
             /\ IF a \in {"ok", "notfound"} THEN Finish(None, "ok") ELSE Finish(tf, "failed")
      BY <2>2 DEF RevokeCall
    <3>2. since' = Visible' /\ (a \in {"ok", "notfound"} => None \in since')
      BY <1>0, <3>1, SettlesFacts DEF Maybe
    <3> QED BY <1>0, <2>2, <3>1, <3>2
            DEF RevokeCall, OpInv, LoopInv, DiagnosticTruth, Finish, Looping
  <2>3. CASE ReadCall
    BY <1>0, <2>3 DEF ReadCall, catalog, Finish, OpInv, LoopInv, DiagnosticTruth, Looping, Visible
  <2>4. CASE LookupAgain
    <3>1. Looping /\ UNCHANGED <<Visible, since, op, pc, result, tf>>
      BY <2>4 DEF LookupAgain, catalog, Visible
    <3>2. CASE last' = Failed
      BY <1>0, <3>1, <3>2 DEF Failed, TypeOK, LoopInv, DiagnosticTruth, Looping
    <3>3. ASSUME NEW seen \in Visible, ~Ready(seen), last' = Observed(seen)
          PROVE  LoopInv' /\ DiagnosticTruth'
      BY <1>0, <3>1, <3>3 DEF Observed, Ready, TypeOK, LoopInv, DiagnosticTruth, Looping
    <3> QED BY <1>0, <2>4, <3>1, <3>2, <3>3 DEF LookupAgain
  <2>5. CASE LookupReady
    BY <1>0, <2>5 DEF LookupReady, catalog, Finish, LoopInv, DiagnosticTruth, Looping, Visible, Ready
  <2>6. CASE Deadline
    BY <1>0, <2>6 DEF Deadline, Expiry, catalog, Finish, TypeOK, LoopInv, DiagnosticTruth, Looping,
       Visible
  <2> QED BY <1>2, <2>1, <2>2, <2>3, <2>4, <2>5, <2>6 DEF Handler
<1>3. CASE Environment
  <2>1. CASE Crash
    BY <1>0, <2>1 DEF Crash, Finish, Visible, LoopInv, DiagnosticTruth, Looping
  <2>2. CASE ~Crash
    <3>1. UNCHANGED <<tf, op, pc, last, result>>
      BY <1>3, <2>2 DEF Environment, LateArrival, OutOfBand, Replicate
    <3>2. since \subseteq since' /\ Visible' \subseteq since'
      BY <1>0, <1>3, <2>2 DEF Environment, LateArrival, OutOfBand, Replicate, Visible
    <3> QED BY <1>0, <3>1, <3>2 DEF LoopInv, DiagnosticTruth, Looping
  <2> QED BY <2>1, <2>2
<1>4. CASE UNCHANGED vars
  BY <1>0, <1>4 DEF vars, Visible, LoopInv, DiagnosticTruth, Looping
<1> QED BY <1>1, <1>2, <1>3, <1>4 DEF Next

\* Every diagnostic of every finished handler is true of its window, whatever
\* is lost, late, granted by others, expired or killed.
THEOREM DiagnosticsAreTrue == Spec => []DiagnosticTruth
<1>1. DiagnosticInv => DiagnosticTruth
  BY DEF DiagnosticInv
<1> QED BY <1>1, InitTypes, DiagnosticStep, PTL DEF Spec

\* Terraform state only ever takes a value from the handler's window.
LEMMA StateFromWindow == DiagnosticInv /\ [Next]_vars => tf' = tf \/ tf' \in since'
<1> SUFFICES ASSUME DiagnosticInv, [Next]_vars, tf' # tf PROVE tf' \in since'
  OBVIOUS
<1>1. DiagnosticTruth'
  BY DiagnosticStep DEF DiagnosticInv
<1>2. pc' = "idle" /\ result' \in {"ok", "adopted", "unverified"}
  BY DEF Next, vars, Begin, Start, StartImport, StartRead, StartDelete, StartCreate, StartUpdate,
     Handler, GrantCall, RevokeCall, ReadCall, LookupAgain, LookupReady, Deadline, Expiry,
     Environment, LateArrival, OutOfBand, Replicate, Crash, Finish
<1> QED BY <1>1, <1>2 DEF DiagnosticTruth

\* How a step moves the window: it is reopened, or grows by what is shown.
LEMMA WindowStep ==
    DiagnosticInv /\ [Next]_vars => since' \in {Visible', since \cup Visible'}
<1> SUFFICES ASSUME DiagnosticInv, [Next]_vars
             PROVE  since' \in {Visible', since \cup Visible'}
  OBVIOUS
<1>1. Visible' \subseteq since'
  BY DiagnosticStep DEF DiagnosticInv
<1>2. CASE since' = since
  BY <1>1, <1>2
<1>3. CASE Begin
  BY <1>3 DEF Begin, Start, StartImport, StartRead, StartDelete, StartCreate, StartUpdate,
     catalog, Visible
<1>4. CASE GrantCall \/ RevokeCall
  BY <1>4 DEF GrantCall, RevokeCall, Settles
<1>5. CASE since' = since \cup Visible'
  BY <1>5
<1> QED BY <1>2, <1>3, <1>4, <1>5 DEF Next, vars, Handler, ReadCall, LookupAgain, LookupReady,
     Deadline, Environment, LateArrival, OutOfBand, Replicate, Crash

\* PermissionResource implements TruthfulState: the state file is only ever set
\* to an assignment the catalog has shown since the running handler's last call
\* settled.
THEOREM ImplementsTruthfulState == Spec => StateIsTruthful
<1>1. Init => Truthful!Init
  BY DEF Init, Truthful!Init, Visible, Maybe
<1>2. DiagnosticInv /\ DiagnosticInv' /\ [Next]_vars =>
        [Truthful!Next]_<<Visible, tf, since>>
  <2> SUFFICES ASSUME DiagnosticInv, DiagnosticInv', [Next]_vars PROVE Truthful!Next
    OBVIOUS
  <2>1. Visible' \subseteq Maybe
    BY DEF DiagnosticInv, TypeOK, Visible
  <2> QED BY <2>1, StateFromWindow, WindowStep
          DEF Truthful!Next, Truthful!Changes, Truthful!Records
<1> QED BY <1>1, <1>2, InitTypes, DiagnosticStep, PTL DEF Spec, StateIsTruthful, Truthful!Spec
=============================================================================
