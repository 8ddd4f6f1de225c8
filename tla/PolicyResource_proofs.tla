------------------------ MODULE PolicyResource_proofs ------------------------
(***************************************************************************)
(* Proofs about PolicyResource for every set of contents and every bound,  *)
(* with fresh or lagging reads.                                            *)
(***************************************************************************)
EXTENDS PolicyResource, TLAPS

\* The catalog requests and the loop's record are well typed.
LEMMA RequestTypes ==
    /\ \A c \in Contents : CreateOf(c) \in Requests /\ CreateOf(c).policy = c
    /\ Drop \in Requests /\ Drop.policy = None
    /\ \A r \in Requests : r.policy \in Maybe
BY DEF Requests, CreateOf, Drop, Maybe

\* A settled call leaves the catalog well typed, and opens the window with
\* what the catalog shows then; an acknowledged request is in the window.
LEMMA SettlesFacts ==
    ASSUME TypeOK, NEW r \in Requests, NEW a \in Answers, Settles(r, a)
    PROVE  /\ attached' \in Maybe /\ replica' \in Maybe
           /\ inflight' \in [Requests -> Nat]
           /\ since' = Visible' /\ since' \subseteq Maybe
           /\ a = "ok" => r.policy \in since'
           /\ a = "notfound" => None \in since'
BY RequestTypes DEF TypeOK, Settles, Visible


\* The record of a polling loop.
Loop == [looked : BOOLEAN, found : BOOLEAN, policy : Maybe, failed : BOOLEAN]

\* Whatever a loop ends with, the handler goes to a known place.
LEMMA LoopEndsTypes ==
    ASSUME TypeOK, NEW l \in Loop, NEW conv \in BOOLEAN, LoopEnds(l, conv)
    PROVE  tf' \in Maybe /\ pc' \in {"idle", "create", "restore"} /\ result' \in Results
<1> USE DEF TypeOK, Loop, Finish, GoTo, Results
<1>1. CASE pc = "dropLookup" /\ AfterDropLookup(l)
  BY <1>1 DEF AfterDropLookup
<1>2. CASE pc = "createLookup" /\ AfterCreateLookup(l, conv)
  BY <1>2 DEF AfterCreateLookup
<1>3. CASE pc = "restoreLookup" /\ AfterRestoreLookup(l, conv)
  BY <1>3 DEF AfterRestoreLookup
<1> QED BY <1>1, <1>2, <1>3 DEF LoopEnds

LEMMA ObservedType ==
    ASSUME TypeOK, NEW seen \in Visible
    PROVE  Observed(seen) \in Loop /\ seen \in Maybe
<1>1. [last EXCEPT !.looked = TRUE, !.failed = FALSE] \in Loop
  BY DEF TypeOK, Loop
<1> QED BY <1>1 DEF TypeOK, Loop, Observed, Visible

\* One step keeps the types, whichever action it is.
LEMMA TypeStep == TypeOK /\ OpInv /\ [Next]_vars => TypeOK'
<1> SUFFICES ASSUME TypeOK, OpInv, [Next]_vars PROVE TypeOK'
  OBVIOUS
<1> USE DEF TypeOK
<1>1. CASE Begin
  <2>1. ASSUME NEW kind \in Kinds, NEW prev \in Maybe, NEW plan \in Maybe,
               NEW first \in Calls, Start(kind, prev, plan, first)
        PROVE  TypeOK'
    BY <2>1 DEF Start, catalog, NoLookup, Visible, Results, Maybe
  <2>2. CASE StartDelete \/ StartRead \/ StartImport
    BY <2>1, <2>2 DEF StartDelete, StartRead, StartImport, Kinds, Calls, Maybe
  <2>3. ASSUME NEW plan \in Contents, StartCreate(plan) \/ StartUpdate(plan)
        PROVE  TypeOK'
    BY <2>1, <2>3 DEF StartCreate, StartUpdate, Kinds, Calls, Maybe
  <2>4. ASSUME NEW plan \in Contents, NEW why \in {"disabled", "unknown"},
               UpdateRefused(plan, why)
        PROVE  TypeOK'
    BY <2>4 DEF UpdateRefused, Finish, catalog, Visible, Kinds, Results, Maybe
  <2> QED BY <1>1, <2>2, <2>3, <2>4 DEF Begin
<1>2. CASE Handler
  <2>1. CASE CreateCall
    <3>1. op.plan \in Contents /\ CreateOf(op.plan) \in Requests
      BY <2>1, RequestTypes DEF CreateCall, OpInv, Maybe
    <3>2. PICK a \in Answers : Settles(CreateOf(op.plan), a)
                               /\ answer' = a
                               /\ IF RefusedAtOnce(a)
                                    THEN Finish(tf, "rejected")
                                    ELSE GoTo("createLookup")
      BY <2>1 DEF CreateCall
    <3> QED BY <2>1, <3>1, <3>2, SettlesFacts DEF CreateCall, Finish, GoTo, NoLookup, Results, Loops, Maybe
  <2>2. CASE RestoreCall
    <3>1. op.prev \in Contents /\ CreateOf(op.prev) \in Requests
      BY <2>2, RequestTypes DEF RestoreCall, OpInv, Maybe
    <3> QED BY <2>2, <3>1, SettlesFacts DEF RestoreCall, GoTo, NoLookup, Results, Loops, Maybe
  <2>3. CASE DropCall
    BY <2>3, SettlesFacts, RequestTypes
       DEF DropCall, GoTo, NoLookup, Results, Loops, Calls, Maybe
  <2>4. CASE DeleteCall
    BY <2>4, SettlesFacts, RequestTypes DEF DeleteCall, Finish, Results, Maybe
  <2>5. CASE ReadCall
    BY <2>5 DEF ReadCall, Finish, catalog, Visible, Results
  <2>6. CASE LookupAgain
    <3>1. Failed \in Loop
      BY DEF Loop, Failed
    <3> QED BY <2>6, <3>1, ObservedType DEF LookupAgain, catalog, Loop
  <2>7. CASE LookupReady
    <3>1. PICK seen \in Visible : last' = Observed(seen) /\ latest' = seen
                                  /\ LoopEnds(Observed(seen), TRUE)
      BY <2>7 DEF LookupReady
    <3>2. last' \in Loop /\ latest' \in Maybe
      BY <3>1, ObservedType
    <3>3. tf' \in Maybe /\ pc' \in {"idle", "create", "restore"} /\ result' \in Results
      BY <3>1, ObservedType, LoopEndsTypes
    <3> QED BY <2>7, <3>2, <3>3 DEF LookupReady, catalog, Loop, Calls
  <2>8. CASE Deadline
    BY <2>8, LoopEndsTypes DEF Deadline, catalog, Loop, Calls
  <2> QED BY <1>2, <2>1, <2>2, <2>3, <2>4, <2>5, <2>6, <2>7, <2>8 DEF Handler
<1>3. CASE Environment
  <2>1. ASSUME NEW r \in Requests, LateArrival(r) PROVE TypeOK'
    BY <2>1, RequestTypes DEF LateArrival, Remember
  <2>2. ASSUME NEW c \in Maybe, OutOfBand(c) PROVE TypeOK'
    BY <2>2 DEF OutOfBand, Remember
  <2>3. CASE Replicate
    BY <2>3 DEF Replicate
  <2>4. CASE Crash
    BY <2>4 DEF Crash, Finish, Results
  <2> QED BY <1>3, <2>1, <2>2, <2>3, <2>4 DEF Environment
<1>4. CASE UNCHANGED vars
  BY <1>4 DEF vars
<1> QED BY <1>1, <1>2, <1>3, <1>4 DEF Next

\* Where the handler may go when a loop ends, by where it is.
LEMMA LoopEndsOp ==
    ASSUME TypeOK, OpInv, pc \in Loops, NEW l, NEW conv, LoopEnds(l, conv)
    PROVE  \/ pc' = "idle"
           \/ pc' \in {"create", "restore"} /\ op.kind = "update" /\ tf' = tf
BY DEF OpInv, Loops, LoopEnds, AfterDropLookup, AfterCreateLookup, AfterRestoreLookup,
   Finish, GoTo

\* The handler's inputs fit the place it is at.
LEMMA OpStep == TypeOK /\ OpInv /\ [Next]_vars => OpInv'
<1> SUFFICES ASSUME TypeOK, OpInv, [Next]_vars PROVE OpInv'
  OBVIOUS
<1> USE DEF TypeOK, OpInv
<1>1. CASE Begin
  BY <1>1, ContentsAssumption DEF Begin, Start, StartDelete, StartRead, StartImport, StartCreate,
     StartUpdate, UpdateRefused, Finish
<1>2. CASE Handler
  <2>1. CASE CreateCall \/ RestoreCall \/ DropCall \/ DeleteCall \/ ReadCall
    BY <2>1 DEF CreateCall, RefusedAtOnce, RestoreCall, DropCall, DeleteCall, ReadCall, Finish, GoTo
  <2>2. CASE LookupAgain
    BY <2>2 DEF LookupAgain
  <2>3. CASE LookupReady \/ Deadline
    <3>1. PICK l \in {last} \cup {Observed(seen) : seen \in Visible}, conv \in BOOLEAN :
              LoopEnds(l, conv)
      BY <2>3 DEF LookupReady, Deadline
    <3>2. pc \in Loops /\ op' = op
      BY <2>3 DEF LookupReady, Deadline
    <3>3. \/ pc' = "idle"
          \/ pc' \in {"create", "restore"} /\ op.kind = "update" /\ tf' = tf
      BY <3>1, <3>2, LoopEndsOp
    <3>4. op.plan # None
      BY <3>2 DEF Loops
    <3>5. op.kind = "update" => tf = op.prev /\ op.prev # None
      BY <3>2 DEF Loops
    <3> QED BY <3>2, <3>3, <3>4, <3>5
  <2> QED BY <1>2, <2>1, <2>2, <2>3 DEF Handler
<1>3. CASE Environment
  BY <1>3 DEF Environment, LateArrival, OutOfBand, Replicate, Crash, Finish
<1>4. CASE UNCHANGED vars
  BY <1>4 DEF vars
<1> QED BY <1>1, <1>2, <1>3, <1>4 DEF Next

LEMMA InitTypes == Init => TypeOK /\ OpInv
BY BoundsAssumption DEF Init, TypeOK, OpInv, NoOp, NoLookup, Maybe, Kinds, Loops, Calls,
   Answers, Results, Visible, Requests

\* Every reachable state is well typed, for every set of contents and every bound.
THEOREM TypeCorrect == Spec => []TypeOK
<1>1. TypeOK /\ OpInv /\ [Next]_vars => (TypeOK /\ OpInv)'
  BY TypeStep, OpStep
<1> QED BY <1>1, InitTypes, PTL DEF Spec

-----------------------------------------------------------------------------
\* What a loop ends with is said of contents in the window.
LEMMA LoopEndsTruth ==
    ASSUME TypeOK, OpInv, pc \in Loops, op' = op, since' = since,
           NEW l \in Loop, NEW conv \in BOOLEAN, LoopEnds(l, conv), l.looked,
           l.found => l.policy \in since,
           l.found /\ pc # "dropLookup" => l.policy # None,
           conv /\ pc # "dropLookup" => l.found /\ l.policy = Wanted,
           ~conv /\ l.found => l.policy # Wanted,
           ~l.failed /\ ~l.found => None \in since /\ pc # "dropLookup",
           pc # "dropLookup" /\ answer = "ok" => Wanted \in since
    PROVE  DiagnosticTruth'
<1> USE DEF TypeOK, OpInv, Loop, Finish, GoTo, DiagnosticTruth
<1>1. CASE pc = "dropLookup" /\ AfterDropLookup(l)
  BY <1>1 DEF AfterDropLookup
<1>2. CASE pc = "createLookup" /\ AfterCreateLookup(l, conv)
  BY <1>2 DEF AfterCreateLookup, Wanted
<1>3. CASE pc = "restoreLookup" /\ AfterRestoreLookup(l, conv)
  BY <1>3 DEF AfterRestoreLookup, Wanted
<1> QED BY <1>1, <1>2, <1>3 DEF LoopEnds

\* Every step keeps the handler's local variables true of the window, and
\* every diagnostic it issues is.
LEMMA DiagnosticStep == DiagnosticInv /\ [Next]_vars => DiagnosticInv'
<1> SUFFICES ASSUME DiagnosticInv, [Next]_vars
             PROVE  (Visible \subseteq since)' /\ LoopInv' /\ DiagnosticTruth'
  BY TypeStep, OpStep DEF DiagnosticInv
<1>0. TypeOK /\ OpInv /\ Visible \subseteq since /\ LoopInv /\ DiagnosticTruth
  BY DEF DiagnosticInv
<1>1. CASE Begin
  <2>1. since' = Visible /\ Visible' = Visible
    BY <1>1 DEF Begin, Start, StartDelete, StartRead, StartImport, StartCreate,
       StartUpdate, UpdateRefused, catalog, Visible
  <2>2. \/ pc' \in Calls
        \/ pc' = "idle" /\ result' \in {"disabled", "unknown"}
    BY <1>1 DEF Begin, Start, StartDelete, StartRead, StartImport, StartCreate,
       StartUpdate, UpdateRefused, Finish, Calls
  <2> QED BY <2>1, <2>2 DEF LoopInv, DiagnosticTruth, Loops, Calls
<1>2. CASE Handler
  <2>1. CASE CreateCall
    <3>1. CreateOf(op.plan) \in Requests /\ CreateOf(op.plan).policy = op.plan
      BY <1>0, <2>1, RequestTypes DEF CreateCall, OpInv, TypeOK, Maybe
    <3>2. since' = Visible' /\ (answer' = "ok" => op.plan \in since')
      BY <1>0, <2>1, <3>1, SettlesFacts DEF CreateCall
    <3>3. /\ last' = NoLookup /\ op' = op
          /\ \/ pc' = "createLookup"
             \/ pc' = "idle" /\ result' = "rejected"
      BY <2>1 DEF CreateCall, Finish, GoTo
    <3> QED BY <3>2, <3>3 DEF LoopInv, DiagnosticTruth, NoLookup, Wanted, Loops
  <2>2. CASE RestoreCall
    <3>1. CreateOf(op.prev) \in Requests /\ CreateOf(op.prev).policy = op.prev
      BY <1>0, <2>2, RequestTypes DEF RestoreCall, OpInv, TypeOK, Maybe
    <3>2. since' = Visible' /\ (answer' = "ok" => op.prev \in since')
      BY <1>0, <2>2, <3>1, SettlesFacts DEF RestoreCall
    <3>3. last' = NoLookup /\ op' = op /\ pc' = "restoreLookup"
      BY <2>2 DEF RestoreCall, GoTo
    <3> QED BY <3>2, <3>3 DEF LoopInv, DiagnosticTruth, NoLookup, Wanted, Loops
  <2>3. CASE DropCall
    <3>1. since' = Visible'
      BY <1>0, <2>3, SettlesFacts, RequestTypes DEF DropCall
    <3>2. last' = NoLookup /\ pc' \in {"create", "dropLookup"}
      BY <2>3 DEF DropCall, GoTo
    <3> QED BY <3>1, <3>2 DEF LoopInv, DiagnosticTruth, NoLookup, Loops
  <2>4. CASE DeleteCall
    <3>1. PICK a \in Answers :
             /\ Settles(Drop, a)
             /\ IF a \in {"ok", "notfound"} THEN Finish(None, "ok") ELSE Finish(tf, "failed")
      BY <2>4 DEF DeleteCall
    <3>2. since' = Visible' /\ (a \in {"ok", "notfound"} => None \in since')
      BY <1>0, <3>1, SettlesFacts, RequestTypes
    <3> QED BY <3>1, <3>2 DEF LoopInv, DiagnosticTruth, Finish, Loops
  <2>5. CASE ReadCall
    BY <1>0, <2>5 DEF ReadCall, Finish, catalog, Visible, LoopInv, DiagnosticTruth, Loops
  <2>6. CASE LookupAgain
    <3>1. UNCHANGED <<Visible, since, op, pc, answer, result, tf>>
      BY <2>6 DEF LookupAgain, catalog, Visible
    <3>2. CASE last' = Failed
      BY <1>0, <2>6, <3>1, <3>2
         DEF LookupAgain, Failed, LoopInv, DiagnosticTruth, Wanted, TypeOK, Loops
    <3>3. ASSUME NEW seen \in Visible, ~Ready(seen), last' = Observed(seen)
          PROVE  LoopInv' /\ DiagnosticTruth'
      BY <1>0, <2>6, <3>1, <3>3
         DEF LookupAgain, LoopInv, DiagnosticTruth, Wanted, TypeOK, Loops, Ready, Observed
    <3> QED BY <1>0, <2>6, <3>1, <3>2, <3>3 DEF LookupAgain
  <2>7. CASE LookupReady
    <3>1. PICK seen \in Visible : Ready(seen) /\ LoopEnds(Observed(seen), TRUE)
      BY <2>7 DEF LookupReady
    <3>2. pc \in Loops /\ UNCHANGED <<Visible, since, op>>
      BY <2>7 DEF LookupReady, catalog, Visible
    <3> DEFINE l == Observed(seen)
    <3>3. l \in Loop
      BY <1>0, ObservedType
    <3>4. /\ l.looked
          /\ l.found => l.policy \in since
          /\ l.found /\ pc # "dropLookup" => l.policy # None
          /\ pc # "dropLookup" => l.found /\ l.policy = Wanted
          /\ ~l.failed /\ ~l.found => None \in since /\ pc # "dropLookup"
      BY <1>0, <3>1, <3>2 DEF Ready, Observed, Wanted, OpInv, TypeOK, Loops, LoopInv
    <3>5. pc # "dropLookup" /\ answer = "ok" => Wanted \in since
      BY <1>0, <3>2 DEF LoopInv
    <3>6. DiagnosticTruth'
      <4> HIDE DEF l
      <4> QED BY <1>0, <3>1, <3>2, <3>3, <3>4, <3>5, LoopEndsTruth DEF l
    <3>7. pc' \notin Loops
      BY <1>0, <3>1, <3>2, LoopEndsOp DEF Loops
    <3> QED BY <1>0, <3>2, <3>6, <3>7 DEF LoopInv
  <2>8. CASE Deadline
    <3>1. pc \in Loops /\ last.looked /\ LoopEnds(last, FALSE)
          /\ UNCHANGED <<Visible, since, op>>
      BY <2>8 DEF Deadline, catalog, Visible
    <3>2. last \in Loop
      BY <1>0 DEF TypeOK, Loop
    <3>3. DiagnosticTruth'
      BY <1>0, <3>1, <3>2, LoopEndsTruth DEF LoopInv
    <3>4. pc' \notin Loops
      BY <1>0, <3>1, LoopEndsOp DEF Loops
    <3> QED BY <1>0, <3>1, <3>3, <3>4 DEF LoopInv
  <2> QED BY <1>2, <2>1, <2>2, <2>3, <2>4, <2>5, <2>6, <2>7, <2>8 DEF Handler
<1>3. CASE Environment
  <2>1. CASE Crash
    BY <1>0, <2>1 DEF Crash, Finish, Visible, LoopInv, DiagnosticTruth, Loops
  <2>2. CASE ~Crash
    <3>1. UNCHANGED <<tf, op, pc, answer, last, result>>
      BY <1>3, <2>2 DEF Environment, LateArrival, OutOfBand, Replicate
    <3>2. since \subseteq since' /\ Visible' \subseteq since'
      BY <1>0, <1>3, <2>2 DEF Environment, LateArrival, OutOfBand, Replicate, Remember, Visible
    <3>3. LoopInv'
      BY <1>0, <3>1, <3>2 DEF LoopInv, Wanted
    <3>4. DiagnosticTruth'
      BY <1>0, <3>1, <3>2 DEF DiagnosticTruth
    <3> QED BY <3>2, <3>3, <3>4
  <2> QED BY <2>1, <2>2
<1>4. CASE UNCHANGED vars
  BY <1>0, <1>4 DEF vars, Visible, LoopInv, DiagnosticTruth, Wanted
<1> QED BY <1>1, <1>2, <1>3, <1>4 DEF Next

\* Every diagnostic of every finished handler is true of its window, whatever
\* is lost, late, refused, changed out of band or killed.
THEOREM DiagnosticsAreTrue == Spec => []DiagnosticTruth
<1>1. Init => DiagnosticInv
  BY InitTypes DEF Init, DiagnosticInv, LoopInv, DiagnosticTruth, Visible, Loops
<1>2. DiagnosticInv => DiagnosticTruth
  BY DEF DiagnosticInv
<1> QED BY <1>1, <1>2, DiagnosticStep, PTL DEF Spec

\* Terraform state only ever takes a value from the handler's window.
LEMMA StateFromWindow == DiagnosticInv /\ [Next]_vars => tf' = tf \/ tf' \in since'
<1> SUFFICES ASSUME DiagnosticInv, [Next]_vars, tf' # tf PROVE tf' \in since'
  OBVIOUS
<1>1. DiagnosticTruth'
  BY DiagnosticStep DEF DiagnosticInv
<1>2. CASE DeleteCall \/ ReadCall
  BY <1>1, <1>2 DEF DeleteCall, ReadCall, Finish, DiagnosticTruth
<1>3. CASE LookupReady \/ Deadline
  <2>1. PICK l, conv : LoopEnds(l, conv)
    BY <1>3 DEF LookupReady, Deadline
  <2>2. pc' = "idle" /\ result' \in {"ok", "adopted", "unverified"}
    BY <2>1 DEF LoopEnds, AfterDropLookup, AfterCreateLookup, AfterRestoreLookup,
       Finish, GoTo
  <2> QED BY <1>1, <2>2 DEF DiagnosticTruth
<1>4. \/ DeleteCall \/ ReadCall \/ LookupReady \/ Deadline
  BY DEF Next, vars, Begin, Start, StartDelete, StartRead, StartImport, StartCreate,
     StartUpdate, UpdateRefused, Handler, CreateCall, RestoreCall, DropCall,
     LookupAgain, Environment, LateArrival, OutOfBand, Replicate, Crash, Finish, GoTo
<1> QED BY <1>2, <1>3, <1>4

\* How a step moves the window: it is reopened, or grows by what is shown.
LEMMA WindowStep ==
    DiagnosticInv /\ [Next]_vars => since' \in {Visible', since \cup Visible'}
<1> SUFFICES ASSUME DiagnosticInv, [Next]_vars
             PROVE  since' \in {Visible', since \cup Visible'}
  OBVIOUS
<1>1. Visible' \subseteq since'
  BY DiagnosticStep DEF DiagnosticInv
<1>2. CASE since' = since
  BY <1>1, <1>2
<1>3. CASE Begin
  BY <1>3 DEF Begin, Start, StartDelete, StartRead, StartImport, StartCreate,
     StartUpdate, UpdateRefused, catalog, Visible
<1>4. CASE CreateCall \/ RestoreCall \/ DropCall \/ DeleteCall
  BY <1>4 DEF CreateCall, RestoreCall, DropCall, DeleteCall, Settles, Visible
<1>5. CASE since' = since \cup Visible'
  BY <1>5
<1> QED BY <1>2, <1>3, <1>4, <1>5 DEF Next, vars, Handler, ReadCall, LookupAgain, LookupReady,
     Deadline, Environment, LateArrival, OutOfBand, Replicate, Crash, Remember, Visible

\* PolicyResource implements TruthfulState: the state file is only ever set to
\* a content the catalog has shown since the running handler's last call settled.
THEOREM ImplementsTruthfulState == Spec => StateIsTruthful
<1>1. Init => Truthful!Init
  BY DEF Init, Truthful!Init, Visible, Maybe
<1>2. DiagnosticInv /\ DiagnosticInv' /\ [Next]_vars =>
        [Truthful!Next]_<<Visible, tf, since>>
  <2> SUFFICES ASSUME DiagnosticInv, DiagnosticInv', [Next]_vars PROVE Truthful!Next
    OBVIOUS
  <2>1. Visible' \subseteq Maybe
    BY DEF DiagnosticInv, TypeOK, Visible
  <2> QED BY <2>1, StateFromWindow, WindowStep
          DEF Truthful!Next, Truthful!Changes, Truthful!Records
<1>3. Init => DiagnosticInv
  BY InitTypes DEF Init, DiagnosticInv, LoopInv, DiagnosticTruth, Visible, Loops
<1> QED BY <1>1, <1>2, <1>3, DiagnosticStep, PTL DEF Spec, StateIsTruthful, Truthful!Spec

\* A create the catalog refused never puts the existing policy into state.
THEOREM RefusalNeverAdopts == Spec => RefusedCreateNeverAdopts
<1>1. TypeOK /\ OpInv /\ [Next]_vars =>
        [op.kind = "create" /\ tf' # tf => answer # "rejected"]_vars
  <2> SUFFICES ASSUME TypeOK, OpInv, [Next]_vars, op.kind = "create", tf' # tf
               PROVE  answer # "rejected"
    OBVIOUS
  <2>1. pc = "createLookup"
    BY DEF OpInv, Next, vars, Begin, Start, StartDelete, StartRead, StartImport, StartCreate,
       StartUpdate, UpdateRefused, Handler, CreateCall, RestoreCall, DropCall, DeleteCall,
       ReadCall, LookupAgain, LookupReady, Deadline, Environment, LateArrival, OutOfBand,
       Replicate, Crash, Finish, GoTo, Loops
  <2> QED BY <2>1 DEF OpInv
<1>2. TypeOK /\ OpInv /\ [Next]_vars => (TypeOK /\ OpInv)'
  BY TypeStep, OpStep
<1> QED BY <1>1, <1>2, InitTypes, PTL DEF Spec, RefusedCreateNeverAdopts

-----------------------------------------------------------------------------
\* After each loop only calls of a later stage are left.
LEMMA LoopEndsAdvance ==
    ASSUME pc \in Loops, NEW l, NEW conv, LoopEnds(l, conv)
    PROVE  Distance[pc'] < Distance[pc] /\ pc' # pc
<1> USE DEF Distance, Finish, GoTo
<1>1. CASE pc = "dropLookup" /\ AfterDropLookup(l)
  <2>1. pc' \in {"idle", "create"}
    BY <1>1 DEF AfterDropLookup
  <2> QED BY <1>1, <2>1
<1>2. CASE pc = "createLookup" /\ AfterCreateLookup(l, conv)
  <2>1. pc' \in {"idle", "restore"}
    BY <1>2 DEF AfterCreateLookup
  <2> QED BY <1>2, <2>1
<1>3. CASE pc = "restoreLookup" /\ AfterRestoreLookup(l, conv)
  <2>1. pc' = "idle"
    BY <1>3 DEF AfterRestoreLookup
  <2> QED BY <1>3, <2>1
<1> QED BY <1>1, <1>2, <1>3 DEF LoopEnds

\* A handler makes each of its calls once, whatever is lost, late or killed.
THEOREM CallsAreMadeOnce == Spec => HandlerAdvances
<1>1. TypeOK /\ OpInv /\ [Next]_vars =>
        [/\ pc' # pc => pc = "idle" \/ Distance[pc'] < Distance[pc]
         /\ pc' = pc => \A r \in Requests : inflight'[r] <= inflight[r]]_vars
  <2> SUFFICES ASSUME TypeOK, [Next]_vars
               PROVE  /\ pc' # pc => pc = "idle" \/ Distance[pc'] < Distance[pc]
                      /\ pc' = pc => \A r \in Requests : inflight'[r] <= inflight[r]
    OBVIOUS
  <2>0. \A r \in Requests : inflight[r] \in Nat
    BY DEF TypeOK
  <2>1. CASE Begin
    <3>1. pc = "idle" /\ inflight' = inflight
      BY <2>1 DEF Begin, Start, StartDelete, StartRead, StartImport, StartCreate, StartUpdate,
         UpdateRefused, catalog
    <3> QED BY <2>0, <3>1
  <2>2. CASE CreateCall \/ RestoreCall \/ DropCall \/ DeleteCall \/ ReadCall
    <3>1. \/ pc = "create" /\ pc' \in {"createLookup", "idle"}
          \/ pc = "restore" /\ pc' = "restoreLookup"
          \/ pc = "drop" /\ pc' \in {"create", "dropLookup"}
          \/ pc \in {"delete", "read"} /\ pc' = "idle"
      BY <2>2 DEF CreateCall, RestoreCall, DropCall, DeleteCall, ReadCall, Finish, GoTo
    <3> QED BY <3>1 DEF Distance
  <2>3. CASE LookupReady \/ Deadline
    BY <2>3, LoopEndsAdvance DEF LookupReady, Deadline
  <2>4. CASE Crash
    <3>1. pc # "idle" /\ pc' = "idle"
      BY <2>4 DEF Crash, Finish
    <3> QED BY <3>1 DEF TypeOK, Distance, Loops, Calls
  <2>5. CASE LookupAgain \/ Replicate \/ (\E c \in Maybe : OutOfBand(c)) \/ UNCHANGED vars
    <3>1. pc' = pc /\ inflight' = inflight
      BY <2>5 DEF LookupAgain, catalog, Replicate, OutOfBand, vars
    <3> QED BY <2>0, <3>1
  <2>6. ASSUME NEW q \in Requests, LateArrival(q)
        PROVE  pc' = pc /\ \A r \in Requests : inflight'[r] <= inflight[r]
    BY <2>0, <2>6 DEF LateArrival, TypeOK
  <2> QED BY <2>1, <2>2, <2>3, <2>4, <2>5, <2>6 DEF Next, Handler, Environment
<1>2. TypeOK /\ OpInv /\ [Next]_vars => (TypeOK /\ OpInv)'
  BY TypeStep, OpStep
<1> QED BY <1>1, <1>2, InitTypes, PTL DEF Spec, HandlerAdvances
=============================================================================
