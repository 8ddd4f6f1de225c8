--------------------------- MODULE PolicyResource ---------------------------
(***************************************************************************)
(* The life cycle of one row filter (or column mask: the two resources run *)
(* the same handlers) in Terraform state and in the REST catalog.          *)
(*                                                                         *)
(* A policy cannot be changed in place: an update drops the old content    *)
(* and creates the new one, and tries to put the old one back when that    *)
(* fails.  Every mutation is sent once; its answer may be lost while the   *)
(* request still reaches the catalog later, so after an uncertain outcome  *)
(* the handler polls the catalog until it is satisfied or its recovery     *)
(* timeout expires.                                                        *)
(*                                                                         *)
(* Policy contents stand for classes of equivalent serialized policies     *)
(* (equivalentPolicyContent).                                              *)
(***************************************************************************)
EXTENDS Naturals

CONSTANTS
    Contents,    \* classes of equivalent policy content
    None,        \* no policy is attached; no policy is in Terraform state
    StaleReads,  \* TRUE: a lookup may be answered from a lagging replica
    MaxOps,      \* bound: handlers Terraform runs
    MaxOther,    \* bound: changes made outside Terraform
    MaxCrashes   \* bound: handlers killed before their state is saved

ASSUME ContentsAssumption == None \notin Contents
ASSUME BoundsAssumption ==
    StaleReads \in BOOLEAN /\ MaxOps \in Nat /\ MaxOther \in Nat /\ MaxCrashes \in Nat

VARIABLES
    attached,  \* the content the catalog has for this identity, or None
    replica,   \* what a lagging replica still shows
    inflight,  \* requests the client gave up on that may still reach the catalog
    tf,        \* the content in Terraform state, or None
    op,        \* the handler's inputs: kind, state content, planned content
    pc,        \* where the handler is
    answer,    \* how the create call being reconciled ended
    last,      \* the variables of retryLookupUntil
    result,    \* the diagnostic of the last finished handler
    since,     \* history: contents the catalog has shown since the last call settled
    latest,    \* history: what the latest successful lookup returned
    budget     \* remaining steps of the bounded kinds

vars == <<attached, replica, inflight, tf, op, pc, answer, last, result,
          since, latest, budget>>
catalog == <<attached, replica, inflight>>

-----------------------------------------------------------------------------
Maybe == Contents \cup {None}

CreateOf(c) == [type |-> "create", policy |-> c]
Drop == [type |-> "drop", policy |-> None]
Requests == {CreateOf(c) : c \in Contents} \cup {Drop}

\* What a lookup can be answered with.
Visible == {attached, replica}

Answers == {"ok", "notfound", "rejected", "uncertain"}
Loops == {"createLookup", "restoreLookup", "dropLookup"}
Calls == {"create", "restore", "drop", "delete", "read"}
Kinds == {"none", "create", "import", "update", "delete", "read"}
Results == {"none", "ok", "adopted", "unverified", "rejected", "absent", "unexpected",
            "previousRemains", "restored", "restoredUnverified", "noPolicy",
            "unknown", "disabled", "failed"}

NoLookup == [looked |-> FALSE, found |-> FALSE, policy |-> None, failed |-> FALSE]
NoOp == [kind |-> "none", prev |-> None, plan |-> None]

\* Types of the catalog, of Terraform state and of the handler; requests in
\* flight are counted, and only requests that were sent arrive.
TypeOK ==
    /\ attached \in Maybe
    /\ replica \in Maybe
    /\ inflight \in [Requests -> Nat]
    /\ tf \in Maybe
    /\ op \in [kind : Kinds, prev : Maybe, plan : Maybe]
    /\ pc \in {"idle"} \cup Loops \cup Calls
    /\ answer \in Answers
    /\ last \in [looked : BOOLEAN, found : BOOLEAN, policy : Maybe, failed : BOOLEAN]
    /\ result \in Results
    /\ since \subseteq Maybe
    /\ latest \in Maybe
    /\ budget \in [ops : Nat, other : Nat, crashes : Nat]

Init ==
    /\ attached \in Maybe
    /\ replica = attached
    /\ inflight = [r \in Requests |-> 0]
    /\ tf = None
    /\ op = NoOp
    /\ pc = "idle"
    /\ answer = "ok"
    /\ last = NoLookup
    /\ result = "none"
    /\ since = Visible
    /\ latest = attached
    /\ budget = [ops |-> MaxOps, other |-> MaxOther, crashes |-> MaxCrashes]

-----------------------------------------------------------------------------
(* The catalog, modelled from how the provider uses it.                    *)

\* The catalog can carry out r: no policy with this identity exists yet, or
\* the policy to drop does.
CanApply(r) == IF r.type = "create" THEN attached = None ELSE attached # None

\* One mutating call, from the point of view of the client: carried out and
\* acknowledged; 404; refused; or of uncertain outcome (429, 5xx, transport
\* error), in which case the request may still reach the catalog later.
Settles(r, a) ==
    /\ \/ a = "ok" /\ CanApply(r) /\ attached' = r.policy /\ UNCHANGED inflight
       \/ a = "notfound" /\ r = Drop /\ attached = None /\ UNCHANGED <<attached, inflight>>
       \/ a = "rejected" /\ UNCHANGED <<attached, inflight>>
       \/ a = "uncertain" /\ inflight' = [inflight EXCEPT ![r] = @ + 1] /\ UNCHANGED attached
    /\ replica' = IF StaleReads THEN replica ELSE attached'
    /\ since' = {attached', replica'}

-----------------------------------------------------------------------------
(* The environment.                                                        *)

Remember == since' = since \cup {attached', replica'}

\* A request the client has given up on is carried out late, or never.
LateArrival(r) ==
    /\ inflight[r] > 0
    /\ inflight' = [inflight EXCEPT ![r] = @ - 1]
    /\ attached' \in {attached, IF CanApply(r) THEN r.policy ELSE attached}
    /\ replica' = IF StaleReads THEN replica ELSE attached'
    /\ Remember
    /\ UNCHANGED <<tf, op, pc, answer, last, result, latest, budget>>

\* Somebody else creates, changes or drops the policy.
OutOfBand(c) ==
    /\ budget.other > 0
    /\ c # attached
    /\ attached' = c
    /\ replica' = IF StaleReads THEN replica ELSE c
    /\ Remember
    /\ budget' = [budget EXCEPT !.other = @ - 1]
    /\ UNCHANGED <<inflight, tf, op, pc, answer, last, result, latest>>

\* The lagging replica catches up.
Replicate ==
    /\ replica # attached
    /\ replica' = attached
    /\ UNCHANGED <<attached, inflight, tf, op, pc, answer, last, result, since, latest, budget>>

-----------------------------------------------------------------------------
(* The handlers: how they start and how they end.                          *)

Start(kind, prev, plan, first) ==
    /\ pc = "idle"
    /\ budget.ops > 0
    /\ budget' = [budget EXCEPT !.ops = @ - 1]
    /\ op' = [kind |-> kind, prev |-> prev, plan |-> plan]
    /\ pc' = first
    /\ result' = "none"
    /\ last' = NoLookup
    /\ since' = Visible
    /\ latest' = attached
    /\ UNCHANGED <<catalog, tf, answer>>

Finish(newState, diagnostic) ==
    /\ tf' = newState
    /\ result' = diagnostic
    /\ pc' = "idle"

GoTo(label) ==
    /\ pc' = label
    /\ UNCHANGED <<tf, result>>

StartCreate(plan) == tf = None /\ Start("create", None, plan, "create")
StartImport == tf = None /\ Start("import", None, None, "read")
StartDelete == tf # None /\ Start("delete", tf, None, "delete")
StartRead == tf # None /\ Start("read", tf, None, "read")

\* Update: equivalent content only re-records the plan (no step here); other
\* content needs allow_non_atomic_update; comparing the two may fail.
StartUpdate(plan) ==
    /\ tf # None
    /\ plan # tf
    /\ Start("update", tf, plan, "drop")

UpdateRefused(plan, why) ==
    /\ tf # None
    /\ pc = "idle"
    /\ budget.ops > 0
    /\ plan # tf
    /\ why \in {"disabled", "unknown"}
    /\ budget' = [budget EXCEPT !.ops = @ - 1]
    /\ op' = [kind |-> "update", prev |-> tf, plan |-> plan]
    /\ since' = Visible
    /\ latest' = attached
    /\ Finish(tf, why)
    /\ UNCHANGED <<catalog, answer, last>>

-----------------------------------------------------------------------------
(* The calls.                                                              *)

\* A definite refusal ends a Create at once; inside an update (alreadyManaged)
\* it is reconciled like any error.
\* Mutant: a Create reconciles a refusal as well.
NeverRefusedAtOnce(a) == FALSE
RefusedAtOnce(a) == op.kind = "create" /\ a = "rejected"

\* createPolicyWithReconciliation up to its polling loop.
CreateCall ==
    /\ pc = "create"
    /\ \E a \in Answers :
        /\ Settles(CreateOf(op.plan), a)
        /\ answer' = a
        /\ IF RefusedAtOnce(a)
             THEN Finish(tf, "rejected")
             ELSE GoTo("createLookup")
    /\ last' = NoLookup
    /\ UNCHANGED <<op, latest, budget>>

\* The second createPolicyWithReconciliation, for the previous policy.
RestoreCall ==
    /\ pc = "restore"
    /\ \E a \in Answers :
        /\ Settles(CreateOf(op.prev), a)
        /\ answer' = a
    /\ GoTo("restoreLookup")
    /\ last' = NoLookup
    /\ UNCHANGED <<op, latest, budget>>

DropCall ==
    /\ pc = "drop"
    /\ \E a \in Answers :
        /\ Settles(Drop, a)
        /\ GoTo(IF a \in {"ok", "notfound"} THEN "create" ELSE "dropLookup")
    /\ last' = NoLookup
    /\ UNCHANGED <<op, answer, latest, budget>>

DeleteCall ==
    /\ pc = "delete"
    /\ \E a \in Answers :
        /\ Settles(Drop, a)
        /\ IF a \in {"ok", "notfound"} THEN Finish(None, "ok") ELSE Finish(tf, "failed")
    /\ UNCHANGED <<op, answer, last, latest, budget>>

\* Read, also the second half of an import: an absent policy leaves the state,
\* any other answer replaces it.
ReadCall ==
    /\ pc = "read"
    /\ \/ \E seen \in Visible : Finish(seen, "ok") /\ latest' = seen
       \/ Finish(tf, "failed") /\ UNCHANGED latest
    /\ UNCHANGED <<catalog, op, answer, last, since, budget>>

-----------------------------------------------------------------------------
(* retryLookupUntil.                                                       *)

\* The content the running loop waits for.
Wanted == IF pc = "restoreLookup" THEN op.prev ELSE op.plan

\* The loop after a drop counts every answer as found and is also satisfied
\* by an absent policy; the loops after a create count a policy as found.
\* Mutant: any attached policy satisfies the loops.
ReadyForAny(seen) == seen # None \/ pc = "dropLookup"
Ready(seen) ==
    \/ seen = Wanted
    \/ pc = "dropLookup" /\ seen = None

Observed(seen) ==
    IF pc = "dropLookup" \/ seen # None
      THEN [looked |-> TRUE, found |-> TRUE, policy |-> seen, failed |-> FALSE]
      ELSE [last EXCEPT !.looked = TRUE, !.failed = FALSE]

\* A failed lookup keeps what an earlier one found.
\* Mutant: and forgets that it failed.
FailedUnnoticed == [last EXCEPT !.looked = TRUE]
Failed == [last EXCEPT !.looked = TRUE, !.failed = TRUE]

\* A lookup that does not satisfy the loop, or fails.
LookupAgain ==
    /\ pc \in Loops
    /\ \/ \E seen \in Visible :
            ~Ready(seen) /\ last' = Observed(seen) /\ latest' = seen
       \/ last' = Failed /\ UNCHANGED latest
    /\ UNCHANGED <<catalog, tf, op, pc, answer, result, since, budget>>

\* Mutant: a previous policy that is still there is dropped once more.
DropsAgain(l) ==
    \/ l.failed /\ Finish(tf, "unknown")
    \/ ~l.failed /\ GoTo(IF l.policy = None THEN "create" ELSE "drop")

\* What replacePolicyWithReconciliation does with the loop's outcome after a
\* failed drop.
AfterDropLookup(l) ==
    \/ l.failed /\ Finish(tf, "unknown")
    \/ ~l.failed /\ l.policy = None /\ GoTo("create")
    \/ ~l.failed /\ l.policy # None /\ Finish(tf, "unknown")  \* comparing with previous fails
    \/ /\ ~l.failed /\ l.policy # None
       /\ CASE l.policy = op.plan -> Finish(op.plan, "adopted")
            [] l.policy = op.prev -> Finish(tf, "previousRemains")
            [] OTHER -> Finish(tf, "unexpected")

\* createPolicyWithReconciliation after its loop, for the planned policy, and
\* what Create and Update make of it.
AfterCreateLookup(l, converged) ==
    \/ /\ converged
       /\ Finish(op.plan, IF answer = "ok" THEN "ok" ELSE "adopted")
    \/ /\ ~converged /\ answer = "ok"
       /\ Finish(IF l.failed \/ ~l.found THEN op.plan ELSE l.policy, "unverified")
    \/ /\ ~converged /\ answer # "ok" /\ op.kind = "create"
       /\ Finish(tf, CASE l.failed -> "unknown"
                       [] ~l.failed /\ ~l.found -> "absent"
                       [] OTHER -> "unexpected")
    \/ /\ ~converged /\ answer # "ok" /\ op.kind = "update"
       /\ IF l.failed \/ ~l.found
            THEN GoTo("restore")
            ELSE \/ Finish(tf, IF l.policy = op.prev THEN "previousRemains" ELSE "unexpected")
                 \/ Finish(tf, "unknown")  \* comparing with previous fails

\* The tail of replacePolicyWithReconciliation, after the restoring create.
AfterRestoreLookup(l, converged) ==
    \/ /\ converged \/ answer = "ok"
       /\ Finish(tf, IF converged THEN "restored" ELSE "restoredUnverified")
    \/ /\ ~converged /\ answer # "ok"
       /\ IF ~l.failed /\ l.found
            THEN \/ IF l.policy = op.plan THEN Finish(op.plan, "adopted") ELSE Finish(tf, "noPolicy")
                 \/ Finish(tf, "unknown")  \* comparing with desired fails
            ELSE Finish(tf, "noPolicy")

LoopEnds(l, converged) ==
    \/ pc = "dropLookup" /\ AfterDropLookup(l)
    \/ pc = "createLookup" /\ AfterCreateLookup(l, converged)
    \/ pc = "restoreLookup" /\ AfterRestoreLookup(l, converged)

\* A lookup satisfies the loop.
LookupReady ==
    /\ pc \in Loops
    /\ \E seen \in Visible :
        /\ Ready(seen)
        /\ last' = Observed(seen)
        /\ latest' = seen
        /\ LoopEnds(Observed(seen), TRUE)
    /\ UNCHANGED <<catalog, op, answer, since, budget>>

\* The recovery timeout expires after at least one lookup.
\* Mutant: a loop that never found a policy keeps looking.
DeadlineIfFound ==
    /\ pc \in Loops
    /\ last.looked /\ last.found
    /\ LoopEnds(last, FALSE)
    /\ UNCHANGED <<catalog, op, answer, last, since, latest, budget>>

Deadline ==
    /\ pc \in Loops
    /\ last.looked
    /\ LoopEnds(last, FALSE)
    /\ UNCHANGED <<catalog, op, answer, last, since, latest, budget>>

\* The provider process dies: the handler's result never reaches the state
\* file, and the request it was about to send may or may not have left.
Crash ==
    /\ pc # "idle"
    /\ budget.crashes > 0
    /\ budget' = [budget EXCEPT !.crashes = @ - 1]
    /\ \/ UNCHANGED inflight
       \/ \E r \in Requests :
            /\ \/ pc \in {"drop", "delete"} /\ r = Drop
               \/ pc = "create" /\ r = CreateOf(op.plan)
               \/ pc = "restore" /\ r = CreateOf(op.prev)
            /\ inflight' = [inflight EXCEPT ![r] = @ + 1]
    /\ Finish(tf, "unknown")
    /\ UNCHANGED <<attached, replica, op, answer, last, since, latest>>

-----------------------------------------------------------------------------
Handler ==
    \/ CreateCall \/ RestoreCall \/ DropCall \/ DeleteCall \/ ReadCall
    \/ LookupAgain \/ LookupReady \/ Deadline

Begin ==
    \/ StartImport \/ StartDelete \/ StartRead
    \/ \E plan \in Contents :
        \/ StartCreate(plan) \/ StartUpdate(plan)
        \/ \E why \in {"disabled", "unknown"} : UpdateRefused(plan, why)

Environment ==
    \/ \E r \in Requests : LateArrival(r)
    \/ \E c \in Maybe : OutOfBand(c)
    \/ Replicate \/ Crash

Next == Begin \/ Handler \/ Environment

Spec == Init /\ [][Next]_vars

\* A call ends (the HTTP client has a timeout) and the recovery context expires.
Fairness ==
    /\ WF_vars(CreateCall) /\ WF_vars(RestoreCall) /\ WF_vars(DropCall)
    /\ WF_vars(DeleteCall) /\ WF_vars(ReadCall)
    /\ WF_vars(LookupAgain) /\ WF_vars(Deadline)

FairSpec == Spec /\ Fairness

-----------------------------------------------------------------------------
(* What the handlers promise.                                              *)

\* Whatever a finished handler says about the catalog was so at some moment
\* after its last mutating call settled: a state it wrote was attached, an
\* absence it "confirmed" was one, a previous policy it found attached or
\* restored was attached, an unexpected content was there.  Lost answers, late
\* requests, out-of-band changes and crashes never make it report otherwise.
DiagnosticTruth ==
    pc = "idle" =>
      CASE result \in {"ok", "adopted", "unverified"} -> tf \in since
        [] result \in {"restored", "restoredUnverified", "previousRemains"} ->
             tf = op.prev /\ op.prev \in since
        [] result = "absent" -> None \in since
        [] result = "unexpected" -> \E c \in since : c \notin {None, op.plan, op.prev}
        [] OTHER -> TRUE

\* The inductive strengthening: the handler's local variables are true of the
\* window they were read in.
LoopInv ==
    pc \in Loops =>
      /\ last.found => last.policy \in since /\ last.policy # Wanted
      /\ last.found /\ pc # "dropLookup" => last.policy # None
      /\ last.looked /\ ~last.failed /\ ~last.found =>
           None \in since /\ pc # "dropLookup"
      /\ pc # "dropLookup" /\ answer = "ok" => Wanted \in since

OpInv ==
    /\ pc \in {"create", "createLookup"} => op.kind \in {"create", "update"} /\ op.plan # None
    /\ pc \in {"drop", "dropLookup", "restore", "restoreLookup"} =>
         op.kind = "update" /\ op.plan # None
    /\ op.kind = "update" /\ pc # "idle" => tf = op.prev /\ op.prev # None
    /\ op.kind = "create" => op.prev = None /\ pc \notin {"delete", "read"}
    /\ op.kind = "create" /\ pc = "createLookup" => answer # "rejected"

DiagnosticInv == TypeOK /\ Visible \subseteq since /\ OpInv /\ LoopInv /\ DiagnosticTruth

\* A create the catalog definitely refused never adopts the policy that is
\* already there: ownership of it is taken by an import (createPolicyWith-
\* Reconciliation with alreadyManaged = false).
RefusedCreateNeverAdopts ==
    [][op.kind = "create" /\ tf' # tf => answer # "rejected"]_vars

\* The state written by any handler shows contents the catalog has shown since
\* the last call of that handler settled; nothing else changes the state.
Truthful == INSTANCE TruthfulState WITH
    Values <- Maybe, shown <- Visible, recorded <- tf, window <- since
StateIsTruthful == Truthful!Spec

\* When the update says that the previous policy remains attached, the latest
\* successful lookup has shown it: the diagnostic of replacePolicyWith-
\* Reconciliation says "reconciliation confirmed".
PreviousRemainsIsConfirmed ==
    pc = "idle" /\ result = "previousRemains" => latest = op.prev

\* Every handler that started ends, whatever the catalog answers.
HandlerEnds == (pc # "idle") ~> (pc = "idle")

\* How far a handler is from its end, by the calls it may still make.
Distance == [idle |-> 0, read |-> 1, delete |-> 1, restoreLookup |-> 1, restore |-> 2,
             createLookup |-> 3, create |-> 4, dropLookup |-> 5, drop |-> 6]

\* The client does not repeat a mutation (RestClient), and neither does a handler:
\* it only moves towards its end, so it makes no call twice and enters no polling
\* loop again, and while it stays where it is nothing new is sent.  An update
\* sends a drop, a create and a restoring create at most, each once, in this order.
HandlerAdvances ==
    [][/\ pc' # pc => pc = "idle" \/ Distance[pc'] < Distance[pc]
       /\ pc' = pc => \A r \in Requests : inflight'[r] <= inflight[r]]_vars

=============================================================================
