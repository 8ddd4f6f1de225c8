------------------------- MODULE PermissionResource -------------------------
(***************************************************************************)
(* The life cycle of one permission assignment.  Granting replaces what is *)
(* there, so create and update send the same request, and every failed     *)
(* grant, also a refused one, is reconciled: if the catalog shows the      *)
(* planned assignment it is adopted.  A grant the catalog acknowledged is  *)
(* recorded whether or not it can be verified.                             *)
(*                                                                         *)
(* Grants stand for classes of equivalent assignments of one identity      *)
(* (permissionAssignmentsEquivalent: column range and expiry).             *)
(***************************************************************************)
EXTENDS Naturals

CONSTANTS
    Grants,      \* classes of equivalent assignments
    None,        \* no assignment; not in Terraform state
    StaleReads,  \* TRUE: a lookup may be answered from a lagging replica
    MaxOps,      \* bound: handlers Terraform runs
    MaxOther,    \* bound: grants, revocations and expiries outside Terraform
    MaxCrashes   \* bound: handlers killed before their state is saved

ASSUME GrantsAssumption == None \notin Grants
ASSUME BoundsAssumption ==
    StaleReads \in BOOLEAN /\ MaxOps \in Nat /\ MaxOther \in Nat /\ MaxCrashes \in Nat

VARIABLES
    granted,   \* the assignment in the catalog
    replica,   \* what a lagging replica still shows
    inflight,  \* grants, or None for revocations, that may still arrive
    tf,        \* the assignment in Terraform state
    op,        \* the handler's inputs
    pc,        \* where the handler is
    last,      \* the variables of retryLookupUntil
    result,    \* the diagnostic of the last finished handler
    since,     \* history: what the catalog has shown since the last call settled
    budget     \* remaining steps of the bounded kinds

vars == <<granted, replica, inflight, tf, op, pc, last, result, since, budget>>
catalog == <<granted, replica, inflight>>

-----------------------------------------------------------------------------
Maybe == Grants \cup {None}
Visible == {granted, replica}
Kinds == {"none", "create", "update", "import", "read", "delete"}
Results == {"none", "ok", "unverified", "adopted", "unknown", "absent", "differs", "failed"}
NoLookup == [looked |-> FALSE, found |-> FALSE, grant |-> None, failed |-> FALSE]

\* Types of the catalog, of Terraform state and of the handler; requests in
\* flight are counted, and only requests that were sent arrive.
TypeOK ==
    /\ granted \in Maybe
    /\ replica \in Maybe
    /\ inflight \in [Maybe -> Nat]
    /\ tf \in Maybe
    /\ op \in [kind : Kinds, plan : Maybe]
    /\ pc \in {"idle", "grant", "verify", "reconcile", "revoke", "read"}
    /\ last \in [looked : BOOLEAN, found : BOOLEAN, grant : Maybe, failed : BOOLEAN]
    /\ result \in Results
    /\ since \subseteq Maybe
    /\ budget \in [ops : Nat, other : Nat, crashes : Nat]

Init ==
    /\ granted \in Maybe
    /\ replica = granted
    /\ inflight = [g \in Maybe |-> 0]
    /\ tf = None
    /\ op = [kind |-> "none", plan |-> None]
    /\ pc = "idle"
    /\ last = NoLookup
    /\ result = "none"
    /\ since = Visible
    /\ budget = [ops |-> MaxOps, other |-> MaxOther, crashes |-> MaxCrashes]

-----------------------------------------------------------------------------
(* The catalog, modelled from how the resource uses it: a request sets the  *)
(* assignment to g, None for a revocation.                                  *)

Shows == replica' = IF StaleReads THEN replica ELSE granted'

\* How a mutating call ends.  A definite failure changes nothing; after an
\* uncertain one the request may still arrive.
Settles(g, a) ==
    /\ \/ a = "ok" /\ granted' = g /\ UNCHANGED inflight
       \/ a = "notfound" /\ granted = None /\ UNCHANGED <<granted, inflight>>
       \/ a = "rejected" /\ UNCHANGED <<granted, inflight>>
       \/ a = "uncertain" /\ inflight' = [inflight EXCEPT ![g] = @ + 1] /\ UNCHANGED granted
    /\ Shows
    /\ since' = Visible'

LateArrival(g) ==
    /\ inflight[g] > 0
    /\ inflight' = [inflight EXCEPT ![g] = @ - 1]
    /\ granted' \in {granted, g}
    /\ Shows
    /\ since' = since \cup Visible'
    /\ UNCHANGED <<tf, op, pc, last, result, budget>>

\* Somebody else grants or revokes, or the assignment expires.
OutOfBand(g) ==
    /\ budget.other > 0
    /\ g # granted
    /\ granted' = g
    /\ Shows
    /\ since' = since \cup Visible'
    /\ budget' = [budget EXCEPT !.other = @ - 1]
    /\ UNCHANGED <<inflight, tf, op, pc, last, result>>

Replicate ==
    /\ replica # granted
    /\ replica' = granted
    /\ UNCHANGED <<granted, inflight, tf, op, pc, last, result, since, budget>>

-----------------------------------------------------------------------------
(* The handlers.                                                           *)

Start(kind, plan, first) ==
    /\ pc = "idle"
    /\ budget.ops > 0
    /\ budget' = [budget EXCEPT !.ops = @ - 1]
    /\ op' = [kind |-> kind, plan |-> plan]
    /\ pc' = first
    /\ last' = NoLookup
    /\ result' = "none"
    /\ since' = Visible
    /\ UNCHANGED <<catalog, tf>>

Finish(newState, diagnostic) ==
    /\ tf' = newState
    /\ result' = diagnostic
    /\ pc' = "idle"

StartCreate(plan) == tf = None /\ Start("create", plan, "grant")
StartUpdate(plan) == tf # None /\ plan # tf /\ Start("update", plan, "grant")
StartImport == tf = None /\ Start("import", None, "read")
StartRead == tf # None /\ Start("read", None, "read")
StartDelete == tf # None /\ Start("delete", None, "revoke")

\* Create and Update: an acknowledged grant is verified, any error reconciled.
GrantCall ==
    /\ pc = "grant"
    /\ \E a \in {"ok", "notfound", "rejected", "uncertain"} :
        /\ Settles(op.plan, a)
        /\ pc' = IF a = "ok" THEN "verify" ELSE "reconcile"
    /\ UNCHANGED <<tf, op, last, result, budget>>

RevokeCall ==
    /\ pc = "revoke"
    /\ \E a \in {"ok", "notfound", "rejected", "uncertain"} :
        /\ Settles(None, a)
        /\ IF a \in {"ok", "notfound"} THEN Finish(None, "ok") ELSE Finish(tf, "failed")
    /\ UNCHANGED <<op, last, budget>>

\* Read, also the second half of an import.
ReadCall ==
    /\ pc = "read"
    /\ \/ \E seen \in Visible : Finish(seen, "ok")
       \/ Finish(tf, "failed")
    /\ UNCHANGED <<catalog, op, last, since, budget>>

-----------------------------------------------------------------------------
(* readAfterMutation and reconcileFailedGrant, with retryLookupUntil.      *)

Looping == pc \in {"verify", "reconcile"}

\* Mutant: any assignment of that identity satisfies the loop.
ReadyForAny(seen) == seen # None
Ready(seen) == seen = op.plan

Observed(seen) ==
    IF seen # None
      THEN [looked |-> TRUE, found |-> TRUE, grant |-> seen, failed |-> FALSE]
      ELSE [last EXCEPT !.looked = TRUE, !.failed = FALSE]

\* A failed lookup: the request fails, or finds more than one assignment.
Failed == [last EXCEPT !.looked = TRUE, !.failed = TRUE]

LookupAgain ==
    /\ Looping
    /\ \/ \E seen \in Visible : ~Ready(seen) /\ last' = Observed(seen)
       \/ last' = Failed
    /\ UNCHANGED <<catalog, tf, op, pc, result, since, budget>>

LookupReady ==
    /\ Looping
    /\ \E seen \in Visible :
        /\ Ready(seen)
        /\ last' = Observed(seen)
        /\ Finish(seen, IF pc = "verify" THEN "ok" ELSE "adopted")
    /\ UNCHANGED <<catalog, op, since, budget>>

\* The recovery timeout expires: an acknowledged grant is recorded anyway, a
\* failed one leaves the previous state.
\* Mutants: a failed grant is recorded; a loop that found nothing goes on.
ExpiryRecordsPlan == Finish(op.plan, IF last.failed THEN "unknown" ELSE "unverified")
ExpiryIfFound ==
    last.found /\ Finish(IF pc = "verify" THEN op.plan ELSE tf,
                         IF pc = "verify" THEN "unverified" ELSE "differs")
Expiry ==
    IF pc = "verify" THEN Finish(op.plan, "unverified")
    ELSE Finish(tf, CASE last.failed -> "unknown"
                      [] ~last.failed /\ ~last.found -> "absent"
                      [] OTHER -> "differs")

Deadline ==
    /\ Looping
    /\ last.looked
    /\ Expiry
    /\ UNCHANGED <<catalog, op, last, since, budget>>

\* The provider process dies: its result never reaches the state file, and
\* the request it was about to send may have left.
Crash ==
    /\ pc # "idle"
    /\ budget.crashes > 0
    /\ budget' = [budget EXCEPT !.crashes = @ - 1]
    /\ \/ UNCHANGED inflight
       \/ pc = "grant" /\ inflight' = [inflight EXCEPT ![op.plan] = @ + 1]
       \/ pc = "revoke" /\ inflight' = [inflight EXCEPT ![None] = @ + 1]
    /\ Finish(tf, "unknown")
    /\ UNCHANGED <<granted, replica, op, last, since>>

-----------------------------------------------------------------------------
Begin ==
    \/ StartImport \/ StartRead \/ StartDelete
    \/ \E plan \in Grants : StartCreate(plan) \/ StartUpdate(plan)

Handler ==
    \/ GrantCall \/ RevokeCall \/ ReadCall
    \/ LookupAgain \/ LookupReady \/ Deadline

Environment ==
    \/ \E g \in Maybe : LateArrival(g) \/ OutOfBand(g)
    \/ Replicate \/ Crash

Next == Begin \/ Handler \/ Environment

Spec == Init /\ [][Next]_vars

\* Calls time out and the recovery context expires.
FairSpec ==
    /\ Spec
    /\ WF_vars(GrantCall) /\ WF_vars(RevokeCall) /\ WF_vars(ReadCall)
    /\ WF_vars(LookupAgain) /\ WF_vars(Deadline)

-----------------------------------------------------------------------------
(* What the handlers promise.                                              *)

\* What a finished handler reports was so since its mutating call settled: the
\* planned grant it recorded was there, "absent" and "exists with different
\* attributes" were observed, whatever arrived late, expired or crashed meanwhile.
DiagnosticTruth ==
    pc = "idle" =>
      CASE result \in {"ok", "adopted", "unverified"} ->
             tf \in since /\ (op.kind \in {"create", "update"} => tf = op.plan)
        [] result = "absent" -> None \in since
        [] result = "differs" -> since \ {None, op.plan} # {}
        [] OTHER -> TRUE

\* Terraform state only takes values the catalog has shown since the last call
\* settled.
Truthful == INSTANCE TruthfulState WITH
    Values <- Maybe, shown <- Visible, recorded <- tf, window <- since
StateIsTruthful == Truthful!Spec

\* Every handler ends.
HandlerEnds == (pc # "idle") ~> (pc = "idle")

=============================================================================
