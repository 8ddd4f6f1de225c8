-------------------------- MODULE DatabaseResource --------------------------
(***************************************************************************)
(* The life cycle of one database: its options in Terraform state and in   *)
(* the REST catalog.                                                       *)
(*                                                                         *)
(* Terraform manages some option keys; the server and other clients may    *)
(* set others.  Mutations are sent once; after an accepted or uncertain    *)
(* one the handler polls until the catalog shows the planned options or    *)
(* its recovery timeout expires.  The client behind the calls loads the    *)
(* catalog configuration first (RestClient), so every call may also fail   *)
(* the way that load fails.                                                *)
(***************************************************************************)
EXTENDS Naturals

CONSTANTS
    Keys,            \* option keys
    Values,          \* option values
    Absent,          \* the key is not set, or not managed
    Missing,         \* the database does not exist
    NoState,         \* the resource is not in Terraform state
    Defaults,        \* options the server adds to a new database
    StaleReads,      \* TRUE: a lookup may be answered from a lagging replica
    ConfigFailures,  \* how the configuration load may fail
    MaxOps,          \* bound: handlers Terraform runs
    MaxOther,        \* bound: changes made outside Terraform
    MaxCrashes       \* bound: handlers killed before their state is saved

Options == [Keys -> Values \cup {Absent}]
NoOptions == [k \in Keys |-> Absent]
Databases == Options \cup {Missing}

Failures == {"notfound", "rejected", "uncertain"}

ASSUME AbsentAssumption == Absent \notin Values
ASSUME SentinelAssumption == Missing \notin Options /\ NoState \notin Options
ASSUME DefaultsAssumption == Defaults \in Options
ASSUME ConfigAssumption == ConfigFailures \subseteq Failures /\ StaleReads \in BOOLEAN
ASSUME BoundsAssumption == MaxOps \in Nat /\ MaxOther \in Nat /\ MaxCrashes \in Nat

VARIABLES
    db,          \* the database in the catalog
    replica,     \* what a lagging replica still shows
    inflight,    \* requests the client gave up on that may still arrive
    configured,  \* the client has loaded the catalog configuration
    tf,          \* the managed options in Terraform state, or NoState
    op,          \* the handler's inputs
    pc,          \* where the handler is
    accepted,    \* the mutation was acknowledged
    result,      \* the diagnostic of the last finished handler
    since,       \* history: what the catalog has shown since the last call settled
    budget       \* remaining steps of the bounded kinds

vars == <<db, replica, inflight, configured, tf, op, pc, accepted, result, since, budget>>

-----------------------------------------------------------------------------
\* diffOptions: the keys to remove and the options to set.
Removals(before, after) == {k \in Keys : before[k] # Absent /\ after[k] = Absent}
Updates(before, after) ==
    [k \in Keys |-> IF after[k] # before[k] THEN after[k] ELSE Absent]

\* Mutant: removed keys are not checked.
ConvergedUpdates(remote, planned, removals) ==
    \A k \in Keys : planned[k] # Absent => remote[k] = planned[k]

\* optionsConverged: planned values are there and removed keys are gone.
Converged(remote, planned, removals) ==
    /\ \A k \in Keys : planned[k] # Absent => remote[k] = planned[k]
    /\ \A k \in removals : remote[k] = Absent

\* syncManagedOptions: only managed keys, with the remote values.
Synced(managed, remote) ==
    [k \in Keys |-> IF managed[k] # Absent THEN remote[k] ELSE Absent]

\* Read: the state after a GET that answered d.
StateAfterRead(managed, d) == IF d = Missing THEN NoState ELSE Synced(managed, d)

\* What Terraform state may say about a database: some of its options.
Views(d) ==
    IF d = Missing THEN {NoState}
    ELSE {[k \in Keys |-> IF k \in K THEN d[k] ELSE Absent] : K \in SUBSET Keys}

Visible == {db, replica}

Requests == [id : 0..MaxOps, type : {"create", "alter", "drop"},
             set : Options, unset : SUBSET Keys]
Handlers == {"none", "create", "read", "import", "update", "delete"}
Results == {"none", "ok", "adopted", "unverified", "failed", "crashed"}

\* Types of the catalog, of Terraform state and of the handler; in particular
\* the state is a map of options or absent, never a half-read database.
TypeOK ==
    /\ db \in Databases
    /\ replica \in Databases
    /\ inflight \subseteq Requests
    /\ configured \in BOOLEAN
    /\ tf \in Options \cup {NoState}
    /\ op \in [kind : Handlers, before : Options, plan : Options]
    /\ pc \in {"idle", "create", "read", "alter", "delete", "verify"}
    /\ accepted \in BOOLEAN
    /\ result \in Results
    /\ since \subseteq Databases
    /\ budget \in [ops : 0..MaxOps, other : 0..MaxOther, crashes : 0..MaxCrashes]

Init ==
    /\ db \in {Missing, Defaults}
    /\ replica = db
    /\ inflight = {}
    /\ configured = FALSE
    /\ tf = NoState
    /\ op = [kind |-> "none", before |-> NoOptions, plan |-> NoOptions]
    /\ pc = "idle"
    /\ accepted = FALSE
    /\ result = "none"
    /\ since = Visible
    /\ budget = [ops |-> MaxOps, other |-> MaxOther, crashes |-> MaxCrashes]

-----------------------------------------------------------------------------
(* The catalog and the client, modelled from how the resource uses them.   *)

CanApply(r) == (r.type = "create") = (db = Missing)

\* The database after the catalog carried out r.
After(r) ==
    CASE r.type = "create" ->
           [k \in Keys |-> IF r.set[k] # Absent THEN r.set[k] ELSE Defaults[k]]
      [] r.type = "alter" ->
           [k \in Keys |-> IF r.set[k] # Absent THEN r.set[k]
                           ELSE IF k \in r.unset THEN Absent ELSE db[k]]
      [] OTHER -> Missing

\* Without lag every replica follows the catalog at once.
Shows == replica' = IF StaleReads THEN replica ELSE db'

\* A call fails while it loads the catalog configuration.
ConfigFails(a) ==
    /\ ~configured
    /\ a \in ConfigFailures
    /\ UNCHANGED configured

\* One mutating call: its outcome is that of the configuration load, or the
\* catalog's.  After an uncertain outcome the request may still arrive.
Settles(r, a) ==
    /\ \/ ConfigFails(a) /\ UNCHANGED <<db, inflight>>
       \/ /\ configured' = TRUE
          /\ \/ a = "ok" /\ CanApply(r) /\ db' = After(r) /\ UNCHANGED inflight
             \/ a = "notfound" /\ r.type # "create" /\ db = Missing /\ UNCHANGED <<db, inflight>>
             \/ a = "rejected" /\ UNCHANGED <<db, inflight>>
             \/ a = "uncertain" /\ inflight' = inflight \cup {r} /\ UNCHANGED db
    /\ Shows
    /\ since' = Visible'

\* One GET: the database, a 404 (taken for a missing database wherever it
\* comes from), or a failure.
Sees(d) ==
    \/ configured' = TRUE /\ d \in Visible
    \/ ConfigFails("notfound") /\ d = Missing
SeesNothing == configured' \in {configured, TRUE}

Request(type, set, unset) == [id |-> budget.ops, type |-> type, set |-> set, unset |-> unset]

-----------------------------------------------------------------------------
(* The environment.                                                        *)

LateArrival(r) ==
    /\ r \in inflight
    /\ inflight' = inflight \ {r}
    /\ db' \in {db, IF CanApply(r) THEN After(r) ELSE db}
    /\ Shows
    /\ since' = since \cup Visible'
    /\ UNCHANGED <<configured, tf, op, pc, accepted, result, budget>>

OutOfBand(d) ==
    /\ budget.other > 0
    /\ d # db
    /\ db' = d
    /\ Shows
    /\ since' = since \cup Visible'
    /\ budget' = [budget EXCEPT !.other = @ - 1]
    /\ UNCHANGED <<inflight, configured, tf, op, pc, accepted, result>>

Replicate ==
    /\ replica # db
    /\ replica' = db
    /\ UNCHANGED <<db, inflight, configured, tf, op, pc, accepted, result, since, budget>>

-----------------------------------------------------------------------------
(* The handlers.                                                           *)

\* Terraform calls a handler, of the running provider process or of a new one.
Start(kind, before, plan, first) ==
    /\ pc = "idle"
    /\ budget.ops > 0
    /\ budget' = [budget EXCEPT !.ops = @ - 1]
    /\ op' = [kind |-> kind, before |-> before, plan |-> plan]
    /\ pc' = first
    /\ accepted' = FALSE
    /\ result' = "none"
    /\ since' = Visible
    /\ configured' \in {configured, FALSE}
    /\ UNCHANGED <<db, replica, inflight, tf>>

Finish(newState, diagnostic) ==
    /\ tf' = newState
    /\ result' = diagnostic
    /\ pc' = "idle"

StartCreate(plan) == tf = NoState /\ Start("create", NoOptions, plan, "create")
StartImport == tf = NoState /\ Start("import", NoOptions, NoOptions, "read")
StartRead == tf # NoState /\ Start("read", tf, tf, "read")
StartDelete == tf # NoState /\ Start("delete", tf, tf, "delete")

\* Update alters only when the options differ, and verifies in any case.
StartUpdate(plan) ==
    /\ tf # NoState
    /\ Start("update", tf, plan, IF plan = tf THEN "verify" ELSE "alter")

\* lookupAfterMutation is told whether the mutation was acknowledged.
Reconcile(a) ==
    /\ accepted' = (a = "ok")
    /\ pc' = "verify"
    /\ UNCHANGED <<tf, result>>

\* Create: a definite error leaves no state; any other outcome is reconciled.
CreateCall ==
    /\ pc = "create"
    /\ \E a \in Failures \cup {"ok"} :
        /\ Settles(Request("create", op.plan, {}), a)
        /\ IF a \in {"notfound", "rejected"}
             THEN Finish(tf, "failed") /\ UNCHANGED accepted
             ELSE Reconcile(a)
    /\ UNCHANGED <<op, budget>>

AlterCall ==
    /\ pc = "alter"
    /\ \E a \in Failures \cup {"ok"} :
        /\ Settles(Request("alter", Updates(op.before, op.plan),
                           Removals(op.before, op.plan)), a)
        /\ IF a \in {"notfound", "rejected"}
             THEN Finish(tf, "failed") /\ UNCHANGED accepted
             ELSE Reconcile(a)
    /\ UNCHANGED <<op, budget>>

DeleteCall ==
    /\ pc = "delete"
    /\ \E a \in Failures \cup {"ok"} :
        /\ Settles(Request("drop", NoOptions, {}), a)
        /\ IF a \in {"ok", "notfound"} THEN Finish(NoState, "ok") ELSE Finish(tf, "failed")
    /\ UNCHANGED <<op, accepted, budget>>

\* Read, also the second half of an import: a missing database leaves the state.
ReadCall ==
    /\ pc = "read"
    /\ \/ \E d \in Databases :
            Sees(d) /\ Finish(StateAfterRead(op.before, d), "ok")
       \/ SeesNothing /\ Finish(tf, "failed")
    /\ UNCHANGED <<db, replica, inflight, op, accepted, since, budget>>

\* Mutant: extra options do not matter after an uncertain create.
ReadyInexact(d) == d # Missing /\ Converged(d, op.plan, Removals(op.before, op.plan))

\* databaseMatchesOptions: after an uncertain create nothing but the planned
\* options may be set; otherwise other keys do not matter.
Ready(d) ==
    /\ d # Missing
    /\ Converged(d, op.plan, Removals(op.before, op.plan))
    /\ op.kind = "create" /\ ~accepted =>
         {k \in Keys : d[k] # Absent} = {k \in Keys : op.plan[k] # Absent}

\* lookupAfterMutation: a lookup that does not satisfy the handler, or fails.
LookupAgain ==
    /\ pc = "verify"
    /\ \/ \E d \in Databases : Sees(d) /\ ~Ready(d)
       \/ SeesNothing
    /\ UNCHANGED <<db, replica, inflight, tf, op, pc, accepted, result, since, budget>>

LookupReady ==
    /\ pc = "verify"
    /\ \E d \in Databases :
        /\ Sees(d)
        /\ Ready(d)
        /\ Finish(Synced(op.plan, d),
                  IF accepted \/ (op.kind = "update" /\ op.plan = op.before)
                    THEN "ok" ELSE "adopted")
    /\ UNCHANGED <<db, replica, inflight, op, accepted, since, budget>>

\* Mutants: an unverified update stores its plan; an unaccepted create stores
\* its plan; only accepted mutations stop waiting.
DeadlineStoresPlan ==
    /\ pc = "verify"
    /\ IF accepted THEN Finish(op.plan, "unverified") ELSE Finish(tf, "failed")
    /\ UNCHANGED <<db, replica, inflight, configured, op, accepted, since, budget>>
DeadlineStoresCreate ==
    /\ pc = "verify"
    /\ IF op.kind = "create"
         THEN Finish(op.plan, "unverified")
         ELSE Finish(tf, IF accepted THEN "unverified" ELSE "failed")
    /\ UNCHANGED <<db, replica, inflight, configured, op, accepted, since, budget>>
DeadlineIfAccepted ==
    /\ pc = "verify" /\ accepted
    /\ IF op.kind = "create" THEN Finish(op.plan, "unverified") ELSE Finish(tf, "unverified")
    /\ UNCHANGED <<db, replica, inflight, configured, op, accepted, since, budget>>

\* The recovery timeout expires (before or after lookups that did not satisfy
\* the handler: the state does not depend on them).  An accepted create keeps the planned identity
\* in state; an update keeps the previous state.
Deadline ==
    /\ pc = "verify"
    /\ IF op.kind = "create" /\ accepted
         THEN Finish(op.plan, "unverified")
         ELSE Finish(tf, IF accepted THEN "unverified" ELSE "failed")
    /\ UNCHANGED <<db, replica, inflight, configured, op, accepted, since, budget>>

\* The provider process dies before the state is saved; the request it was
\* about to send may have left.
Crash ==
    /\ pc # "idle"
    /\ budget.crashes > 0
    /\ budget' = [budget EXCEPT !.crashes = @ - 1]
    /\ inflight' \in {inflight} \cup
         CASE pc = "create" -> {inflight \cup {Request("create", op.plan, {})}}
           [] pc = "alter" -> {inflight \cup {Request("alter", Updates(op.before, op.plan),
                                                      Removals(op.before, op.plan))}}
           [] pc = "delete" -> {inflight \cup {Request("drop", NoOptions, {})}}
           [] OTHER -> {}
    /\ configured' = FALSE
    /\ Finish(tf, "crashed")
    /\ UNCHANGED <<db, replica, op, accepted, since>>

-----------------------------------------------------------------------------
Begin ==
    \/ StartImport \/ StartRead \/ StartDelete
    \/ \E plan \in Options : StartCreate(plan) \/ StartUpdate(plan)

Handler ==
    \/ CreateCall \/ AlterCall \/ DeleteCall \/ ReadCall
    \/ LookupAgain \/ LookupReady \/ Deadline

Environment ==
    \/ \E r \in inflight : LateArrival(r)
    \/ \E d \in Databases : OutOfBand(d)
    \/ Replicate \/ Crash

Next == Begin \/ Handler \/ Environment

Spec == Init /\ [][Next]_vars

\* Calls time out and the recovery context expires.
FairSpec ==
    /\ Spec
    /\ WF_vars(CreateCall) /\ WF_vars(AlterCall) /\ WF_vars(DeleteCall)
    /\ WF_vars(ReadCall) /\ WF_vars(Deadline)

-----------------------------------------------------------------------------
(* What the handlers promise.                                              *)

\* A create or update that succeeds has shown, in one single answer, every
\* planned option and none of the removed ones.
SuccessWasConverged ==
    pc = "idle" /\ op.kind \in {"create", "update"} /\ result \in {"ok", "adopted"} =>
        \E d \in since \ {Missing} : \A k \in Keys :
            \/ op.plan[k] # Absent /\ d[k] = op.plan[k]
            \/ op.plan[k] = Absent /\ (op.before[k] # Absent => d[k] = Absent)

\* A create of uncertain outcome adopts a database only if it had exactly the
\* planned options.
AdoptionWasExact ==
    pc = "idle" /\ op.kind = "create" /\ result = "adopted" => op.plan \in since

\* A managed option leaves the state of an existing database only with a
\* handler that reports success, and only after the catalog has shown the
\* database without it: failed removal verification keeps the key managed.
RemovalsStayManaged ==
    [][tf # NoState /\ tf' # NoState =>
        \A k \in Keys : tf[k] # Absent /\ tf'[k] = Absent =>
            /\ result' \in {"ok", "adopted"}
            /\ \E d \in since' : d # Missing /\ d[k] = Absent]_vars

\* Terraform state only takes values the catalog has shown since the last call
\* settled: options of one database it showed, or nothing if it was missing.
Truthful == INSTANCE TruthfulState WITH
    Values <- Options \cup {NoState},
    shown <- UNION {Views(d) : d \in Visible},
    recorded <- tf,
    window <- UNION {Views(d) : d \in since}
StateIsTruthful == Truthful!Spec

\* Every handler ends.
HandlerEnds == (pc # "idle") ~> (pc = "idle")

\* "A refresh that finds the database missing removes it from Terraform state":
\* nothing else does, and a delete removes it only when it is gone.
RemovedOnlyIfMissing ==
    [][tf # NoState /\ tf' = NoState => Missing \in since']_vars

\* A handler sends one mutation: what may still arrive comes from different
\* handlers, and a handler that has been told the outcome, or had nothing to
\* send, leaves nothing behind that could undo what later handlers do.
OneMutationEach ==
    /\ \A r, q \in inflight : r.id = q.id => r = q
    /\ pc = "idle" /\ result \in {"ok", "unverified"} => \A r \in inflight : r.id # budget.ops

=============================================================================
