--------------------------- MODULE TableResource ---------------------------
(***************************************************************************)
(* The life cycle of one table: what Terraform state says about it, what   *)
(* the catalog holds, the decision between an alter in place and a         *)
(* replacement, and the verification of every mutation.                    *)
(*                                                                         *)
(* A schema stands for the columns with their IDs, the partition keys and  *)
(* the comment; SchemaChanges looks inside.  The provider decides on the   *)
(* plan from the state of the last refresh, while the table may have been  *)
(* changed, or dropped and created again, by others.                       *)
(***************************************************************************)
EXTENDS TableOptions, Naturals

CONSTANTS
    Schemas,      \* schemas a table may have
    Shape,        \* a schema without its field IDs
    Alterable,    \* pairs of schemas with a change in place
    Plans,        \* what the user may configure: a schema and options
    Defaults,     \* options the server adds to a new table
    OtherTables,  \* tables other clients may create or turn this one into
    Missing,      \* the table does not exist
    NoState,      \* the resource is not in Terraform state
    Unknown,      \* server options Terraform has not been told
    StaleReads,   \* TRUE: a lookup may be answered from a lagging replica
    MaxOps,       \* bound: handlers Terraform runs
    MaxOther,     \* bound: changes made outside Terraform
    MaxCrashes    \* bound: handlers killed before their state is saved

Tables == [schema : Schemas, opts : Options, keys : KeyLists]
States == [schema : Schemas, managed : Options, keys : KeyLists, server : Options \cup {Unknown}]
Configs == [schema : Schemas, opts : Options]

ASSUME SentinelAssumption == Missing \notin Tables /\ NoState \notin States /\ Unknown \notin Options
ASSUME SchemasAssumption ==
    /\ Shape \in [Schemas -> Schemas]
    /\ Alterable \subseteq Schemas \X Schemas
    /\ \A s \in Schemas : <<s, s>> \in Alterable
ASSUME TablesAssumption ==
    /\ Plans \subseteq Configs
    /\ Defaults \in Options
    /\ OtherTables \subseteq Tables
    /\ Defaults[PrimaryKey] = Absent /\ \A t \in OtherTables : t.opts[PrimaryKey] = Absent
ASSUME BoundsAssumption ==
    MaxOps \in Nat /\ MaxOther \in Nat /\ MaxCrashes \in Nat /\ StaleReads \in BOOLEAN

VARIABLES
    table,     \* the table in the catalog
    replica,   \* what a lagging replica still shows
    inflight,  \* requests the client gave up on that may still arrive
    tf,        \* the table in Terraform state, or NoState
    op,        \* the handler's inputs: the state it got and the plan
    pc,        \* where the handler is
    accepted,  \* the mutation was acknowledged
    result,    \* the diagnostic of the last finished handler
    since,     \* history: what the catalog has shown since the last call settled
    budget     \* remaining steps of the bounded kinds

vars == <<table, replica, inflight, tf, op, pc, accepted, result, since, budget>>

-----------------------------------------------------------------------------
(* The plan.                                                               *)

\* The plan for a configuration, over a state s or for a new table; columns of
\* the same shape keep the IDs in state.
PlanOver(s, config) ==
    [schema |-> IF Shape[config.schema] = Shape[s.schema] THEN s.schema ELSE config.schema,
     opts |-> config.opts, keys |-> PlannedKeys(config.opts, s.managed, s.keys)]
PlanNew(config) ==
    [schema |-> config.schema, opts |-> config.opts, keys |-> KeysOf(config.opts[PrimaryKey])]

\* What the provider takes for the options Terraform manages before the change.
Baseline(s, plan) ==
    EffectiveManaged(s.managed, plan.opts,
        WithPrimaryKeys(IF s.server = Unknown THEN NoOptions ELSE s.server, s.keys))

\* immutableTableOptionsRequiresReplace and ModifyPlan.
RequiresReplace(s, plan) ==
    \/ ImmutableChanged(Baseline(s, plan), plan.opts)
    \/ s.keys # plan.keys
    \/ <<s.schema, plan.schema>> \notin Alterable

\* The changes of an update.
AlterFor(s, plan) ==
    [type |-> "alter", from |-> s.schema, to |-> plan.schema, keys |-> s.keys,
     set |-> Updates(Baseline(s, plan), plan.opts),
     unset |-> Removals(Baseline(s, plan), plan.opts)]

NothingToAlter(r) == r.from = r.to /\ r.set = NoOptions /\ r.unset = {}

\* What an update has to verify; server options besides these do not matter.
Matches(t, plan, removals) ==
    /\ Shape[t.schema] = Shape[plan.schema]
    /\ t.keys = plan.keys
    /\ Holds(t.opts, plan.opts)
    /\ \A k \in removals : t.opts[k] = Absent

\* setTableResourceModel.
Recorded(managed, t) ==
    [schema |-> t.schema, keys |-> t.keys, server |-> t.opts,
     managed |-> SyncManaged(managed, WithPrimaryKeys(t.opts, t.keys))]

\* What Terraform state says: a whole table, when its managed options are those
\* of the server options beside them; or, before the first lookup of a created
\* table, only what the plan said, up to spelling.
Meaning(k, value) ==
    IF value = Absent THEN Absent
    ELSE CASE k = PrimaryKey -> Parsed[value]
           [] k = TypeKey -> Folded[value]
           [] OTHER -> value

Statement(s) ==
    CASE s = NoState -> Missing
      [] s # NoState /\ s.server = Unknown ->
           [schema |-> s.schema, keys |-> s.keys,
            managed |-> [k \in Keys |-> Meaning(k, s.managed[k])]]
      [] OTHER ->
           IF s.managed = SyncManaged(s.managed, WithPrimaryKeys(s.server, s.keys))
             THEN [schema |-> s.schema, keys |-> s.keys, opts |-> s.server]
             ELSE s

\* What a table t may be said to be.
PartOf(t, managed) ==
    LET remote == [WithPrimaryKeys(t.opts, t.keys) EXCEPT
                      ![TypeKey] = IF @ = Absent THEN DefaultType ELSE @]
    IN  [schema |-> t.schema, keys |-> t.keys,
         managed |-> [k \in Keys |-> IF k \in managed THEN Meaning(k, remote[k]) ELSE Absent]]

Statements(t) ==
    {t} \cup IF t = Missing THEN {}
             ELSE {PartOf(t, {k \in Keys : config.opts[k] # Absent}) : config \in Plans}

Visible == {table, replica}

Requests ==
    [id : 0..MaxOps, type : {"create", "alter", "drop"}, from : Schemas, to : Schemas,
     keys : KeyLists, set : Options, unset : SUBSET Keys]
Handlers == {"none", "create", "read", "import", "update", "delete", "replace"}

\* Types of the catalog, of Terraform state and of the handler.
TypeOK ==
    /\ table \in Tables \cup {Missing}
    /\ replica \in Tables \cup {Missing}
    /\ inflight \subseteq Requests
    /\ tf \in States \cup {NoState}
    /\ op \in [kind : Handlers, before : States \cup {NoState},
               plan : [schema : Schemas, opts : Options, keys : KeyLists] \cup {NoState}]
    /\ pc \in {"idle", "create", "read", "alter", "delete", "verify"}
    /\ accepted \in BOOLEAN
    /\ result \in {"none", "ok", "adopted", "unverified", "failed", "crashed"}
    /\ since \subseteq Tables \cup {Missing}
    /\ budget \in [ops : 0..MaxOps, other : 0..MaxOther, crashes : 0..MaxCrashes]

\* Terraform may already track the table, with the options of one of the plans.
Init ==
    /\ table \in OtherTables \cup {Missing}
    /\ replica = table
    /\ inflight = {}
    /\ tf \in {NoState} \cup IF table = Missing THEN {}
                             ELSE {Recorded(config.opts, table) : config \in Plans}
    /\ op = [kind |-> "none", before |-> NoState, plan |-> NoState]
    /\ pc = "idle"
    /\ accepted = FALSE
    /\ result = "none"
    /\ since = Visible
    /\ budget = [ops |-> MaxOps, other |-> MaxOther, crashes |-> MaxCrashes]

-----------------------------------------------------------------------------
(* The catalog and the client, modelled from how the resource uses them.   *)

CreateFor(plan) ==
    [type |-> "create", from |-> plan.schema, to |-> plan.schema, keys |-> plan.keys,
     set |-> [plan.opts EXCEPT ![PrimaryKey] = Absent], unset |-> {}]
DropFor(s) ==
    [type |-> "drop", from |-> s.schema, to |-> s.schema, keys |-> s.keys,
     set |-> NoOptions, unset |-> {}]

\* The request the handler is about to send.
Request ==
    LET r == CASE pc = "create" -> CreateFor(op.plan)
               [] pc = "alter" -> AlterFor(op.before, op.plan)
               [] OTHER -> DropFor(op.before)
    IN  [id |-> budget.ops, type |-> r.type, from |-> r.from, to |-> r.to,
         keys |-> r.keys, set |-> r.set, unset |-> r.unset]

CanApply(r) == (r.type = "create") = (table = Missing)

\* Schema changes address columns of the schema they were planned for; on
\* another one they may lead anywhere.  The catalog chooses the new IDs.
SchemasAfter(r) ==
    IF r.from = r.to THEN {table.schema}
    ELSE IF table.schema = r.from THEN {s \in Schemas : Shape[s] = Shape[r.to]}
    ELSE Schemas

\* The table after the catalog carried out r.
TablesAfter(r) ==
    CASE r.type = "create" ->
           {[schema |-> r.to, keys |-> r.keys,
             opts |-> [k \in Keys |-> IF r.set[k] # Absent THEN r.set[k] ELSE Defaults[k]]]}
      [] r.type = "alter" ->
           {[schema |-> s, keys |-> table.keys,
             opts |-> [k \in Keys |-> IF r.set[k] # Absent THEN r.set[k]
                                      ELSE IF k \in r.unset THEN Absent ELSE table.opts[k]]] :
              s \in SchemasAfter(r)}
      [] OTHER -> {Missing}

\* Without lag every replica follows the catalog at once.
Shows == replica' = IF StaleReads THEN replica ELSE table'

\* One mutating call.  After an uncertain outcome the request may still arrive.
Outcomes == {"ok", "notfound", "rejected", "uncertain"}
Settles(a) ==
    /\ \/ a = "ok" /\ CanApply(Request) /\ table' \in TablesAfter(Request) /\ UNCHANGED inflight
       \/ a = "notfound" /\ Request.type # "create" /\ table = Missing
          /\ UNCHANGED <<table, inflight>>
       \/ a = "rejected" /\ UNCHANGED <<table, inflight>>
       \/ a = "uncertain" /\ inflight' = inflight \cup {Request} /\ UNCHANGED table
    /\ Shows
    /\ since' = Visible'

-----------------------------------------------------------------------------
(* The environment.                                                        *)

LateArrival(r) ==
    /\ r \in inflight
    /\ inflight' = inflight \ {r}
    /\ table' \in {table} \cup IF CanApply(r) THEN TablesAfter(r) ELSE {}
    /\ Shows
    /\ since' = since \cup Visible'
    /\ UNCHANGED <<tf, op, pc, accepted, result, budget>>

OutOfBand(t) ==
    /\ budget.other > 0
    /\ t # table
    /\ table' = t
    /\ Shows
    /\ since' = since \cup Visible'
    /\ budget' = [budget EXCEPT !.other = @ - 1]
    /\ UNCHANGED <<inflight, tf, op, pc, accepted, result>>

Replicate ==
    /\ replica # table
    /\ replica' = table
    /\ UNCHANGED <<table, inflight, tf, op, pc, accepted, result, since, budget>>

-----------------------------------------------------------------------------
(* The handlers.                                                           *)

Start(kind, before, plan, first) ==
    /\ pc = "idle"
    /\ budget.ops > 0
    /\ budget' = [budget EXCEPT !.ops = @ - 1]
    /\ op' = [kind |-> kind, before |-> before, plan |-> plan]
    /\ pc' = first
    /\ accepted' = FALSE
    /\ result' = "none"
    /\ since' = Visible
    /\ UNCHANGED <<table, replica, inflight, tf>>

Finish(newState, diagnostic) ==
    /\ tf' = newState
    /\ result' = diagnostic
    /\ pc' = "idle"

StartCreate(config) == tf = NoState /\ Start("create", NoState, PlanNew(config), "create")
StartImport == tf = NoState /\ Start("import", NoState, NoState, "read")
StartRead == tf # NoState /\ Start("read", tf, NoState, "read")
StartDelete == tf # NoState /\ Start("delete", tf, NoState, "delete")

\* A plan that can be carried out in place; without changes it is verified only.
StartUpdate(config) ==
    /\ tf # NoState
    /\ LET plan == PlanOver(tf, config)
       IN  /\ ~RequiresReplace(tf, plan)
           /\ Start("update", tf, plan,
                    IF NothingToAlter(AlterFor(tf, plan)) THEN "verify" ELSE "alter")

\* A plan that cannot, if the user allows it: the table is deleted first, and
\* created by a handler of its own.
StartReplace(config) ==
    /\ tf # NoState
    /\ RequiresReplace(tf, PlanOver(tf, config))
    /\ Start("replace", tf, PlanOver(tf, config), "delete")

\* Mutant: an uncertain outcome counts as success.
ReconcileTrusting(a) ==
    /\ accepted' = TRUE
    /\ pc' = "verify"
    /\ UNCHANGED <<tf, result>>

\* lookupAfterMutation is told whether the mutation was acknowledged.
Reconcile(a) ==
    /\ accepted' = (a = "ok")
    /\ pc' = "verify"
    /\ UNCHANGED <<tf, result>>

\* Create and Update: a definite error keeps the state; any other outcome is
\* reconciled.
MutationCall ==
    /\ pc \in {"create", "alter"}
    /\ \E a \in Outcomes :
        /\ Settles(a)
        /\ IF a \in {"notfound", "rejected"}
             THEN Finish(tf, "failed") /\ UNCHANGED accepted
             ELSE Reconcile(a)
    /\ UNCHANGED <<op, budget>>

DeleteCall ==
    /\ pc = "delete"
    /\ \E a \in Outcomes :
        /\ Settles(a)
        /\ IF a \in {"ok", "notfound"} THEN Finish(NoState, "ok") ELSE Finish(tf, "failed")
    /\ UNCHANGED <<op, accepted, budget>>

\* Read, also the second half of an import: a missing table leaves the state.
ReadCall ==
    /\ pc = "read"
    /\ \/ \E t \in Visible :
            IF t = Missing THEN Finish(NoState, "ok")
            ELSE Finish(Recorded(IF op.before = NoState THEN NoOptions ELSE op.before.managed, t), "ok")
       \/ Finish(tf, "failed")
    /\ UNCHANGED <<table, replica, inflight, op, accepted, since, budget>>

\* Mutant: the number of options does not matter.
ReadyInexact(t) ==
    /\ t # Missing
    /\ IF op.kind = "create"
         THEN t.schema = op.plan.schema /\ Matches(t, op.plan, {})
         ELSE Matches(t, op.plan, AlterFor(op.before, op.plan).unset)

\* What the lookups wait for: a create compares field IDs, one of uncertain
\* outcome also counts the options.
Ready(t) ==
    /\ t # Missing
    /\ IF op.kind = "create"
         THEN /\ t.schema = op.plan.schema
              /\ Matches(t, op.plan, {})
              /\ ~accepted => SameCount(t.opts, op.plan.opts)
         ELSE Matches(t, op.plan, AlterFor(op.before, op.plan).unset)

LookupReady ==
    /\ pc = "verify"
    /\ \E t \in Visible :
        /\ Ready(t)
        /\ Finish(Recorded(op.plan.opts, t),
                  IF accepted \/ (op.kind = "update" /\ NothingToAlter(AlterFor(op.before, op.plan)))
                    THEN "ok" ELSE "adopted")
    /\ UNCHANGED <<table, replica, inflight, op, accepted, since, budget>>

\* The state of a created table that has not been verified.
PlannedState(plan) ==
    [schema |-> plan.schema, managed |-> plan.opts, keys |-> plan.keys, server |-> Unknown]

\* Mutants: an unverified update stores its plan; so does a create that was
\* not accepted; only accepted mutations stop waiting.
DeadlineStoresPlan ==
    /\ pc = "verify"
    /\ IF accepted THEN Finish(PlannedState(op.plan), "unverified") ELSE Finish(tf, "failed")
    /\ UNCHANGED <<table, replica, inflight, op, accepted, since, budget>>
DeadlineStoresCreate ==
    /\ pc = "verify"
    /\ IF op.kind = "create" THEN Finish(PlannedState(op.plan), "unverified")
       ELSE Finish(tf, IF accepted THEN "unverified" ELSE "failed")
    /\ UNCHANGED <<table, replica, inflight, op, accepted, since, budget>>
DeadlineIfAccepted ==
    /\ pc = "verify" /\ accepted
    /\ IF op.kind = "create" THEN Finish(PlannedState(op.plan), "unverified")
       ELSE Finish(tf, "unverified")
    /\ UNCHANGED <<table, replica, inflight, op, accepted, since, budget>>

\* The recovery timeout expires, after lookups that failed or did not satisfy the
\* handler: an accepted create keeps the planned table in state, an update the
\* previous one.
Deadline ==
    /\ pc = "verify"
    /\ IF op.kind = "create" /\ accepted
         THEN Finish(PlannedState(op.plan), "unverified")
         ELSE Finish(tf, IF accepted THEN "unverified" ELSE "failed")
    /\ UNCHANGED <<table, replica, inflight, op, accepted, since, budget>>

\* The provider process dies before the state is saved; the request it was
\* about to send may have left.
Crash ==
    /\ pc # "idle"
    /\ budget.crashes > 0
    /\ budget' = [budget EXCEPT !.crashes = @ - 1]
    /\ inflight' \in {inflight} \cup
         IF pc \in {"create", "alter", "delete"} THEN {inflight \cup {Request}} ELSE {}
    /\ Finish(tf, "crashed")
    /\ UNCHANGED <<table, replica, op, accepted, since>>

-----------------------------------------------------------------------------
Begin ==
    \/ StartImport \/ StartRead \/ StartDelete
    \/ \E config \in Plans : StartCreate(config) \/ StartUpdate(config) \/ StartReplace(config)

Handler == MutationCall \/ DeleteCall \/ ReadCall \/ LookupReady \/ Deadline

Environment ==
    \/ \E r \in inflight : LateArrival(r)
    \/ \E t \in OtherTables \cup {Missing} : OutOfBand(t)
    \/ Replicate \/ Crash

Next == Begin \/ Handler \/ Environment

Spec == Init /\ [][Next]_vars

\* Calls time out and the recovery context expires.
FairSpec ==
    /\ Spec
    /\ WF_vars(MutationCall) /\ WF_vars(DeleteCall) /\ WF_vars(ReadCall) /\ WF_vars(Deadline)

-----------------------------------------------------------------------------
(* What the handlers promise.                                              *)

\* The catalog's value of an option key is what an unset key means.
Unset(t, k) == ~Changes(k, WithPrimaryKeys(t.opts, t.keys)[k], Absent)

\* Dropping a "type" that spells the default is no change, so nobody looks
\* whether the catalog has the default.
Spelt(k, value) == k = TypeKey /\ ~Changes(k, value, Absent)

\* A create or update that succeeds leaves the planned options in state as the
\* user wrote them, and the catalog has shown, in one single answer, the planned
\* schema and keys, every planned option and none of the removed ones.
SuccessIsThePlan ==
    pc = "idle" /\ op.kind \in {"create", "update"} /\ result \in {"ok", "adopted"} =>
        /\ tf.managed = op.plan.opts
        /\ tf.keys = op.plan.keys
        /\ \E t \in since \ {Missing} :
            /\ Shape[t.schema] = Shape[op.plan.schema]
            /\ t.keys = op.plan.keys
            /\ \A k \in Keys :
                 /\ op.plan.opts[k] # Absent =>
                      ~Changes(k, WithPrimaryKeys(t.opts, t.keys)[k], op.plan.opts[k])
                 /\ op.kind = "update" /\ op.before.managed[k] # Absent /\ op.plan.opts[k] = Absent =>
                      Unset(t, k) \/ Spelt(k, op.before.managed[k])

\* A create of uncertain outcome adopts a table only if it has the planned
\* schema, IDs included, and no option besides the planned ones - save that one
\* other option goes unnoticed when "type" is planned and the catalog leaves the
\* default out.
AdoptionWasExact ==
    pc = "idle" /\ op.kind = "create" /\ result = "adopted" =>
        \E t \in since \ {Missing} :
            /\ t.schema = op.plan.schema
            /\ t.keys = op.plan.keys
            /\ LET extra == SetKeys(t.opts) \ SetKeys(op.plan.opts)
               IN  \/ extra = {}
                   \/ /\ Cardinality(extra) = 1
                      /\ op.plan.opts[TypeKey] # Absent /\ t.opts[TypeKey] = Absent

\* An update in place was planned and is sent by two different computations;
\* they agree: the alter that leaves touches no immutable option, no table key
\* and no schema that only a replacement can reach.
InPlaceIsAlterable ==
    pc = "alter" =>
        /\ \A k \in Immutable : Request.set[k] = Absent /\ k \notin Request.unset
        /\ op.plan.keys = op.before.keys
        /\ <<Request.from, Request.to>> \in Alterable

\* "Options not declared here are preserved": an alter sets only planned options
\* and removes only options Terraform managed, also when the catalog has others.
OthersArePreserved ==
    pc = "alter" =>
        /\ \A k \in Keys : Request.set[k] \in {Absent, op.plan.opts[k]}
        /\ \A k \in Request.unset : op.before.managed[k] # Absent

\* A managed option leaves the state of an existing table only with a handler
\* that reports success, and only after the catalog has shown the table without
\* it: what an unverified alter was to remove stays managed.
RemovalsStayManaged ==
    [][tf # NoState /\ tf' # NoState =>
        \A k \in Keys : tf.managed[k] # Absent /\ tf'.managed[k] = Absent =>
            /\ result' \in {"ok", "adopted"}
            /\ (\E t \in since' \ {Missing} : Unset(t, k)) \/ Spelt(k, tf.managed[k])]_vars

\* Terraform state only takes what the catalog has shown since the last call
\* settled: one table, managed options and server options in agreement, what the
\* plan said of a table just created, or nothing if it was missing.
Truthful == INSTANCE TruthfulState WITH
    Values <- Tables \cup {Missing} \cup
              [schema : Schemas, keys : KeyLists, managed : [Keys -> Values \cup KeyLists \cup {Absent}]],
    shown <- UNION {Statements(t) : t \in Visible},
    recorded <- Statement(tf),
    window <- UNION {Statements(t) : t \in since}
StateIsTruthful == Truthful!Spec

\* Every handler ends.
HandlerEnds == (pc # "idle") ~> (pc = "idle")

\* A handler sends one mutation: what may still arrive comes from different
\* handlers, and a handler that has been told the outcome, or had nothing to
\* send, leaves nothing behind that could undo what later handlers do.
OneMutationEach ==
    /\ \A r, q \in inflight : r.id = q.id => r = q
    /\ pc = "idle" /\ result \in {"ok", "unverified"} => \A r \in inflight : r.id # budget.ops

=============================================================================
