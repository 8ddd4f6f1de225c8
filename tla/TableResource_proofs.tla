------------------------ MODULE TableResource_proofs ------------------------
(***************************************************************************)
(* Proofs about TableResource, for all option keys, spellings and key      *)
(* lists, all schemas with any relation of alterability, all plans and     *)
(* every bound.                                                            *)
(***************************************************************************)
EXTENDS TableResource, FiniteSetTheorems, TLAPS

PlanTypes == [schema : Schemas, opts : Options, keys : KeyLists]

\* The handler's inputs fit the place it is at, and come from a configuration;
\* an update works on a plan that needs no replacement.
OpInv ==
    /\ pc = "create" => op.kind = "create"
    /\ pc = "alter" => op.kind = "update"
    /\ pc = "read" => op.kind \in {"read", "import"}
    /\ pc = "delete" => op.kind \in {"delete", "replace"}
    /\ pc = "verify" => op.kind \in {"create", "update"}
    /\ op.kind \in {"create", "update"} =>
         /\ op.plan \in PlanTypes
         /\ \E config \in Plans : op.plan.opts = config.opts
         /\ op.plan.opts[PrimaryKey] # Absent => op.plan.keys = Parsed[op.plan.opts[PrimaryKey]]
    /\ op.kind \in {"read", "update", "delete", "replace"} => op.before \in States
    /\ op.kind \in {"create", "import"} => op.before = NoState
    /\ op.kind = "update" =>
         /\ ~RequiresReplace(op.before, op.plan)
         /\ op.before.managed[PrimaryKey] # Absent /\ op.plan.opts[PrimaryKey] = Absent =>
              op.plan.keys = NoKeys
    /\ pc # "idle" => tf = op.before

-----------------------------------------------------------------------------
(* The option operators.                                                   *)

LEMMA WithPrimaryKeysType ==
    ASSUME NEW opts \in Options, NEW keys \in KeyLists
    PROVE  /\ WithPrimaryKeys(opts, keys) \in Options
           /\ WithPrimaryKeys(opts, keys)[PrimaryKey] = Joined[keys]
           /\ \A k \in Keys \ {PrimaryKey} : WithPrimaryKeys(opts, keys)[k] = opts[k]
           /\ Joined[keys] \in Values /\ Joined[keys] # Absent /\ Parsed[Joined[keys]] = keys
BY KeysAssumption, ValuesAssumption, KeyListsAssumption DEF WithPrimaryKeys, Options

LEMMA SyncManagedType ==
    ASSUME NEW managed \in Options, NEW remote \in Options
    PROVE  SyncManaged(managed, remote) \in Options
BY DEF SyncManaged, Options

\* Reading the same table twice records the same.
LEMMA SyncManagedIdempotent ==
    ASSUME NEW managed \in Options, NEW remote \in Options
    PROVE  SyncManaged(SyncManaged(managed, remote), remote) = SyncManaged(managed, remote)
<1> DEFINE once == SyncManaged(managed, remote)
<1>1. ASSUME NEW k \in Keys PROVE SyncManaged(once, remote)[k] = once[k]
  <2>1. CASE managed[k] = Absent
    BY <2>1 DEF SyncManaged
  <2>2. CASE managed[k] # Absent /\ once[k] = managed[k]
    BY <2>2 DEF SyncManaged
  <2>3. CASE managed[k] # Absent /\ once[k] # managed[k]
    <3>1. once[k] = remote[k]
      BY <2>3 DEF SyncManaged
    <3> QED BY <3>1 DEF SyncManaged
  <2> QED BY <2>1, <2>2, <2>3
<1> QED BY <1>1, SyncManagedType DEF SyncManaged

LEMMA RecordedFacts ==
    ASSUME NEW managed \in Options, NEW t \in Tables
    PROVE  /\ Recorded(managed, t) \in States
           /\ Recorded(managed, t).managed = SyncManaged(managed, WithPrimaryKeys(t.opts, t.keys))
           /\ Recorded(managed, t).keys = t.keys
           /\ Statement(Recorded(managed, t)) = t
<1> DEFINE s == Recorded(managed, t)
           remote == WithPrimaryKeys(t.opts, t.keys)
<1>1. t.opts \in Options /\ t.keys \in KeyLists /\ t.schema \in Schemas
  BY DEF Tables
<1>2. remote \in Options
  BY <1>1, WithPrimaryKeysType
<1>3. SyncManaged(managed, remote) \in Options
  BY <1>2, SyncManagedType
<1>4. s \in States /\ s.managed = SyncManaged(managed, remote) /\ s.keys = t.keys
      /\ s.server = t.opts /\ s.schema = t.schema
  BY <1>1, <1>3 DEF Recorded, States
<1>5. s.managed = SyncManaged(s.managed, WithPrimaryKeys(s.server, s.keys))
  BY <1>2, <1>4, SyncManagedIdempotent
<1>6. s # NoState /\ s.server # Unknown
  BY <1>1, <1>4, SentinelAssumption
<1>7. Statement(s) = [schema |-> s.schema, keys |-> s.keys, opts |-> s.server]
  BY <1>5, <1>6 DEF Statement
<1> QED BY <1>4, <1>7 DEF Tables

\* The baseline of an update and what is sent.
LEMMA BaselineType ==
    ASSUME NEW s \in States, NEW plan \in PlanTypes
    PROVE  /\ Baseline(s, plan) \in Options
           /\ \A k \in Keys : s.managed[k] # Absent \/ plan.opts[k] = Absent =>
                Baseline(s, plan)[k] = s.managed[k]
<1> DEFINE server == IF s.server = Unknown THEN NoOptions ELSE s.server
<1>1. server \in Options /\ s.keys \in KeyLists /\ s.managed \in Options /\ plan.opts \in Options
  BY DEF States, PlanTypes, NoOptions, Options
<1>2. WithPrimaryKeys(server, s.keys) \in Options
  BY <1>1, WithPrimaryKeysType
<1> QED BY <1>1, <1>2 DEF Baseline, EffectiveManaged, Options

LEMMA AlterForType ==
    ASSUME NEW s \in States, NEW plan \in PlanTypes
    PROVE  /\ AlterFor(s, plan).set \in Options
           /\ AlterFor(s, plan).unset \subseteq Keys
           /\ AlterFor(s, plan).from = s.schema /\ AlterFor(s, plan).to = plan.schema
           /\ AlterFor(s, plan).keys = s.keys /\ AlterFor(s, plan).type = "alter"
BY BaselineType DEF AlterFor, Updates, Removals, PlanTypes, Options

-----------------------------------------------------------------------------
(* Types.                                                                  *)

LEMMA PlanOverType ==
    ASSUME NEW s \in States, NEW config \in Plans
    PROVE  /\ PlanOver(s, config) \in PlanTypes
           /\ PlanOver(s, config).opts = config.opts
           /\ config.opts[PrimaryKey] # Absent => PlanOver(s, config).keys = Parsed[config.opts[PrimaryKey]]
           /\ s.managed[PrimaryKey] # Absent /\ config.opts[PrimaryKey] = Absent =>
                PlanOver(s, config).keys = NoKeys
<1>1. config.schema \in Schemas /\ config.opts \in Options /\ PrimaryKey \in Keys
  BY TablesAssumption, KeysAssumption DEF Configs
<1>2. PlannedKeys(config.opts, s.managed, s.keys) \in KeyLists
  BY <1>1, KeyListsAssumption DEF PlannedKeys, KeysOf, Options, States
<1> QED BY <1>1, <1>2 DEF PlanOver, PlanTypes, PlannedKeys, KeysOf, States

LEMMA PlanNewType ==
    ASSUME NEW config \in Plans
    PROVE  /\ PlanNew(config) \in PlanTypes
           /\ PlanNew(config).opts = config.opts
           /\ config.opts[PrimaryKey] # Absent => PlanNew(config).keys = Parsed[config.opts[PrimaryKey]]
<1>1. config.schema \in Schemas /\ config.opts \in Options /\ PrimaryKey \in Keys
  BY TablesAssumption, KeysAssumption DEF Configs
<1>2. KeysOf(config.opts[PrimaryKey]) \in KeyLists
  BY <1>1, KeyListsAssumption DEF KeysOf, Options
<1> QED BY <1>1, <1>2 DEF PlanNew, PlanTypes, KeysOf

\* The request of each place.
LEMMA RequestType ==
    ASSUME TypeOK, OpInv, pc \in {"create", "alter", "delete"}
    PROVE  Request \in Requests
<1>1. budget.ops \in 0..MaxOps
  BY DEF TypeOK
<1>2. CASE pc = "create"
  <2>1. op.plan \in PlanTypes
    BY <1>2 DEF OpInv
  <2>2. [op.plan.opts EXCEPT ![PrimaryKey] = Absent] \in Options
    BY <2>1 DEF PlanTypes, Options
  <2> QED BY <1>1, <1>2, <2>1, <2>2 DEF Request, CreateFor, Requests, PlanTypes
<1>3. CASE pc = "alter"
  <2>1. op.plan \in PlanTypes /\ op.before \in States
    BY <1>3 DEF OpInv
  <2> QED BY <1>1, <1>3, <2>1, AlterForType DEF Request, Requests, PlanTypes, States
<1>4. CASE pc = "delete"
  <2>1. op.before \in States
    BY <1>4 DEF OpInv
  <2>2. NoOptions \in Options
    BY DEF NoOptions, Options
  <2> QED BY <1>1, <1>4, <2>1, <2>2 DEF Request, DropFor, Requests, States
<1> QED BY <1>2, <1>3, <1>4

LEMMA TablesAfterType ==
    ASSUME TypeOK, NEW r \in Requests, CanApply(r)
    PROVE  TablesAfter(r) \subseteq Tables \cup {Missing}
<1>1. CASE r.type = "create"
  <2>1. [k \in Keys |-> IF r.set[k] # Absent THEN r.set[k] ELSE Defaults[k]] \in Options
    BY TablesAssumption DEF Requests, Options
  <2> QED BY <1>1, <2>1 DEF TablesAfter, Tables, Requests
<1>2. CASE r.type = "alter"
  <2>1. table \in Tables
    BY <1>2 DEF CanApply, TypeOK
  <2>2. [k \in Keys |-> IF r.set[k] # Absent THEN r.set[k]
                        ELSE IF k \in r.unset THEN Absent ELSE table.opts[k]] \in Options
    BY <2>1 DEF Requests, Options, Tables
  <2>3. SchemasAfter(r) \subseteq Schemas
    BY <2>1 DEF SchemasAfter, Tables
  <2> QED BY <1>2, <2>1, <2>2, <2>3 DEF TablesAfter, Tables
<1>3. CASE r.type = "drop"
  BY <1>3 DEF TablesAfter
<1> QED BY <1>1, <1>2, <1>3 DEF Requests

\* A call leaves the catalog well typed and opens a window on what it left.
LEMMA SettlesFacts ==
    ASSUME TypeOK, OpInv, pc \in {"create", "alter", "delete"}, NEW a \in Outcomes, Settles(a)
    PROVE  /\ table' \in Tables \cup {Missing} /\ replica' \in Tables \cup {Missing}
           /\ inflight' \subseteq Requests
           /\ since' = Visible' /\ since' \subseteq Tables \cup {Missing}
           /\ a = "ok" => table' \in TablesAfter(Request) \cap since'
           /\ a = "notfound" => Missing \in since'
<1> DEFINE r == Request
<1>1. r \in Requests
  BY RequestType
<1>2. since' = {table', replica'} /\ replica' \in {replica, table'}
  BY DEF Settles, Shows, Visible
<1>3. a # "ok" => table' = table
  BY DEF Settles
<1>4. a = "ok" => CanApply(r) /\ table' \in TablesAfter(r)
  BY DEF Settles, Outcomes
<1> HIDE DEF r
<1>5. table' \in Tables \cup {Missing}
  BY <1>1, <1>3, <1>4, TablesAfterType DEF TypeOK
<1>6. inflight' \subseteq inflight \cup {r}
  BY DEF Settles, r
<1>7. a = "notfound" => table' = Missing
  BY DEF Settles
<1>8. table' \in since' /\ since' = Visible'
  BY <1>2 DEF Settles
<1>9. a = "ok" => table' \in TablesAfter(Request) \cap since'
  BY <1>4, <1>8 DEF r
<1> QED BY <1>1, <1>2, <1>5, <1>6, <1>7, <1>8, <1>9 DEF TypeOK

LEMMA StartFacts ==
    ASSUME TypeOK, NEW kind \in Handlers, NEW before \in States \cup {NoState},
           NEW plan \in PlanTypes \cup {NoState},
           NEW first \in {"create", "read", "alter", "delete", "verify"},
           Start(kind, before, plan, first)
    PROVE  TypeOK'
<1>1. budget' \in [ops : 0..MaxOps, other : 0..MaxOther, crashes : 0..MaxCrashes]
  BY BoundsAssumption DEF Start, TypeOK
<1>2. op' \in [kind : Handlers, before : States \cup {NoState},
               plan : [schema : Schemas, opts : Options, keys : KeyLists] \cup {NoState}]
  BY DEF Start, PlanTypes
<1>3. since' \subseteq Tables \cup {Missing}
  BY DEF Start, TypeOK, Visible
<1> QED BY <1>1, <1>2, <1>3 DEF Start, TypeOK

\* What each way to begin a handler passes to it.
LEMMA BeginSteps ==
    ASSUME TypeOK, Begin
    PROVE  \/ Start("import", NoState, NoState, "read") /\ tf = NoState
           \/ Start("read", tf, NoState, "read") /\ tf \in States
           \/ Start("delete", tf, NoState, "delete") /\ tf \in States
           \/ \E config \in Plans :
                \/ Start("create", NoState, PlanNew(config), "create") /\ tf = NoState
                \/ Start("replace", tf, PlanOver(tf, config), "delete") /\ tf \in States
                \/ /\ tf \in States /\ ~RequiresReplace(tf, PlanOver(tf, config))
                   /\ \E first \in {"alter", "verify"} :
                        Start("update", tf, PlanOver(tf, config), first)
<1>1. tf # NoState => tf \in States
  BY DEF TypeOK
<1>2. ASSUME NEW config \in Plans, StartUpdate(config)
      PROVE  /\ tf \in States /\ ~RequiresReplace(tf, PlanOver(tf, config))
             /\ \E first \in {"alter", "verify"} :
                  Start("update", tf, PlanOver(tf, config), first)
  BY <1>1, <1>2 DEF StartUpdate
<1> QED BY <1>1, <1>2 DEF Begin, StartImport, StartRead, StartDelete, StartCreate, StartReplace

LEMMA BeginStep == TypeOK /\ Begin => TypeOK' /\ OpInv'
<1> SUFFICES ASSUME TypeOK, Begin PROVE TypeOK' /\ OpInv'
  OBVIOUS
<1>1. CASE Start("import", NoState, NoState, "read") /\ tf = NoState
  <2>1. TypeOK'
    BY <1>1, StartFacts DEF Handlers
  <2> QED BY <1>1, <2>1 DEF Start, OpInv
<1>2. CASE Start("read", tf, NoState, "read") /\ tf \in States
  <2>1. TypeOK'
    BY <1>2, StartFacts DEF Handlers
  <2>2. op' = [kind |-> "read", before |-> tf, plan |-> NoState] /\ pc' = "read" /\ tf' = tf
    BY <1>2 DEF Start
  <2> QED BY <1>2, <2>1, <2>2 DEF OpInv
<1>3. CASE Start("delete", tf, NoState, "delete") /\ tf \in States
  <2>1. TypeOK'
    BY <1>3, StartFacts DEF Handlers
  <2>2. op' = [kind |-> "delete", before |-> tf, plan |-> NoState] /\ pc' = "delete" /\ tf' = tf
    BY <1>3 DEF Start
  <2> QED BY <1>3, <2>1, <2>2 DEF OpInv
<1>4. ASSUME NEW config \in Plans, tf = NoState,
             Start("create", NoState, PlanNew(config), "create")
      PROVE  TypeOK' /\ OpInv'
  <2>1. TypeOK'
    BY <1>4, StartFacts, PlanNewType DEF Handlers
  <2>2. op' = [kind |-> "create", before |-> NoState, plan |-> PlanNew(config)]
        /\ pc' = "create" /\ tf' = tf
    BY <1>4 DEF Start
  <2> QED BY <1>4, <2>1, <2>2, PlanNewType DEF OpInv
<1>5. ASSUME NEW config \in Plans, tf \in States,
             Start("replace", tf, PlanOver(tf, config), "delete")
      PROVE  TypeOK' /\ OpInv'
  <2>1. TypeOK'
    BY <1>5, StartFacts, PlanOverType DEF Handlers
  <2>2. op' = [kind |-> "replace", before |-> tf, plan |-> PlanOver(tf, config)]
        /\ pc' = "delete" /\ tf' = tf
    BY <1>5 DEF Start
  <2> QED BY <1>5, <2>1, <2>2 DEF OpInv
<1>6. ASSUME NEW config \in Plans, tf \in States, ~RequiresReplace(tf, PlanOver(tf, config)),
             NEW first \in {"alter", "verify"},
             Start("update", tf, PlanOver(tf, config), first)
      PROVE  TypeOK' /\ OpInv'
  <2>1. TypeOK'
    BY <1>6, StartFacts, PlanOverType DEF Handlers
  <2>2. op' = [kind |-> "update", before |-> tf, plan |-> PlanOver(tf, config)]
        /\ pc' = first /\ tf' = tf
    BY <1>6 DEF Start
  <2>3. ~RequiresReplace(tf, PlanOver(tf, config))'
    BY <1>6, <2>2 DEF RequiresReplace
  <2> QED BY <1>6, <2>1, <2>2, PlanOverType DEF OpInv
<1> QED BY <1>1, <1>2, <1>3, <1>4, <1>5, <1>6, BeginSteps

\* What the handlers may write to Terraform state.
LEMMA StateSteps ==
    ASSUME TypeOK, OpInv, Handler
    PROVE  /\ UNCHANGED <<op, budget>>
           /\ tf' \in States \cup {NoState}
           /\ result' \in {"none", "ok", "adopted", "unverified", "failed"} \/ result' = result
           /\ pc' = "idle" \/ tf' = tf
           /\ pc' \in {"idle", "verify"}
           /\ pc' = "verify" => pc \in {"create", "alter", "verify"}
           /\ accepted' \in BOOLEAN
<1>1. CASE MutationCall
  BY <1>1 DEF MutationCall, Finish, Reconcile, TypeOK
<1>2. CASE DeleteCall
  BY <1>2 DEF DeleteCall, Finish, TypeOK
<1>3. CASE ReadCall
  <2>1. ASSUME NEW t \in Visible, t # Missing, NEW managed \in Options
        PROVE  Recorded(managed, t) \in States
    <3>1. t \in Tables
      BY <2>1 DEF TypeOK, Visible
    <3> QED BY <3>1, RecordedFacts
  <2>2. NoOptions \in Options
    BY DEF NoOptions, Options
  <2>3. op.before # NoState => op.before.managed \in Options
    BY <1>3 DEF OpInv, ReadCall, States
  <2>4. tf' \in States \cup {NoState}
    BY <1>3, <2>1, <2>2, <2>3 DEF ReadCall, Finish, TypeOK
  <2> QED BY <1>3, <2>4 DEF ReadCall, Finish, TypeOK
<1>4. CASE LookupReady
  <2>1. PICK t \in Visible : Ready(t) /\ tf' = Recorded(op.plan.opts, t)
    BY <1>4 DEF LookupReady, Finish
  <2>2. t \in Tables
    BY <2>1 DEF TypeOK, Visible, Ready
  <2>3. op.plan.opts \in Options
    BY <1>4 DEF OpInv, LookupReady, PlanTypes
  <2>4. tf' \in States
    BY <2>1, <2>2, <2>3, RecordedFacts
  <2> QED BY <1>4, <2>4 DEF LookupReady, Finish, TypeOK
<1>5. CASE Deadline
  <2>1. op.plan \in PlanTypes
    BY <1>5 DEF Deadline, OpInv
  <2>2. PlannedState(op.plan) \in States
    BY <2>1 DEF PlannedState, PlanTypes, States
  <2> QED BY <1>5, <2>2 DEF Deadline, Finish, TypeOK
<1> QED BY <1>1, <1>2, <1>3, <1>4, <1>5 DEF Handler

LEMMA HandlerTypes == TypeOK /\ OpInv /\ Handler => TypeOK' /\ OpInv'
<1> SUFFICES ASSUME TypeOK, OpInv, Handler PROVE TypeOK' /\ OpInv'
  OBVIOUS
<1>1. OpInv'
  <2>1. pc' = "verify" => op.kind \in {"create", "update"}
    BY StateSteps DEF OpInv
  <2>2. pc # "idle"
    BY DEF Handler, MutationCall, DeleteCall, ReadCall, LookupReady, Deadline
  <2>3. pc' # "idle" => tf' = op'.before
    BY <2>2, StateSteps DEF OpInv
  <2>4. op' = op /\ pc' \in {"idle", "verify"}
    BY StateSteps
  <2>5. RequiresReplace(op.before, op.plan)' = RequiresReplace(op.before, op.plan)
    BY <2>4 DEF RequiresReplace
  <2> QED BY <2>1, <2>3, <2>4, <2>5 DEF OpInv
<1>2. /\ table' \in Tables \cup {Missing} /\ replica' \in Tables \cup {Missing}
      /\ inflight' \subseteq Requests /\ since' \subseteq Tables \cup {Missing}
  <2>1. CASE MutationCall \/ DeleteCall
    BY <2>1, SettlesFacts DEF MutationCall, DeleteCall
  <2>2. CASE ReadCall \/ LookupReady \/ Deadline
    BY <2>2 DEF ReadCall, LookupReady, Deadline, TypeOK
  <2> QED BY <2>1, <2>2 DEF Handler
<1>3. TypeOK'
  BY <1>2, StateSteps DEF TypeOK
<1> QED BY <1>1, <1>3

LEMMA EnvironmentTypes == TypeOK /\ OpInv /\ Environment => TypeOK' /\ OpInv'
<1> SUFFICES ASSUME TypeOK, OpInv, Environment PROVE TypeOK' /\ OpInv'
  OBVIOUS
<1>0. UNCHANGED <<tf, op>> /\ (pc' = pc \/ pc' = "idle")
  BY DEF Environment, LateArrival, OutOfBand, Replicate, Crash, Finish
<1>1. OpInv'
  <2>1. RequiresReplace(op.before, op.plan)' = RequiresReplace(op.before, op.plan)
    BY <1>0 DEF RequiresReplace
  <2> QED BY <1>0, <2>1 DEF OpInv
<1>2. ASSUME NEW r \in inflight, LateArrival(r) PROVE TypeOK'
  <2>1. table' \in Tables \cup {Missing}
    BY <1>2, TablesAfterType DEF LateArrival, TypeOK
  <2> QED BY <1>2, <2>1 DEF LateArrival, Shows, Visible, TypeOK
<1>3. ASSUME NEW t \in OtherTables \cup {Missing}, OutOfBand(t) PROVE TypeOK'
  <2>1. budget' \in [ops : 0..MaxOps, other : 0..MaxOther, crashes : 0..MaxCrashes]
    BY <1>3, BoundsAssumption DEF OutOfBand, TypeOK
  <2>2. table' \in Tables \cup {Missing}
    BY <1>3, TablesAssumption DEF OutOfBand
  <2> QED BY <1>3, <2>1, <2>2 DEF OutOfBand, Shows, Visible, TypeOK
<1>4. CASE Replicate
  <2>1. replica' \in Tables \cup {Missing}
    BY <1>4 DEF Replicate, TypeOK
  <2>2. UNCHANGED <<table, inflight, tf, op, pc, accepted, result, since, budget>>
    BY <1>4 DEF Replicate
  <2> QED BY <1>1, <2>1, <2>2 DEF TypeOK
<1>5. CASE Crash
  <2>1. budget' \in [ops : 0..MaxOps, other : 0..MaxOther, crashes : 0..MaxCrashes]
    BY <1>5, BoundsAssumption DEF Crash, TypeOK
  <2>2. inflight' \subseteq Requests
    <3>1. inflight' # inflight => pc \in {"create", "alter", "delete"} /\ inflight' = inflight \cup {Request}
      BY <1>5 DEF Crash
    <3>2. inflight \subseteq Requests
      BY DEF TypeOK
    <3> QED BY <3>1, <3>2, RequestType
  <2> QED BY <1>1, <1>5, <2>1, <2>2 DEF Crash, Finish, TypeOK
<1> QED BY <1>1, <1>2, <1>3, <1>4, <1>5 DEF Environment

LEMMA InitTypes == Init => TypeOK /\ OpInv
<1> SUFFICES ASSUME Init PROVE TypeOK /\ OpInv
  OBVIOUS
<1>1. table \in Tables \cup {Missing}
  BY TablesAssumption DEF Init
<1>2. tf \in States \cup {NoState}
  BY <1>1, TablesAssumption, RecordedFacts DEF Init, Configs
<1>3. budget \in [ops : 0..MaxOps, other : 0..MaxOther, crashes : 0..MaxCrashes]
  BY BoundsAssumption DEF Init
<1> QED BY <1>1, <1>2, <1>3 DEF Init, TypeOK, OpInv, Handlers, Visible

LEMMA TypeStep == TypeOK /\ OpInv /\ [Next]_vars => TypeOK' /\ OpInv'
<1> SUFFICES ASSUME TypeOK, OpInv, [Next]_vars PROVE TypeOK' /\ OpInv'
  OBVIOUS
<1>1. CASE UNCHANGED vars
  <2>1. RequiresReplace(op.before, op.plan)' = RequiresReplace(op.before, op.plan)
    BY <1>1 DEF vars, RequiresReplace
  <2> QED BY <1>1, <2>1 DEF vars, TypeOK, OpInv, Visible
<1> QED BY <1>1, BeginStep, HandlerTypes, EnvironmentTypes DEF Next

\* Every reachable state is well typed, for all keys, plans, schemas and bounds.
THEOREM TypeCorrect == Spec => []TypeOK
<1> QED BY InitTypes, TypeStep, PTL DEF Spec

-----------------------------------------------------------------------------
(* What an alter sends.                                                    *)

\* The plan modifier's verdict covers what the update sends: no immutable option,
\* no other keys, and a schema that can be reached.
THEOREM InPlaceChangesAreAlterable == Spec => []InPlaceIsAlterable
<1>1. TypeOK /\ OpInv => InPlaceIsAlterable
  <2> SUFFICES ASSUME TypeOK, OpInv, pc = "alter"
               PROVE  /\ \A k \in Immutable : Request.set[k] = Absent /\ k \notin Request.unset
                      /\ op.plan.keys = op.before.keys
                      /\ <<Request.from, Request.to>> \in Alterable
    BY DEF InPlaceIsAlterable
  <2>1. op.kind = "update" /\ ~RequiresReplace(op.before, op.plan)
    BY DEF OpInv
  <2>2. /\ Request.set = Updates(Baseline(op.before, op.plan), op.plan.opts)
        /\ Request.unset = Removals(Baseline(op.before, op.plan), op.plan.opts)
        /\ Request.from = op.before.schema /\ Request.to = op.plan.schema
    BY DEF Request, AlterFor
  <2>3. ASSUME NEW k \in Immutable
        PROVE  ~Differs(k, Baseline(op.before, op.plan), op.plan.opts)
    <3>1. ~Changes(k, Baseline(op.before, op.plan)[k], op.plan.opts[k])
      BY <2>1 DEF RequiresReplace, ImmutableChanged
    <3> QED BY <3>1 DEF Changes, Differs
  <2>4. ASSUME NEW k \in Immutable PROVE Request.set[k] = Absent /\ k \notin Request.unset
    BY <2>2, <2>3, KeysAssumption DEF Updates, Removals
  <2> QED BY <2>1, <2>2, <2>4 DEF RequiresReplace
<1> QED BY <1>1, InitTypes, TypeStep, PTL DEF Spec

\* Options set by others survive every update.
THEOREM OtherOptionsArePreserved == Spec => []OthersArePreserved
<1>1. TypeOK /\ OpInv => OthersArePreserved
  <2> SUFFICES ASSUME TypeOK, OpInv, pc = "alter"
               PROVE  /\ \A k \in Keys : Request.set[k] \in {Absent, op.plan.opts[k]}
                      /\ \A k \in Request.unset : op.before.managed[k] # Absent
    BY DEF OthersArePreserved
  <2>1. op.before \in States /\ op.plan \in PlanTypes
    BY DEF OpInv
  <2>2. /\ Request.set = Updates(Baseline(op.before, op.plan), op.plan.opts)
        /\ Request.unset = Removals(Baseline(op.before, op.plan), op.plan.opts)
    BY DEF Request, AlterFor
  <2>3. ASSUME NEW k \in Request.unset PROVE op.before.managed[k] # Absent
    <3>1. k \in Keys /\ op.plan.opts[k] = Absent /\ Baseline(op.before, op.plan)[k] # op.plan.opts[k]
      BY <2>2 DEF Removals, Differs
    <3> QED BY <2>1, <3>1, BaselineType
  <2> QED BY <2>2, <2>3 DEF Updates
<1> QED BY <1>1, InitTypes, TypeStep, PTL DEF Spec

-----------------------------------------------------------------------------
(* What a lookup that satisfies the handler shows.                         *)

\* Counting the options leaves one gap: an option that takes the place of the
\* default "type".
LEMMA ExtraOptions ==
    ASSUME NEW remote \in Options, NEW planned \in Options,
           Holds(remote, planned), SameCount(remote, planned)
    PROVE  LET extra == SetKeys(remote) \ SetKeys(planned)
           IN  \/ extra = {}
               \/ /\ Cardinality(extra) = 1
                  /\ planned[TypeKey] # Absent /\ remote[TypeKey] = Absent
<1> DEFINE S == SetKeys(remote)
           P == SetKeys(planned)
           Q == P \ {TypeKey}
<1>1. S \subseteq Keys /\ P \subseteq Keys /\ Q \subseteq S
  BY DEF SetKeys, Holds
<1>2. IsFiniteSet(S) /\ IsFiniteSet(P) /\ Cardinality(S) = Cardinality(P)
  BY <1>1, KeysAssumption, FS_Subset DEF SameCount
<1>3. CASE P \subseteq S
  <2>1. P = S
    BY <1>2, <1>3, FS_Subset
  <2> QED BY <2>1
<1>4. CASE ~(P \subseteq S)
  <2>1. TypeKey \in P /\ TypeKey \notin S
    BY <1>1, <1>4
  <2>2. planned[TypeKey] # Absent /\ remote[TypeKey] = Absent
    BY <2>1, KeysAssumption DEF SetKeys
  <2>3. S \ P = S \ Q /\ S \cap Q = Q
    BY <1>1, <2>1
  <2>4. Cardinality(Q) = Cardinality(P) - 1
    BY <1>2, <2>1, FS_RemoveElement
  <2>5. Cardinality(S \ Q) = Cardinality(S) - Cardinality(S \cap Q)
    BY <1>2, FS_Difference
  <2>6. Cardinality(S) \in Nat
    BY <1>2, FS_CardinalityType
  <2> HIDE DEF S, P, Q
  <2>7. Cardinality(S \ P) = Cardinality(S) - Cardinality(Q)
    BY <2>3, <2>5
  <2>8. Cardinality(S \ P) = 1
    BY <1>2, <2>4, <2>6, <2>7
  <2> QED BY <2>2, <2>8 DEF S, P
<1> QED BY <1>3, <1>4

\* An update in place leaves the type as it is.
LEMMA TypeIsKept ==
    ASSUME OpInv, op.kind = "update", op.before.managed[TypeKey] # Absent, op.plan.opts[TypeKey] = Absent
    PROVE  Spelt(TypeKey, op.before.managed[TypeKey])
<1>1. op.before \in States /\ op.plan \in PlanTypes /\ ~RequiresReplace(op.before, op.plan)
  BY DEF OpInv
<1>2. TypeKey \in Keys /\ TypeKey \in Immutable
  BY KeysAssumption
<1>3. Baseline(op.before, op.plan)[TypeKey] = op.before.managed[TypeKey]
  BY <1>1, <1>2, BaselineType
<1>4. ~Changes(TypeKey, Baseline(op.before, op.plan)[TypeKey], op.plan.opts[TypeKey])
  BY <1>1, <1>2 DEF RequiresReplace, ImmutableChanged
<1> QED BY <1>3, <1>4 DEF Spelt

\* A table that has the plan's keys and holds its options records the plan.
LEMMA RecordsThePlan ==
    ASSUME OpInv, op.kind \in {"create", "update"}, NEW t \in Tables,
           Holds(t.opts, op.plan.opts), t.keys = op.plan.keys
    PROVE  /\ Recorded(op.plan.opts, t).managed = op.plan.opts
           /\ \A k \in Keys : op.plan.opts[k] # Absent =>
                ~Changes(k, WithPrimaryKeys(t.opts, t.keys)[k], op.plan.opts[k])
<1> DEFINE remote == WithPrimaryKeys(t.opts, t.keys)
           planned == op.plan.opts
<1>1. planned \in Options /\ t.opts \in Options /\ t.keys \in KeyLists
  BY DEF OpInv, PlanTypes, Tables
<1>2. planned[PrimaryKey] # Absent => t.keys = Parsed[planned[PrimaryKey]]
  BY DEF OpInv
<1>3. /\ remote \in Options /\ remote[PrimaryKey] = Joined[t.keys]
      /\ \A k \in Keys \ {PrimaryKey} : remote[k] = t.opts[k]
      /\ Joined[t.keys] # Absent /\ Parsed[Joined[t.keys]] = t.keys
  BY <1>1, WithPrimaryKeysType
<1> HIDE DEF remote
<1>4. ASSUME NEW k \in Keys, planned[k] # Absent
      PROVE  \/ k = PrimaryKey /\ KeysOf(planned[k]) = KeysOf(remote[k])
             \/ k = TypeKey /\ TypeOf(planned[k]) = TypeOf(remote[k])
             \/ k \notin {PrimaryKey, TypeKey} /\ remote[k] = planned[k]
  BY <1>2, <1>3, <1>4, KeysAssumption DEF KeysOf, Holds
<1>5. ASSUME NEW k \in Keys PROVE SyncManaged(planned, remote)[k] = planned[k]
  BY <1>4, KeysAssumption DEF SyncManaged
<1>6. SyncManaged(planned, remote) = planned
  BY <1>1, <1>5 DEF SyncManaged, Options
<1>7. Recorded(planned, t).managed = planned
  BY <1>1, <1>6, RecordedFacts DEF remote
<1>8. ASSUME NEW k \in Keys, planned[k] # Absent PROVE ~Changes(k, remote[k], planned[k])
  BY <1>4, <1>8, KeysAssumption DEF Changes
<1> QED BY <1>7, <1>8 DEF remote

LEMMA ReadyFacts ==
    ASSUME TypeOK, OpInv, pc = "verify", NEW t \in Visible, Ready(t)
    PROVE  /\ t \in Tables /\ t # Missing
           /\ Shape[t.schema] = Shape[op.plan.schema]
           /\ t.keys = op.plan.keys
           /\ Holds(t.opts, op.plan.opts)
           /\ op.kind = "update" => \A k \in Keys :
                op.before.managed[k] # Absent /\ op.plan.opts[k] = Absent =>
                  Unset(t, k) \/ Spelt(k, op.before.managed[k])
           /\ op.kind = "create" => t.schema = op.plan.schema
                /\ (~accepted => SameCount(t.opts, op.plan.opts))
<1>1. t \in Tables /\ t # Missing
  BY DEF Ready, TypeOK, Visible
<1>2. op.kind \in {"create", "update"}
  BY DEF OpInv
<1>3. /\ Shape[t.schema] = Shape[op.plan.schema]
      /\ t.keys = op.plan.keys
      /\ Holds(t.opts, op.plan.opts)
  BY <1>2 DEF Ready, Matches
<1>4. ASSUME op.kind = "update", NEW k \in Keys,
             op.before.managed[k] # Absent, op.plan.opts[k] = Absent
      PROVE  Unset(t, k) \/ Spelt(k, op.before.managed[k])
  <2>1. op.before \in States /\ op.plan \in PlanTypes
    BY <1>4 DEF OpInv
  <2>2. t.opts \in Options /\ t.keys \in KeyLists
    BY <1>1 DEF Tables
  <2>3. CASE k = TypeKey
    BY <1>4, <2>3, TypeIsKept
  <2>4. CASE k = PrimaryKey
    <3>1. t.keys = NoKeys
      BY <1>3, <1>4, <2>4 DEF OpInv
    <3>2. WithPrimaryKeys(t.opts, t.keys)[k] = Joined[t.keys] /\ KeysOf(Joined[t.keys]) = t.keys
      BY <2>2, <2>4, WithPrimaryKeysType DEF KeysOf
    <3>3. Changes(k, Joined[t.keys], Absent) <=> KeysOf(Joined[t.keys]) # KeysOf(Absent)
      BY <2>4, KeysAssumption DEF Changes
    <3>4. KeysOf(Absent) = NoKeys
      BY DEF KeysOf
    <3> QED BY <3>1, <3>2, <3>3, <3>4 DEF Unset
  <2>5. CASE k \notin {TypeKey, PrimaryKey}
    <3>1. k \in AlterFor(op.before, op.plan).unset
      BY <1>4, <2>1, <2>5, BaselineType DEF AlterFor, Removals, Differs
    <3>2. t.opts[k] = Absent
      BY <1>4, <3>1 DEF Ready, Matches
    <3>3. WithPrimaryKeys(t.opts, t.keys)[k] = Absent
      BY <2>2, <2>5, <3>2, WithPrimaryKeysType
    <3> QED BY <2>5, <3>3 DEF Unset, Changes
  <2> QED BY <2>3, <2>4, <2>5
<1> QED BY <1>1, <1>3, <1>4 DEF Ready

-----------------------------------------------------------------------------
(* The inductive invariant of the handlers.                                *)

\* The planned table is one in the window, its options among the table's.
PlanShown ==
    \E t \in since \ {Missing} :
        /\ t.schema = op.plan.schema
        /\ t.keys = op.plan.keys
        /\ \A k \in Keys \ {PrimaryKey} : op.plan.opts[k] # Absent => t.opts[k] = op.plan.opts[k]

\* A create that was acknowledged has been visible.
AcceptedInv == pc = "verify" /\ op.kind = "create" /\ accepted => PlanShown

HandlerInv ==
    /\ TypeOK
    /\ OpInv
    /\ Visible \subseteq since
    /\ AcceptedInv
    /\ SuccessIsThePlan
    /\ AdoptionWasExact

LEMMA InitHandler == Init => HandlerInv
BY InitTypes DEF Init, HandlerInv, AcceptedInv, SuccessIsThePlan, AdoptionWasExact

LEMMA CreateShown ==
    ASSUME TypeOK, OpInv, pc = "create", Settles("ok"), op' = op
    PROVE  PlanShown'
<1>1. op.plan \in PlanTypes
  BY DEF OpInv
<1>2. /\ Request.type = "create" /\ Request.to = op.plan.schema /\ Request.keys = op.plan.keys
      /\ Request.set = [op.plan.opts EXCEPT ![PrimaryKey] = Absent]
  BY DEF Request, CreateFor
<1>3. table' \in TablesAfter(Request) /\ table' \in since'
  BY SettlesFacts DEF Outcomes
<1>4. table' = [schema |-> Request.to, keys |-> Request.keys,
                opts |-> [k \in Keys |-> IF Request.set[k] # Absent THEN Request.set[k]
                                         ELSE Defaults[k]]]
  BY <1>2, <1>3 DEF TablesAfter
<1>5. ASSUME NEW k \in Keys \ {PrimaryKey}, op.plan.opts[k] # Absent
      PROVE  table'.opts[k] = op.plan.opts[k]
  <2>1. Request.set[k] = op.plan.opts[k]
    BY <1>1, <1>2, <1>5 DEF PlanTypes, Options
  <2> QED BY <1>4, <1>5, <2>1
<1>6. table' \in Tables /\ table' # Missing
  <2>1. [k \in Keys |-> IF Request.set[k] # Absent THEN Request.set[k] ELSE Defaults[k]] \in Options
    BY <1>1, <1>2, TablesAssumption DEF PlanTypes, Options
  <2>2. table' \in Tables
    BY <1>1, <1>2, <1>4, <2>1 DEF PlanTypes, Tables
  <2> QED BY <2>2, SentinelAssumption
<1> QED BY <1>2, <1>3, <1>4, <1>5, <1>6 DEF PlanShown

LEMMA HandlerStep == HandlerInv /\ [Next]_vars => HandlerInv'
<1> SUFFICES ASSUME HandlerInv, [Next]_vars
             PROVE  /\ (Visible \subseteq since)' /\ AcceptedInv'
                    /\ SuccessIsThePlan' /\ AdoptionWasExact'
  BY TypeStep DEF HandlerInv
<1>0. /\ TypeOK /\ OpInv /\ Visible \subseteq since /\ AcceptedInv
      /\ SuccessIsThePlan /\ AdoptionWasExact
  BY DEF HandlerInv
<1>1. CASE Begin
  <2>1. since' = Visible' /\ ~accepted' /\ pc' # "idle"
    BY <1>1 DEF Begin, Start, StartImport, StartRead, StartDelete, StartCreate, StartUpdate,
       StartReplace, Visible
  <2> QED BY <2>1 DEF AcceptedInv, SuccessIsThePlan, AdoptionWasExact
<1>2. CASE Handler
  <2>1. CASE MutationCall
    <3>1. PICK a \in Outcomes :
              /\ Settles(a)
              /\ IF a \in {"notfound", "rejected"}
                   THEN Finish(tf, "failed") /\ UNCHANGED accepted
                   ELSE Reconcile(a)
      BY <2>1 DEF MutationCall
    <3>2. since' = Visible' /\ op' = op
      BY <1>0, <2>1, <3>1, SettlesFacts DEF MutationCall
    <3>3. pc' = "verify" /\ op'.kind = "create" /\ accepted' => PlanShown'
      <4> SUFFICES ASSUME pc' = "verify", op'.kind = "create", accepted' PROVE PlanShown'
        OBVIOUS
      <4>1. a = "ok"
        BY <3>1 DEF Finish, Reconcile
      <4>2. pc = "create"
        BY <1>0, <2>1, <3>2 DEF MutationCall, OpInv
      <4> QED BY <1>0, <3>1, <3>2, <4>1, <4>2, CreateShown
    <3>4. pc' = "verify" \/ result' = "failed"
      BY <3>1 DEF Finish, Reconcile
    <3> QED BY <3>2, <3>3, <3>4 DEF AcceptedInv, SuccessIsThePlan, AdoptionWasExact
  <2>2. CASE DeleteCall
    <3>1. since' = Visible'
      BY <1>0, <2>2, SettlesFacts DEF DeleteCall
    <3>2. op.kind \in {"delete", "replace"} /\ op' = op /\ pc' = "idle"
      BY <1>0, <2>2 DEF DeleteCall, Finish, OpInv
    <3> QED BY <3>1, <3>2 DEF AcceptedInv, SuccessIsThePlan, AdoptionWasExact
  <2>3. CASE ReadCall
    <3>1. UNCHANGED <<Visible, since>> /\ op.kind \in {"read", "import"} /\ op' = op /\ pc' = "idle"
      BY <1>0, <2>3 DEF ReadCall, Finish, OpInv, Visible
    <3> QED BY <1>0, <3>1 DEF AcceptedInv, SuccessIsThePlan, AdoptionWasExact
  <2>4. CASE LookupReady
    <3>1. PICK t \in Visible : Ready(t) /\ tf' = Recorded(op.plan.opts, t)
              /\ result' = IF accepted \/ (op.kind = "update" /\ NothingToAlter(AlterFor(op.before, op.plan)))
                             THEN "ok" ELSE "adopted"
      BY <2>4 DEF LookupReady, Finish
    <3>2. UNCHANGED <<Visible, since, op, accepted>> /\ pc' = "idle" /\ pc = "verify"
      BY <2>4 DEF LookupReady, Finish, Visible
    <3>3. t \in Tables /\ t \in since \ {Missing}
      BY <1>0, <3>1, <3>2, ReadyFacts
    <3>4. op.kind \in {"create", "update"} /\ op.plan \in PlanTypes
      BY <1>0, <3>2 DEF OpInv
    <3>5. Holds(t.opts, op.plan.opts) /\ t.keys = op.plan.keys
          /\ Shape[t.schema] = Shape[op.plan.schema]
      BY <1>0, <3>1, <3>2, ReadyFacts
    <3>6. tf'.managed = op.plan.opts /\ tf'.keys = op.plan.keys
      BY <1>0, <3>1, <3>3, <3>4, <3>5, RecordsThePlan, RecordedFacts DEF PlanTypes
    <3>7. SuccessIsThePlan'
      <4>1. \A k \in Keys : op.plan.opts[k] # Absent =>
                ~Changes(k, WithPrimaryKeys(t.opts, t.keys)[k], op.plan.opts[k])
        BY <1>0, <3>3, <3>4, <3>5, RecordsThePlan
      <4>2. op.kind = "update" => \A k \in Keys :
                op.before.managed[k] # Absent /\ op.plan.opts[k] = Absent =>
                  Unset(t, k) \/ Spelt(k, op.before.managed[k])
        BY <1>0, <3>1, <3>2, ReadyFacts
      <4> QED BY <3>2, <3>3, <3>5, <3>6, <4>1, <4>2 DEF SuccessIsThePlan
    <3>8. AdoptionWasExact'
      <4> SUFFICES ASSUME op.kind = "create", result' = "adopted"
                   PROVE  \E u \in since \ {Missing} :
                            /\ u.schema = op.plan.schema
                            /\ u.keys = op.plan.keys
                            /\ LET extra == SetKeys(u.opts) \ SetKeys(op.plan.opts)
                               IN  \/ extra = {}
                                   \/ /\ Cardinality(extra) = 1
                                      /\ op.plan.opts[TypeKey] # Absent /\ u.opts[TypeKey] = Absent
        BY <3>2 DEF AdoptionWasExact
      <4>1. ~accepted
        BY <3>1
      <4>2. SameCount(t.opts, op.plan.opts) /\ t.schema = op.plan.schema
        BY <1>0, <3>1, <3>2, <4>1, ReadyFacts
      <4>3. LET extra == SetKeys(t.opts) \ SetKeys(op.plan.opts)
            IN  \/ extra = {}
                \/ /\ Cardinality(extra) = 1
                   /\ op.plan.opts[TypeKey] # Absent /\ t.opts[TypeKey] = Absent
        BY <3>3, <3>4, <3>5, <4>2, ExtraOptions DEF Tables, PlanTypes
      <4> QED BY <3>3, <3>5, <4>2, <4>3
    <3> QED BY <1>0, <3>2, <3>7, <3>8 DEF AcceptedInv
  <2>5. CASE Deadline
    BY <1>0, <2>5 DEF Deadline, Finish, Visible, AcceptedInv, SuccessIsThePlan, AdoptionWasExact
  <2> QED BY <1>2, <2>1, <2>2, <2>3, <2>4, <2>5 DEF Handler
<1>3. CASE Environment
  <2>1. CASE Crash
    BY <1>0, <2>1 DEF Crash, Finish, Visible, AcceptedInv, SuccessIsThePlan, AdoptionWasExact
  <2>2. CASE ~Crash
    <3>1. UNCHANGED <<tf, op, pc, accepted, result>>
      BY <1>3, <2>2 DEF Environment, LateArrival, OutOfBand, Replicate
    <3>2. since \subseteq since' /\ Visible' \subseteq since'
      BY <1>0, <1>3, <2>2 DEF Environment, LateArrival, OutOfBand, Replicate, Visible
    <3>3. AcceptedInv'
      BY <1>0, <3>1, <3>2 DEF AcceptedInv, PlanShown
    <3>4. SuccessIsThePlan'
      BY <1>0, <3>1, <3>2 DEF SuccessIsThePlan
    <3>5. AdoptionWasExact'
      BY <1>0, <3>1, <3>2 DEF AdoptionWasExact
    <3> QED BY <3>2, <3>3, <3>4, <3>5
  <2> QED BY <2>1, <2>2
<1>4. CASE UNCHANGED vars
  BY <1>0, <1>4 DEF vars, Visible, AcceptedInv, PlanShown, SuccessIsThePlan, AdoptionWasExact
<1> QED BY <1>1, <1>2, <1>3, <1>4 DEF Next

\* A success means the plan is in state as the user wrote it, and one answer of
\* the catalog showed all of it.
THEOREM SuccessesAreThePlan == Spec => []SuccessIsThePlan
<1>1. HandlerInv => SuccessIsThePlan
  BY DEF HandlerInv
<1> QED BY <1>1, InitHandler, HandlerStep, PTL DEF Spec

\* A create of uncertain outcome takes over no table of somebody else's making,
\* up to one option in the place of the default "type".
THEOREM AdoptionsAreExact == Spec => []AdoptionWasExact
<1>1. HandlerInv => AdoptionWasExact
  BY DEF HandlerInv
<1> QED BY <1>1, InitHandler, HandlerStep, PTL DEF Spec

-----------------------------------------------------------------------------
\* The steps that change Terraform state, and what they may write.
LEMMA StateChanges ==
    ASSUME HandlerInv, [Next]_vars, tf' # tf
    PROVE  \/ DeleteCall /\ tf' = NoState /\ Missing \in since'
           \/ ReadCall /\ tf' = NoState /\ Missing \in since'
           \/ ReadCall /\ result' = "ok" /\ \E t \in Visible \ {Missing} :
                tf' = Recorded(IF tf = NoState THEN NoOptions ELSE tf.managed, t)
           \/ LookupReady /\ result' \in {"ok", "adopted"} /\ \E t \in Visible :
                Ready(t) /\ tf' = Recorded(op.plan.opts, t)
           \/ Deadline /\ op.kind = "create" /\ accepted /\ tf = NoState
                /\ tf' = PlannedState(op.plan)
<1>0. TypeOK /\ OpInv /\ Visible \subseteq since
  BY DEF HandlerInv
<1>1. DeleteCall \/ ReadCall \/ LookupReady \/ Deadline
  BY DEF Next, vars, Begin, Start, StartImport, StartRead, StartDelete, StartCreate, StartUpdate,
     StartReplace, Handler, MutationCall, Reconcile, Environment, LateArrival, OutOfBand, Replicate,
     Crash, Finish
<1>2. CASE DeleteCall
  <2>1. PICK a \in Outcomes :
            /\ Settles(a)
            /\ IF a \in {"ok", "notfound"} THEN Finish(NoState, "ok") ELSE Finish(tf, "failed")
    BY <1>2 DEF DeleteCall
  <2>2. a \in {"ok", "notfound"} /\ tf' = NoState
    BY <2>1 DEF Finish
  <2>3. pc = "delete"
    BY <1>2 DEF DeleteCall
  <2>4. TablesAfter(Request) = {Missing}
    BY <2>3 DEF Request, DropFor, TablesAfter
  <2> QED BY <1>0, <1>2, <2>1, <2>2, <2>3, <2>4, SettlesFacts
<1>3. CASE ReadCall
  <2>1. op.before = tf /\ since' = since
    BY <1>0, <1>3 DEF ReadCall, OpInv
  <2>2. PICK t \in Visible :
            IF t = Missing THEN Finish(NoState, "ok")
            ELSE Finish(Recorded(IF op.before = NoState THEN NoOptions ELSE op.before.managed, t), "ok")
    BY <1>3 DEF ReadCall, Finish
  <2>3. CASE t = Missing
    BY <1>0, <1>3, <2>1, <2>2, <2>3 DEF Finish
  <2>4. CASE t # Missing
    BY <1>3, <2>1, <2>2, <2>4 DEF Finish
  <2> QED BY <2>3, <2>4
<1>4. CASE LookupReady
  BY <1>4 DEF LookupReady, Finish
<1>5. CASE Deadline
  BY <1>0, <1>5 DEF Deadline, Finish, OpInv
<1> QED BY <1>1, <1>2, <1>3, <1>4, <1>5

\* A managed option leaves the state of an existing table only with a success,
\* and only after the catalog has shown the table without it.
THEOREM RemovalsAreVerified == Spec => RemovalsStayManaged
<1>1. HandlerInv /\ HandlerInv' /\ [Next]_vars =>
        [tf # NoState /\ tf' # NoState =>
           \A k \in Keys : tf.managed[k] # Absent /\ tf'.managed[k] = Absent =>
              /\ result' \in {"ok", "adopted"}
              /\ (\E t \in since' \ {Missing} : Unset(t, k)) \/ Spelt(k, tf.managed[k])]_vars
  <2> SUFFICES ASSUME HandlerInv, HandlerInv', [Next]_vars, tf # NoState, tf' # NoState,
                      NEW k \in Keys, tf.managed[k] # Absent, tf'.managed[k] = Absent
               PROVE  /\ result' \in {"ok", "adopted"}
                      /\ (\E t \in since' \ {Missing} : Unset(t, k)) \/ Spelt(k, tf.managed[k])
    OBVIOUS
  <2>0. TypeOK /\ OpInv /\ Visible \subseteq since
    BY DEF HandlerInv
  <2>1. tf' # tf
    OBVIOUS
  <2>2. CASE ReadCall /\ result' = "ok" /\ \E t \in Visible \ {Missing} : tf' = Recorded(tf.managed, t)
    <3>1. PICK t \in Visible \ {Missing} : tf' = Recorded(tf.managed, t)
      BY <2>2
    <3>2. t \in Tables /\ t \in since' /\ tf.managed \in Options
      BY <2>0, <2>2, <3>1 DEF TypeOK, Visible, ReadCall, States
    <3>3. t.opts \in Options /\ t.keys \in KeyLists
      BY <3>2 DEF Tables
    <3>4. SyncManaged(tf.managed, WithPrimaryKeys(t.opts, t.keys))[k] = Absent
      BY <3>1, <3>2, RecordedFacts
    <3>5. WithPrimaryKeys(t.opts, t.keys)[k] = Absent
      BY <3>4 DEF SyncManaged
    <3>6. Unset(t, k)
      BY <3>5 DEF Unset, Changes
    <3> QED BY <2>2, <3>1, <3>2, <3>6
  <2>3. CASE LookupReady /\ result' \in {"ok", "adopted"} /\ \E t \in Visible :
                Ready(t) /\ tf' = Recorded(op.plan.opts, t)
    <3>1. PICK t \in Visible : Ready(t) /\ tf' = Recorded(op.plan.opts, t)
      BY <2>3
    <3>2. pc = "verify" /\ since' = since /\ op.before = tf /\ op.kind \in {"create", "update"}
      BY <2>0, <2>3 DEF LookupReady, OpInv
    <3>3. op.kind = "update"
      BY <2>0, <3>2 DEF OpInv
    <3>4. t \in Tables /\ t # Missing /\ t.keys = op.plan.keys /\ Holds(t.opts, op.plan.opts)
      BY <2>0, <3>1, <3>2, ReadyFacts
    <3>5. tf'.managed = op.plan.opts
      BY <2>0, <3>1, <3>2, <3>4, RecordsThePlan
    <3>6. Unset(t, k) \/ Spelt(k, tf.managed[k])
      BY <2>0, <3>1, <3>2, <3>3, <3>5, ReadyFacts
    <3> QED BY <2>0, <2>3, <3>1, <3>2, <3>4, <3>6
  <2> QED BY <2>1, <2>2, <2>3, StateChanges
<1> QED BY <1>1, InitHandler, HandlerStep, PTL DEF Spec, RemovalsStayManaged

-----------------------------------------------------------------------------
(* Refinement of TruthfulState.                                            *)

\* What a created table is said to be before it was looked up is part of it.
LEMMA PlannedIsPart ==
    ASSUME OpInv, op.kind = "create", NEW t \in Tables,
           t.schema = op.plan.schema, t.keys = op.plan.keys,
           \A k \in Keys \ {PrimaryKey} : op.plan.opts[k] # Absent => t.opts[k] = op.plan.opts[k]
    PROVE  Statement(PlannedState(op.plan)) \in Statements(t)
<1> DEFINE s == PlannedState(op.plan)
           planned == op.plan.opts
           remote == [WithPrimaryKeys(t.opts, t.keys) EXCEPT
                        ![TypeKey] = IF @ = Absent THEN DefaultType ELSE @]
<1>1. op.plan \in PlanTypes /\ t.opts \in Options /\ t.keys \in KeyLists
      /\ (planned[PrimaryKey] # Absent => op.plan.keys = Parsed[planned[PrimaryKey]])
  BY DEF OpInv, Tables
<1>2. PICK config \in Plans : planned = config.opts
  BY DEF OpInv
<1>3. s # NoState /\ s.server = Unknown /\ s.schema = t.schema /\ s.keys = t.keys /\ s.managed = planned
  <2>1. s \in States
    BY <1>1 DEF PlannedState, PlanTypes, States
  <2> QED BY <2>1, SentinelAssumption DEF PlannedState
<1>4. Statement(s) = [schema |-> t.schema, keys |-> t.keys,
                      managed |-> [k \in Keys |-> Meaning(k, planned[k])]]
  BY <1>3 DEF Statement
<1>5. ASSUME NEW k \in Keys
      PROVE  Meaning(k, planned[k]) = IF planned[k] # Absent THEN Meaning(k, remote[k]) ELSE Absent
  <2>1. /\ WithPrimaryKeys(t.opts, t.keys) \in Options
        /\ WithPrimaryKeys(t.opts, t.keys)[PrimaryKey] = Joined[t.keys]
        /\ \A j \in Keys \ {PrimaryKey} : WithPrimaryKeys(t.opts, t.keys)[j] = t.opts[j]
        /\ Joined[t.keys] # Absent /\ Parsed[Joined[t.keys]] = t.keys
    BY <1>1, WithPrimaryKeysType
  <2>2. CASE planned[k] = Absent
    BY <2>2 DEF Meaning
  <2>3. CASE planned[k] # Absent /\ k = PrimaryKey
    <3>1. remote[k] = Joined[t.keys]
      BY <2>1, <2>3, KeysAssumption DEF Options
    <3>2. Meaning(k, remote[k]) = t.keys
      BY <2>1, <2>3, <3>1, KeysAssumption DEF Meaning
    <3>3. Meaning(k, planned[k]) = t.keys
      BY <1>1, <2>3, KeysAssumption DEF Meaning
    <3> QED BY <2>3, <3>2, <3>3
  <2>4. CASE planned[k] # Absent /\ k # PrimaryKey
    <3>1. remote[k] = planned[k]
      BY <2>1, <2>4, KeysAssumption DEF Options
    <3> QED BY <2>4, <3>1
  <2> QED BY <2>2, <2>3, <2>4
<1> DEFINE M == {k \in Keys : config.opts[k] # Absent}
<1>6. PartOf(t, M) = [schema |-> t.schema, keys |-> t.keys,
          managed |-> [k \in Keys |-> IF k \in M THEN Meaning(k, remote[k]) ELSE Absent]]
  BY DEF PartOf
<1>7. PartOf(t, M) = Statement(s)
  BY <1>2, <1>4, <1>5, <1>6
<1>8. t # Missing
  BY SentinelAssumption
<1> QED BY <1>7, <1>8 DEF Statements

Truths == Tables \cup {Missing} \cup
    [schema : Schemas, keys : KeyLists, managed : [Keys -> Values \cup KeyLists \cup {Absent}]]

LEMMA StatementsType ==
    ASSUME NEW t \in Tables \cup {Missing} PROVE Statements(t) \subseteq Truths /\ t \in Statements(t)
<1>1. CASE t = Missing
  BY <1>1 DEF Statements, Truths
<1>2. CASE t # Missing
  <2> SUFFICES ASSUME NEW managed \in SUBSET Keys PROVE PartOf(t, managed) \in Truths
    BY <1>2 DEF Statements, Truths
  <2> DEFINE base == WithPrimaryKeys(t.opts, t.keys)
             remote == [base EXCEPT ![TypeKey] = IF @ = Absent THEN DefaultType ELSE @]
  <2>1. t \in Tables /\ base \in Options
    BY <1>2, WithPrimaryKeysType DEF Tables
  <2> HIDE DEF base
  <2>2. remote \in Options
    BY <2>1, KeysAssumption, ValuesAssumption DEF Options
  <2>3. ASSUME NEW k \in Keys PROVE Meaning(k, remote[k]) \in Values \cup KeyLists \cup {Absent}
    BY <2>2, KeysAssumption, ValuesAssumption, KeyListsAssumption DEF Meaning, Options
  <2>4. PartOf(t, managed) = [schema |-> t.schema, keys |-> t.keys,
            managed |-> [k \in Keys |-> IF k \in managed THEN Meaning(k, remote[k]) ELSE Absent]]
    BY DEF PartOf, base
  <2> HIDE DEF remote
  <2> QED BY <2>1, <2>3, <2>4 DEF Truths, Tables
<1> QED BY <1>1, <1>2

LEMMA StatementFromWindow ==
    ASSUME HandlerInv, HandlerInv', [Next]_vars, tf' # tf
    PROVE  \E t \in since' : Statement(tf)' \in Statements(t)
<1>0. TypeOK /\ OpInv /\ AcceptedInv /\ Visible \subseteq since
  BY DEF HandlerInv
<1>1. Statement(NoState) = Missing /\ Missing \in Statements(Missing)
  BY DEF Statement, Statements
<1>2. CASE tf' = NoState /\ Missing \in since'
  BY <1>1, <1>2
<1>3. CASE ReadCall /\ result' = "ok" /\ \E t \in Visible \ {Missing} :
             tf' = Recorded(IF tf = NoState THEN NoOptions ELSE tf.managed, t)
  <2>1. PICK t \in Visible \ {Missing} :
            tf' = Recorded(IF tf = NoState THEN NoOptions ELSE tf.managed, t)
    BY <1>3
  <2>2. t \in Tables /\ t \in since'
    BY <1>0, <1>3, <2>1 DEF TypeOK, Visible, ReadCall
  <2>3. (IF tf = NoState THEN NoOptions ELSE tf.managed) \in Options
    BY <1>0 DEF TypeOK, States, NoOptions, Options
  <2>4. Statement(tf') = t
    BY <2>1, <2>2, <2>3, RecordedFacts
  <2> QED BY <2>2, <2>4, StatementsType
<1>4. CASE LookupReady /\ \E t \in Visible : Ready(t) /\ tf' = Recorded(op.plan.opts, t)
  <2>1. PICK t \in Visible : Ready(t) /\ tf' = Recorded(op.plan.opts, t)
    BY <1>4
  <2>2. pc = "verify" /\ since' = since
    BY <1>4 DEF LookupReady
  <2>3. t \in Tables /\ t \in since' /\ op.plan.opts \in Options
    BY <1>0, <2>1, <2>2, ReadyFacts DEF OpInv, PlanTypes
  <2>4. Statement(tf') = t
    BY <2>1, <2>3, RecordedFacts
  <2> QED BY <2>3, <2>4, StatementsType
<1>5. CASE Deadline /\ op.kind = "create" /\ accepted /\ tf' = PlannedState(op.plan)
  <2>1. since' = since /\ PlanShown
    BY <1>0, <1>5 DEF Deadline, AcceptedInv
  <2>2. PICK t \in since \ {Missing} :
            /\ t.schema = op.plan.schema
            /\ t.keys = op.plan.keys
            /\ \A k \in Keys \ {PrimaryKey} : op.plan.opts[k] # Absent => t.opts[k] = op.plan.opts[k]
    BY <2>1 DEF PlanShown
  <2>3. t \in Tables
    BY <1>0, <2>2 DEF TypeOK
  <2> QED BY <1>0, <1>5, <2>1, <2>2, <2>3, PlannedIsPart
<1> QED BY <1>2, <1>3, <1>4, <1>5, StateChanges

\* How a step moves the window: it is reopened, or grows by what is shown.
LEMMA WindowStep ==
    ASSUME HandlerInv, HandlerInv', [Next]_vars
    PROVE  since' \in {Visible', since \cup Visible'}
<1>1. Visible' \subseteq since'
  BY DEF HandlerInv
<1>2. CASE since' = since
  BY <1>1, <1>2
<1>3. CASE Begin
  BY <1>3 DEF Begin, Start, StartImport, StartRead, StartDelete, StartCreate, StartUpdate,
     StartReplace, Visible
<1>4. CASE MutationCall \/ DeleteCall
  BY <1>4 DEF MutationCall, DeleteCall, Settles
<1>5. CASE since' = since \cup Visible'
  BY <1>5
<1> QED BY <1>2, <1>3, <1>4, <1>5 DEF Next, vars, Handler, ReadCall, LookupReady, Deadline,
     Environment, LateArrival, OutOfBand, Replicate, Crash

\* TableResource implements TruthfulState: Terraform state only takes what one
\* table in the window was, what the plan said of a table just created, or nothing
\* if it was missing.
THEOREM ImplementsTruthfulState == Spec => StateIsTruthful
<1> DEFINE shown == UNION {Statements(t) : t \in Visible}
           window == UNION {Statements(t) : t \in since}
           recorded == Statement(tf)
<1>1. Init => Truthful!Init
  <2> SUFFICES ASSUME Init PROVE Truthful!Init
    OBVIOUS
  <2>1. Visible \subseteq Tables \cup {Missing} /\ table \in Tables \cup {Missing}
    BY InitTypes DEF TypeOK, Visible
  <2>2. shown \subseteq Truths
    BY <2>1, StatementsType
  <2>3. recorded \in Truths
    <3>1. CASE tf = NoState
      BY <3>1 DEF Statement, Truths
    <3>2. CASE tf # NoState
      <4>1. PICK config \in Plans : tf = Recorded(config.opts, table) /\ table # Missing
        BY <3>2 DEF Init
      <4>2. recorded = table
        BY <2>1, <4>1, TablesAssumption, RecordedFacts DEF Configs
      <4> QED BY <2>1, <4>2 DEF Truths
    <3> QED BY <3>1, <3>2
  <2> QED BY <2>2, <2>3 DEF Init, Truthful!Init, Truths
<1>2. HandlerInv /\ HandlerInv' /\ [Next]_vars => [Truthful!Next]_<<shown, recorded, window>>
  <2> SUFFICES ASSUME HandlerInv, HandlerInv', [Next]_vars PROVE Truthful!Next
    OBVIOUS
  <2>1. Visible' \subseteq Tables \cup {Missing}
    BY DEF HandlerInv, TypeOK, Visible
  <2>2. shown' \subseteq Truths
    BY <2>1, StatementsType
  <2>3. window' \in {shown', window \cup shown'}
    <3>1. CASE since' = Visible'
      BY <3>1
    <3>2. CASE since' = since \cup Visible'
      BY <3>2
    <3> QED BY <3>1, <3>2, WindowStep
  <2>4. recorded' = recorded \/ recorded' \in window'
    <3>1. CASE tf' = tf
      BY <3>1 DEF Statement
    <3>2. CASE tf' # tf
      BY <3>2, StatementFromWindow
    <3> QED BY <3>1, <3>2
  <2> QED BY <2>2, <2>3, <2>4 DEF Truthful!Next, Truthful!Changes, Truthful!Records, Truths
<1> QED BY <1>1, <1>2, InitHandler, HandlerStep, PTL DEF Spec, StateIsTruthful, Truthful!Spec

-----------------------------------------------------------------------------
\* The inductive strengthening: requests in flight are numbered by the handlers
\* that have started; the running one has sent none before its call, and leaves
\* none when the call was acknowledged or was not needed.
Unsent == \A r \in inflight : r.id # budget.ops
UpToDate == op.kind = "update" /\ NothingToAlter(AlterFor(op.before, op.plan))

SentInv ==
    /\ \A r \in inflight : r.id >= budget.ops
    /\ pc \in {"create", "alter", "delete", "read"} => Unsent
    /\ pc = "alter" => ~UpToDate
    /\ pc = "verify" /\ (accepted \/ UpToDate) => Unsent
    /\ OneMutationEach

LEMMA RequestNumber == Request.id = budget.ops
BY DEF Request

\* A call that ends definitely sends nothing that stays in flight; after an
\* uncertain one only this handler's request does.
LEMMA SettlesInFlight ==
    ASSUME TypeOK, SentInv, Unsent, NEW a, Settles(a), budget' = budget
    PROVE  /\ \A r \in inflight' : r.id >= budget'.ops
           /\ \A r, q \in inflight' : r.id = q.id => r = q
           /\ a # "uncertain" => Unsent'
<1>1. budget.ops \in Nat
  BY DEF TypeOK
<1>2. \/ inflight' = inflight
      \/ a = "uncertain" /\ inflight' = inflight \cup {Request}
  BY DEF Settles
<1> QED BY <1>1, <1>2, RequestNumber DEF SentInv, Unsent, OneMutationEach

LEMMA StartSends ==
    ASSUME TypeOK, SentInv, NEW kind, NEW before, NEW plan, NEW first,
           Start(kind, before, plan, first),
           first \in {"create", "read", "delete", "alter", "verify"},
           first = "alter" => ~NothingToAlter(AlterFor(before, plan))
    PROVE  SentInv'
<1>1. inflight' = inflight /\ budget'.ops = budget.ops - 1 /\ pc' = first /\ result' = "none"
      /\ op'.before = before /\ op'.plan = plan
  BY DEF Start, TypeOK
<1>2. \A r \in inflight : r.id \in Nat /\ r.id > budget'.ops
  BY <1>1 DEF TypeOK, SentInv, Requests
<1>3. budget.ops \in Nat
  BY DEF TypeOK
<1>4. Unsent'
  BY <1>1, <1>2, <1>3 DEF Unsent
<1>5. pc' = "alter" => ~UpToDate'
  BY <1>1 DEF UpToDate
<1> QED BY <1>1, <1>2, <1>3, <1>4, <1>5 DEF SentInv, OneMutationEach

LEMMA SentStep == TypeOK /\ OpInv /\ SentInv /\ [Next]_vars => SentInv'
<1> SUFFICES ASSUME TypeOK, OpInv, SentInv, [Next]_vars PROVE SentInv'
  OBVIOUS
<1>1. CASE Begin
  BY <1>1, StartSends DEF Begin, StartImport, StartRead, StartDelete, StartCreate, StartUpdate,
     StartReplace
<1>2. CASE MutationCall \/ DeleteCall
  <2>1. PICK a \in Outcomes :
            /\ Settles(a)
            /\ \/ pc' = "verify" /\ accepted' = (a = "ok") /\ pc \in {"create", "alter"}
               \/ pc' = "idle" /\ (a = "uncertain" => result' = "failed")
    BY <1>2 DEF MutationCall, DeleteCall, Finish, Reconcile
  <2>2. pc \in {"create", "alter", "delete"} /\ UNCHANGED <<op, budget>>
    BY <1>2 DEF MutationCall, DeleteCall
  <2>3. /\ \A r \in inflight' : r.id >= budget'.ops
        /\ \A r, q \in inflight' : r.id = q.id => r = q
        /\ a # "uncertain" => Unsent'
    BY <2>1, <2>2, SettlesInFlight DEF SentInv
  <2>4. CASE pc' = "verify" /\ accepted' = (a = "ok") /\ pc \in {"create", "alter"}
    <3>1. ~UpToDate'
      BY <2>2, <2>4 DEF OpInv, SentInv, UpToDate
    <3>2. accepted' => Unsent'
      BY <2>3, <2>4
    <3> QED BY <2>3, <2>4, <3>1, <3>2 DEF SentInv, OneMutationEach
  <2>5. CASE pc' = "idle" /\ (a = "uncertain" => result' = "failed")
    BY <2>3, <2>5 DEF SentInv, OneMutationEach, Unsent
  <2> QED BY <2>1, <2>4, <2>5
<1>3. CASE ReadCall \/ LookupReady \/ Deadline
  <2>1. UNCHANGED <<inflight, op, accepted, budget>>
    BY <1>3 DEF ReadCall, LookupReady, Deadline
  <2>2. \/ pc' = "idle" /\ pc = "read"
        \/ pc' = "idle" /\ pc = "verify" /\ (result' \in {"ok", "unverified"} => accepted \/ UpToDate)
    BY <1>3 DEF ReadCall, LookupReady, Deadline, Finish, UpToDate
  <2> QED BY <2>1, <2>2 DEF SentInv, OneMutationEach, Unsent
<1>4. CASE Crash
  <2>1. pc' = "idle" /\ result' = "crashed" /\ budget'.ops = budget.ops
    BY <1>4 DEF Crash, Finish, TypeOK
  <2>2. \/ inflight' = inflight
        \/ pc \in {"create", "alter", "delete"} /\ inflight' = inflight \cup {Request}
    BY <1>4 DEF Crash
  <2>3. budget.ops \in Nat
    BY DEF TypeOK
  <2> QED BY <2>1, <2>2, <2>3, RequestNumber DEF SentInv, OneMutationEach, Unsent
<1>5. CASE (\E r \in inflight : LateArrival(r)) \/ Replicate \/ UNCHANGED vars
           \/ \E t \in OtherTables \cup {Missing} : OutOfBand(t)
  <2>1. UNCHANGED <<op, pc, accepted, result>> /\ inflight' \subseteq inflight /\ budget'.ops = budget.ops
    BY <1>5 DEF LateArrival, OutOfBand, Replicate, vars, TypeOK
  <2>2. UpToDate' = UpToDate
    BY <2>1 DEF UpToDate
  <2> QED BY <2>1, <2>2 DEF SentInv, OneMutationEach, Unsent
<1> QED BY <1>1, <1>2, <1>3, <1>4, <1>5 DEF Next, Handler, Environment

\* However calls, crashes and late arrivals interleave, a handler leaves at most
\* one request behind, and none when it knows the outcome.
THEOREM HandlersSendOnce == Spec => []OneMutationEach
<1>1. Init => SentInv
  BY DEF Init, SentInv, OneMutationEach, Unsent
<1>2. TypeOK /\ OpInv /\ [Next]_vars => (TypeOK /\ OpInv)'
  BY TypeStep
<1>3. SentInv => OneMutationEach
  BY DEF SentInv
<1> QED BY <1>1, <1>2, <1>3, InitTypes, SentStep, PTL DEF Spec
=============================================================================
