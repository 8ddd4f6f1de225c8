# TLA+ model of the Paimon Terraform provider

The provider manages databases, tables, permissions, row filters and column
masks of an Apache Paimon REST catalog. Its hard part is not the requests but
what may be concluded from their answers: a mutation is sent once, its answer may
be lost, the catalog may show it late, somebody else may change the object in
between, and whatever the handler concludes is written to Terraform state and
shown to the user. The modules here model those conclusions, and the
machinery around them: the lazily configured client, the credentials, the
planning of schema changes, and the data types as text.

## 1. Inventory

| component | code | state it keeps | hard behaviour | what makes it correct |
|---|---|---|---|---|
| REST client | `client.go`, `management.go` | mutex, `configured`, prefix, headers | concurrent first calls, configuration load under the mutex, retries, cancellation | all operations use one configuration; a mutation leaves once; a definite error means it had no effect |
| Row filter / column mask | `resource_policy.go`, `policy_semantics.go` | Terraform state; local variables of the reconciliation | an update is drop + create + perhaps restore, every step with an uncertain outcome | state and diagnostics say what was really attached; refused creates adopt nothing |
| Database | `resource_database.go`, `helpers.go` | managed options in state | verification of updates and removals, adoption after an uncertain create | success was observed; unverified removals stay managed; removal from state means missing |
| Permission | `resource_permission.go` | the assignment in state | grant is an upsert, every failure is reconciled, grants expire | as for policies |
| Table | `resource_table.go` | schema, managed options, server options and key information in state | alter in place or replacement is decided at plan time; creates and updates are verified afterwards | a success was the plan; what is not managed is preserved; only allowed changes happen in place |
| Table options, plan stabilisation | `table_options.go`, `table_schema.go` | none | keys with two homes ("primary-key"), spellings ("type"), options the server adds | the same meaning is no change, another one always is |
| Table schema changes | `table_schema_changes.go`, `table_schema.go` | none | one alter carries many ordered changes; IDs or names identify fields | the changes turn the table into the plan without losing column data |
| Data types | `data_type.go` | none | SQL text against structured JSON, IDs of nested fields beside the text, quoting | what is read can be sent back; equivalence means the same type |
| DLF credentials | `dlf_auth.go` | cached credential under a mutex | refresh races expiry, broken token file, cancelled callers | no expired credential is used, no usable one is given up |
| ECS metadata | `dlf_auth.go` | session token, role name | tokens end or are forgotten by the service | a refused token is not sent again; loading recovers |
| Policy AST, request signing, ID parsing, provider block | `policy_semantics.go`, `dlf_auth.go`, `provider.go` | none | pure functions | not modelled, or abstracted (section 8) |
| Data sources, entry point, build and docs | `data_source_*.go`, `main.go`, ... | none | none | not modelled |

Interaction: Terraform calls one handler of a resource at a time for one object,
but handlers of different objects run concurrently and share one `Client`. The
client asks its authenticator for every attempt of every request; the
authenticator asks the credential provider, which calls the file or ECS loader.
Mutating handlers run `retryLookupUntil` in a context that survives the
cancellation of the apply (`mutationRecoveryContext`).

## 2. Modules

| module | models | checked | proved |
|---|---|---|---|
| `TruthfulState` | abstract: what Terraform state promises about any object | as a refined specification | - |
| `RemoteCalls` | abstract: what a caller of the client is told, and what the catalog may do with its mutation | as a refined specification | - |
| `PolicyResource` | row filter and column mask handlers | `policy`, `policy_confirmed` | `PolicyResource_proofs` |
| `RestClient` | `Client.do`, `ensureConfigured`, `doRaw` | `client` | `RestClient_proofs` |
| `DatabaseResource` | database handlers, over a client that may still have to load its configuration | `database`, `database_config404` | `DatabaseResource_proofs` |
| `PermissionResource` | permission handlers | `permission` | `PermissionResource_proofs` |
| `TableOptions` | option diffs, immutable options, keys and spellings, as operators | through `table` | through `TableResource_proofs` |
| `TableResource` | table plan and handlers, over `TableOptions` | `table` | `TableResource_proofs` |
| `SchemaChanges` | from configured fields to a plan, to a list of schema changes, to the altered table | `schema_changes`, `schema_changes_partition` | `SchemaChanges_proofs` |
| `DataTypes` | types as JSON and as text: rendering, parsing, nested IDs, equivalence | `data_types`, `data_types_spelling` | - |
| `DLFCredentials` | `refreshingDLFCredentialProvider` with `fileDLFTokenLoader` | `credentials` | `DLFCredentials_proofs` |
| `EcsMetadata` | `ecsDLFTokenLoader` | `credentials` | `EcsMetadata_proofs` |

The `MC` modules only give constants their small values. Operators that a comment calls a
mutant are never used by a specification: they are wrong versions of the definition that
follows them, and each property of a passing run is violated when one of them takes its
place.

### How the resource modules correspond to the code

`PolicyResource`, `DatabaseResource`, `PermissionResource` and `TableResource` have the same
shape. The catalog is one object (`attached`, `db`, `granted`, `table`), a `replica` that
may lag behind it, and the requests `inflight` whose answer was lost. `tf` is the object in
Terraform state, `op` the handler's inputs, `pc` the place in the handler, `last` the
variables of `retryLookupUntil`. `since` is a history variable: everything the catalog could
be seen to hold since the handler's last call settled. Each call of the client is one
action, with one disjunct per class of outcome that the code tells apart: success, 404,
definite refusal, uncertain. Each lookup of a polling loop is one action (`LookupReady` when
it satisfies the loop, `LookupAgain` otherwise, also when it fails), and the expiry of the
recovery timeout is `Deadline`, which carries what the function around the loop then
decides. The environment changes the object (`OutOfBand`), delivers or loses late requests
(`LateArrival`), lets the replica catch up (`Replicate`) and kills the provider (`Crash`),
in which case the result of the handler never reaches the state file while a request it was
about to send may have left.

The differences are those of the code:

- A policy create that was definitely refused ends at once, except inside an update
  (`RefusedAtOnce`). An update whose drop failed accepts an absence as an answer
  (`dropLookup`); the create of an update that fails is followed by a restore. Contents are
  classes of `equivalentPolicyContent`, and comparing may fail (it needs the table's
  schema), which is the alternative that ends in `unknown`.
- A database has options per key. `diffOptions`, `optionsConverged` and `syncManagedOptions`
  are operators on functions from keys to values or `Absent`. The calls may fail the way the
  configuration load fails (`ConfigFailures`), because its errors reach the handler as if
  they were the operation's.
- A grant replaces what is there; an acknowledged one is recorded before it is verified, a
  failed one of any kind is reconciled.
- A table has a schema, options and key lists. `PlanOver` is the plan Terraform makes over
  the state of the last refresh (columns of the same `Shape` keep their IDs, `PlannedKeys`
  keeps the key list), `RequiresReplace` the decision of
  `immutableTableOptionsRequiresReplace` and `ModifyPlan`, and `AlterFor` the request of an
  update, computed a second time from state and plan over `Baseline`, the options of state
  completed by the server's options. Meanwhile others may change the table or drop and
  create it again. A create waits for the planned IDs, and with an uncertain outcome also
  counts the options (`Ready`); one that was accepted but never seen stores its plan, with
  `Unknown` for the server's options; an update without changes is verified without a call.
  A replacement is the delete of one handler and the create of another.

`TableResource` records only parts of what it saw, so its refinement of `TruthfulState`
compares statements. `Statement` turns the state into what it says: a whole table, if the
managed options agree with the server options beside them; a schema, keys and managed
options, if there are no server options yet. `Statements` are what a table may be said to
be: the table itself, or the part of it (`PartOf`) that one of the plans manages, with
"primary-key" and "type" taken for what they mean, not how they are spelt.

`RestClient` has a set of concurrent `Calls`. A call goes through `build` (the resource
builds the path with `catalogPrefix`), `ensure` (`ensureConfigured`), perhaps
`config`/`configWait` (the load, under `mu`), `path`, `headers` and `op`/`opWait` (`doRaw`).
Every acquisition of the mutex is a step of its own. `effect` says what became of a mutation
in the catalog.

`RemoteCalls` is the seam between the client and the resources. The resource modules do not
contain a client: a call of theirs is one action with one disjunct per class of outcome, and
a request of uncertain outcome may arrive later or never (`Settles`, `LateArrival`).
`RemoteCalls` states this assumption for one call, and `RestClient` implements it: `Meaning`
maps the error a call returned to the class the handlers tell apart with `IsNotFound` and
`IsMutationOutcomeUncertain`. The mapping keeps the code's confusion: a 404 of the
configuration load is a `"notfound"` as well (`database_config404`), and a mutation that was
never sent may be `"uncertain"`: after a 429, 5xx or transport error of the load the handlers
poll for an effect that cannot come, although `IsMutationOutcomeUncertain` "reports whether a
failed mutation may have been accepted remotely" (client.go:268-269). `DefiniteOutcomes`
therefore says of an uncertain error that the mutation was sent, or else that the
configuration failed to load.

`DLFCredentials` identifies a credential with its expiry; the largest one stands for a
credential without expiration. Time passes between any two steps, so also between loading a
credential and judging it. `EcsMetadata` runs one `Load` at a time, because the loader holds
its mutex throughout. A client has one source of credentials (`newDLFCredentialProvider`
refuses two), so `MCDLFCredentials` extends both modules and decides at the start which of
them takes steps; what of the provider depends on its loader - that a load may fail, and
takes time - is checked with the file. `EcsMetadata` avoids the names of `DLFCredentials`
(`moment` for the clock, `step`, `try` and `outcome` for the place in `Load`, its attempt
and its result).

`SchemaChanges` starts from a table and a configuration. `ModifyPlan` gives fields without
an ID the ID of the column they name (`Identity`) and fields without nullability that of the
column, and refuses or replaces what cannot be done in place. `Convert` and
`AssignTemporaryID` are the start of `Update`: the checks of the planned fields, and the IDs
of new ones. Then every iteration of a loop of `tableFieldSchemaChanges` is an action:
`DropColumn`, `RenameColumn` and `RenamePassEnds` (renames are made in passes until nothing
is pending), `AddColumn`, `MoveColumn`; only the loop over attributes, whose changes do not
depend on each other, is one step (`UpdateColumns`). The catalog applies the changes of an
alter in their order, and the code does not look at it while it lists them, so `columns`
follows the list as it grows. `now` and `order` are what the code believes meanwhile
(`retainedNames`, `currentOrder`). A column keeps the ID of the field whose data it holds,
so that dropping and adding again is told from renaming.

`DataTypes` works on token sequences: words, blanks, brackets, commas and quotes.
`ReadField` is what a read does (`decodeDataTypeJSON` and the collection of IDs by path),
`SendBack` what an update or a move sends (`parseDataType` with the IDs), `Compare` is
`EquivalentDataTypes`, `CreateTable` the encoding of the columns of a new table, each
continuing the field IDs after the one before it. The scanner (matching brackets, splitting
at commas, finding keywords) is modelled token by token, since its marks are where it could
go wrong.

## 3. What is checked

Properties common to the resource modules:

- `DiagnosticTruth` (policy, permission; databases and tables have `SuccessWasConverged` and
  `SuccessIsThePlan` with `AdoptionWasExact` instead): the outcome a finished handler
  reports - recorded, adopted, restored, absent, unexpected content - was the case at some
  moment since its last call settled.
- `StateIsTruthful`: the module implements `TruthfulState`; the state is only set to
  something visible since that moment. For databases, where the state shows some of the
  options, the mapping takes the sub-maps of each visible option map; for tables it takes
  statements (section 2).
- `HandlerEnds`: every handler ends.

Type correctness is proved for every module with a proof (section 6), and so is not checked
in the runs as well.

| run | shows |
|---|---|
| `policy` | the above, `RefusedCreateNeverAdopts`, and `HandlerAdvances`: of the drop, the create and the restoring create of an update none is sent twice, and no polling loop is entered again |
| `client` | `ImplementsRemoteCalls`: the client is what the resource modules assume a client to be; `MutationSentOnce`, `DefiniteOutcomes`, `SameSettings`, `CallReturns`; deadlock is checked |
| `database` | `SuccessWasConverged`, `AdoptionWasExact`, `RemovalsStayManaged`, refinement, termination |
| `permission` | `DiagnosticTruth`, refinement, termination |
| `table` | `OneMutationEach`: a handler sends one mutation, and leaves none in flight when it knows the outcome; `SuccessIsThePlan`: one answer of the catalog had all of the plan; `AdoptionWasExact`: an uncertain create takes no other table; `InPlaceIsAlterable` and `OthersArePreserved`: an alter touches only what may and should be altered; `RemovalsStayManaged`: an unverified removal is planned again; refinement, termination |
| `schema_changes` | `RejectedOnlyForPartition`: the catalog refuses a list exactly when a partition column is dropped or renamed; `AppliedIsPlanned`, `DataFollowsIdentity`, `RefusedOnlyForCycle`, `NewIDsAreFresh`; deadlock is checked |
| `data_types` | `ReadsBack`: text the provider shows is parsed to the type and the nested IDs it came from exactly when it is `Readable`; `EquivalenceIsExact`: two readable texts are equivalent exactly if the types are; `NestedIsFresh`: nested IDs of a new table are distinct; deadlock is checked |
| `credentials` | of the provider over a token file: `NeverAnswersExpired`, `FailsOnlyWithoutUsable`, `CacheNeverGoesBack`, `EveryCallAnswered`; of the ECS loader: `NeverResendsRefused`, `EventuallyLoads`; deadlock is checked |

Four runs show that the code does not do what a comment, a diagnostic or a doc says:

- `policy_confirmed`: `retryLookupUntil` keeps what an earlier lookup found after a later
  one finds nothing. An update then reports "reconciliation confirmed that the previous ...
  remains attached", and does not try to restore it, although the latest answer showed no
  policy at all.
- `database_config404`: a 404 answered to the configuration load satisfies `IsNotFound`, so
  a refresh or a delete removes an existing database from Terraform state.
- `schema_changes_partition`: the rules that ask for a replacement look at the types of key
  columns, and the check of the keys only at whether some field has the name. So a partition
  column `b` is dropped, or renamed, in place when another field takes the name `b` by its
  ID, against "changing table keys must be planned as a replacement". The catalog refuses
  the alter, the plan did not say so.
- `data_types_spelling`: a nested default value is rendered as it is. When it is empty,
  leaves a quote or a bracket open, or holds a bare comma, the text cannot be parsed as what
  it was, so the type is not equivalent to itself, and every plan asks for a replacement:
  "spelling differences alone do not cause perpetual plans" does not hold for such a type.

## 4. Bounds

- Resources: two handlers per behaviour (`MaxOps`), one change by somebody else, one crash.
  Two handlers are what an update needs (there must be a state first), and a request of the
  first handler to arrive during the second, or an import to meet a crashed create. Three
  contents are the previous, the planned and an unexpected one; two option keys are one to
  change and one to remove or to be supplied by the server. `inflight` is bounded by the
  handlers' calls. Lookups are not bounded: a loop of any length has finitely many states.
- Client: two concurrent calls, each a read or a mutation, three attempts
  (`maxReadAttempts`), two server configurations. A third call would add another waiter for
  the mutex; the safety properties are proved for any number.
- Table: four option keys (one the catalog can change, one it cannot, "type" and
  "primary-key"), three schemas of which two differ in their IDs only, three plans, an alter
  that is possible in one direction only. Two handlers meet every pair of handlers from a
  state that may exist at the start (61,660 states).
- Schema changes: tables of two and three columns (top-level), all configurations of at most
  three with five names, IDs, names or both as identities, and four ways to revise their
  attributes, and all of four columns with the attributes left alone; both partition
  settings, and a nested field that takes the next-to-last field ID, so that IDs run out
  (1,764,708 states). The first two columns have one type, one of them may be the partition
  column, and so the other may take its name by ID.
- Data types: types up to four levels deep, with names, comments and default values that
  contain every token the scanner looks for, also unbalanced, misplaced or absent (an empty
  comment, an empty default); equivalence also between all pairs of small types
  (16,380 states).
- Credentials: two requests, a clock of two moments, a refresh margin longer than that (so a
  credential can be due for a reload and still usable), all expiries, two attempts.
  Metadata: two faults, a clock that outruns a token, and enough tokens that the bound never
  stops the loader.
- The `database` run and the refinement proof for databases exclude one thing the code can
  meet: a 404 answered to the configuration load (`ConfigFailures` has the other kinds). With it,
  `StateIsTruthful` fails for the reason that `database_config404` shows.

`CHECK_DEADLOCK FALSE` stands in the resource runs only: they stop when Terraform has run
its handlers.

## 5. Fairness

- Handler steps (tables included) are weakly fair: the HTTP client has a timeout, so a call
  ends, and a handler is one goroutine that does not wait for another. Starting a handler,
  crashes and everything of the environment is not fair.
- `Deadline` is weakly fair because `mutationRecoveryContext` gives every loop a timer;
  `LookupAgain` in the policy and permission modules because the loops look at least once
  before the deadline can end them.
- The steps of a client call are weakly fair per call. In `DLFCredentials` taking the mutex
  is strongly fair, since `sync.Mutex` hands over to a waiter that has starved for a
  millisecond; in `RestClient` this is not needed, as each call takes it a bounded number of
  times.
- `EcsMetadata`: the provider keeps loading and its requests end; `EventuallyLoads` is
  conditional on the service's faults being over.
- `SchemaChanges` and `DataTypes` state no fairness: all their properties are safety
  properties.

## 6. What is proved

`PolicyResource_proofs` (for all contents, bounds, and both settings of `StaleReads`):

- `TypeCorrect`: `Spec => []TypeOK`. Types are not inductive alone, since a handler may
  store its plan: `OpInv` says that a create or update has one and that an update runs on
  what is in state. The lemma `TypeStep` uses both.
- `DiagnosticsAreTrue`: `Spec => []DiagnosticTruth`. The inductive invariant is
  `DiagnosticInv == TypeOK /\ Visible \subseteq since /\ OpInv /\ LoopInv /\
  DiagnosticTruth`. `LoopInv` carries the argument: what a loop remembers (`last`) was shown
  in the current window, a window only grows while a loop runs, and it is reset only by a
  call, after which `last` is empty.
- `ImplementsTruthfulState`: `Spec => StateIsTruthful`. Every step either leaves the state
  alone or stores an element of the window (`StateFromWindow`), and windows are extended or
  restarted as the abstract specification allows (`WindowStep`).
- `RefusalNeverAdopts`: from `OpInv`, whose last conjunct says that a refused create is not
  in its loop.
- `CallsAreMadeOnce`: `Spec => HandlerAdvances`, one case per action; `Distance` counts the
  calls a place of the handler still has before it.

`RestClient_proofs` (for all sets of calls, settings, server configurations and attempts):
`TypeCorrect`, `MutationsAreSentOnce`, `DefiniteOutcomesAreTrue`, `OperationsShareSettings`,
`ExplainedNotFoundIsTheOperations` and `SettingsAreLoadedOnce`, all from the inductive
invariant `ClientInv`. Its conjuncts say who holds the mutex (exactly the call that loads),
that a call beyond the load finds the client configured and carries its settings, and what
each place implies for the attempt counter and the sends. The lemma `Steps` treats one
action at a time. Three more theorems build on it:

- `CallsAreRemoteCalls`: `Spec => ImplementsRemoteCalls`. A step before the return maps to a
  stutter; that needs from the invariant that a mutation has a single attempt, so that its
  effect and its answer come in the same step, and that a failed load leaves no effect at
  all.
- `EveryCallIsBounded`: each step of a call decreases `StepsLeft`, and nothing else changes
  it. So a call takes at most `4 * MaxAttempts + 6` steps of its own, retries of the
  configuration load and of the operation included.
- `CallsNeverDeadlock`: while a call has not returned, some call need not wait for the
  mutex.

`DatabaseResource_proofs` (for all keys, values and bounds): `TypeCorrect`,
`SuccessesConverged`, `AdoptionsAreExact`, `RemovalsAreVerified` and
`ImplementsTruthfulState`. They share one invariant: what a verification loop may conclude
from was shown in the current window, and a finished success still has its witness in it,
because a window is only restarted by a call or by the next handler. `ImplementsTruthfulState`
assumes that `"notfound"` is not among `ConfigFailures` - the assumption that
`database_config404` shows to be necessary; the others hold without it.

`HandlersSendOnce` (here and for tables) states `OneMutationEach`: the requests in flight
come from different handlers, and a handler that ended knowing its outcome, or without
having sent anything, left none. The invariant is `SentInv`: no request in flight carries
the number of a handler that has not made its call yet (`Unsent`). `Reconcile`, `Deadline`
and the loops follow a call, so the proof has to show that no path leads from them back to
one. For databases this is proved only, not a property of the run.

`PermissionResource_proofs`: `TypeCorrect`, `DiagnosticsAreTrue`, `ImplementsTruthfulState`,
along the same lines.

`TableResource_proofs` (for all keys, values, spellings, schemas and plans): `TypeCorrect`,
`SuccessesAreThePlan`, `AdoptionsAreExact`, `InPlaceChangesAreAlterable`,
`OtherOptionsArePreserved`, `RemovalsAreVerified`, `ImplementsTruthfulState`. The inductive
invariant is `HandlerInv == TypeOK /\ OpInv /\ Visible \subseteq since /\ AcceptedInv /\
SuccessIsThePlan /\ AdoptionWasExact`. `OpInv` says that an update runs on what is in state
and was not one to be replaced; the lemmas on `TableOptions` connect the decision at plan
time (`RequiresReplace`), the diff that is sent (`AlterFor`) and the verification (`Ready`),
which are three computations in the code: an option that is no immutable change is not sent,
and what is ready is unchanged against the plan key by key. The count of options is turned
into a statement about sets by cardinality lemmas. The proof showed that one case has to be
excepted (`Spelt`, section 8).

`DLFCredentials_proofs` (for all requests, clocks and margins): `TypeCorrect`,
`CacheOnlyAdvances`, `AnswersAreUsable`, `FailuresAreNecessary`. `ProviderInv` adds to the
types that at most one request is past the mutex (`MutexInv`) and what the loader has read
(`ReadingInv`); without the former, a slow reload could overwrite a later one.
`EveryRequestIsBounded` and `RequestsNeverDeadlock` say of requests what their namesakes say
of client calls: a request has a bounded number of steps of its own, the loader's retries
included, and some unanswered request can always go on.

`EcsMetadata_proofs`: `TypeCorrect`, `RefusedIsNotResent`, and `TokensAreTakenInTime`, which
states `SentBeforeExpiry` and is not a run of its own. `LoaderInv` adds that nothing is
cached after a refusal, and that a token about to be sent was never refused before and was
chosen with the margin left. `EveryLoadIsBounded`: the reacquisition of a refused token
happens once per request, so a load ends after a bounded number of steps, whatever the
service answers.

`SchemaChanges_proofs` (for all tables, configurations and limits of field IDs):
`RejectedOnlyForPartitionHolds`, `AppliedIsPlannedHolds`, `DataFollowsIdentityHolds`,
`RefusedOnlyForCycleHolds`, `NewIDsAreFreshHolds`. They rest on `UpdateHolds`: `Spec =>
[]UpdateInv`. `UpdateInv` has one conjunct per phase of the update, and each says how far
its loop has come. `PlanInv` and `IdsInv` lead to `PlanOK`, what the loops may rely on: the
plan has distinct names and IDs, new fields are nullable and their IDs unused, neither a
composite nor a partition column changes its type. `PartitionInv` says what the list has
passed: the catalog refuses a change of the drops or the renames exactly at a partition
column that is dropped or renamed, so neither loop gets past one. From there on the proof
relates three sequences: the catalog's
`columns`, the `order` the code expects, and the places of `before` or `after` the loop has
passed.

- `DropsInv`: the columns are the retained ones already passed, in their order, and all
  those still ahead; `order` has the planned names of the former.
- `RenamesInv`: a column is called what `now` says, and all names are distinct; hence a
  rename to a name nobody has is accepted.
- `AddsInv`, `MovesInv`: `order` and the names of `columns` agree place by place, so a
  position computed from one is right in the other (`PlacesAgree`); behind the loop of moves
  everything is in its final place, and so at its end the columns are the plan.
- `CycleInv`: fields that exchange names among themselves are never renamed, since each
  waits for another of them. Conversely, when a pass makes no progress, the pending fields
  want only names that pending fields have; wanted and present names are equally many, so
  the two sets are equal and the fields do exchange their names
  (`BlockedFieldsExchangeNames`, by counting).

`UpdatesEnd` (`Spec => UpdateAdvances`) is the termination argument of the five loops. The
measure is lexicographic: the phase, the fields still to be renamed, whether the pass has
made progress, the rest of the list. Only the passes of the renames need work: a pass starts
over only after progress, and progress means that a field got its planned name, which it
never loses (`RenameCounts`).

The catalog's rules in the model are used as they stand; that the code's position rule is
the catalog's is an assumption of the model (section 8), not a result.

The assumptions are those named in the modules: sentinels differ from values, bounds are
naturals, settings have the right shape; for tables also that the keys are finite,
"primary-key" and "type" are immutable options, and joining a key list and parsing it gives
it back; for schema changes that the columns of a table have distinct IDs and names, and
that its partition columns are among them.

Only model-checked:

- Liveness: `HandlerEnds`, `CallReturns`, `EveryCallAnswered` and `EventuallyLoads` need
  fairness and ENABLED, which are out of the prover's reach. Of the first three, what does
  not depend on fairness is proved where a measure exists: work is bounded
  (`CallsAreMadeOnce`, `EveryCallIsBounded`, `EveryRequestIsBounded`) and somebody can
  always go on (`CallsNeverDeadlock`, `RequestsNeverDeadlock`). That a step which can be
  taken is taken in the end stays with TLC. `EveryLoadIsBounded` and `UpdatesEnd` bound the
  loads and the lists of changes in the same way.
- `DataTypes` (`ReadsBack`, `EquivalenceIsExact`, `NestedIsFresh`): its operators are
  recursive over the text of a type, and induction over data is out of reach too.

## 7. Plan

Done, in this order: `PolicyResource` with `TruthfulState`, `RestClient`,
`DatabaseResource`, `DLFCredentials`, `SchemaChanges`, `PermissionResource`, `EcsMetadata`,
`TableOptions` with `TableResource`, `DataTypes`; proofs of all but `DataTypes`;
`RemoteCalls` between the client and the resources. Next:

1. `PolicyAST`: normalisation of policy JSON is idempotent and preserves meaning.
2. One module for `retryLookupUntil`, of which the four loops are instances.
3. Primary keys in `SchemaChanges`, and changes planned for a table that has changed since.

## 8. What is left out

- Configuration failures are part of the client and the database module only; the policy,
  permission and table modules assume a client that has been configured.
- A policy lookup (`lookupPolicy`) makes one call of `ListPolicies` for at most two results
  and fails when two policies match the identity. The model's catalog attaches at most one,
  and a failing lookup is one of its outcomes anyway.
- `TableResource`: a schema is one value; option values are known, because Terraform plans
  again with known values before it applies a plan; `primary-key.nullable` and the
  nullability of key columns are abstracted; a tainted resource is not told from a replaced
  one. An alter that meets a table others have changed since may lead to any schema.
- Two small gaps of the code are visible in its properties. `AdoptionWasExact` excepts one
  extra option: `exactOptions` compares counts, so it goes unnoticed when "type" is planned
  and the catalog leaves the default out. `Spelt` excepts the removal of a "type" that
  spells the default: it is no change, so nothing is sent or verified.
- `SchemaChanges`: "type" stands for type and comment, which an added column carries along;
  nested fields are only IDs that are in use; there are no primary keys. That partition
  columns cannot be dropped, renamed or given another type is the model's assumption about
  the catalog. So is its position rule for added columns: `PlaceForNew` is the rule of the
  code once more, on the columns instead of the expected names. `AppliedIsPlanned`
  therefore shows that the moves are right under that rule, not that Paimon follows it. The
  model's catalog accepts a table that is without columns between a drop and an addition.
  A list is not followed beyond a change the catalog would refuse (`rejected`), so a rename
  cycle further on, for which the list is not even sent, goes unnoticed. A configuration
  that renames a column by ID while another field without an ID still has the old name plans
  the same ID twice, and is refused only at apply (`inconvertible`).
- `DataTypes`: canonical names of atomic types are reduced to one synonym; `VECTOR` and
  collections in suffix form over composite types are left out. `Readable` is exact
  on all types of the run: it holds of a type if and only if its text means the type again.
  It excepts an empty nested
  comment, which is not rendered; a nested default value that is empty, begins or ends with
  a blank, leaves a quote or parenthesis open, has a comma or a structural `>` outside them,
  or contains the word COMMENT where the field has no comment; a ROW field named `DEFAULT`
  with a composite type; a comment or default value after a type that has something like an
  opening bracket in a default value of its own; and, in a ROW inside another type, a field
  with a default value (or a later field named `DEFAULT`) followed by one with a composite
  type, because `splitTopLevel` forgets a `DEFAULT` only at its own depth -
  `ROW<a ROW<x INT DEFAULT 1, y ARRAY<INT>>>` is refused. A type that is not readable is
  refused by the parser, or sent as another one: a comment is lost, or the default value
  `x, y INT` becomes a second field. No property says which of the two happens.
  `EquivalenceIsExact` is about readable types; that a type outside them may not
  even be equivalent to itself is what `data_types_spelling` reports.
- The RAM role of the ECS instance does not change.
- Replicas: one lagging view per object, which catches up in one step.
- Request signing, policy JSON, import identifiers, validation of the provider block and
  attributes, data sources: pure functions or single reads without state.
- Wording of diagnostics, except for the class of outcome they report.
