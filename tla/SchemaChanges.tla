--------------------------- MODULE SchemaChanges ---------------------------
(***************************************************************************)
(* How the configured fields of a table become a plan, the plan a list of  *)
(* schema changes, and what the list does to the table's columns.  Fields  *)
(* are identified by their IDs: the plan gives a configured field without  *)
(* one the ID of the column it names; a retained field may change its      *)
(* name, its attributes and its position; the others are dropped or added. *)
(*                                                                         *)
(* The loops of the code are the actions, one iteration each.  The catalog *)
(* applies the changes of an alter in their order, each to the outcome of  *)
(* those before it; since the code does not look at the catalog while it   *)
(* lists the changes, columns follows the list as it grows.                *)
(*                                                                         *)
(* "type" stands for the data type and the comment.  Top-level columns     *)
(* only, no primary keys; the partition keys of the table are configured   *)
(* as they are.                                                            *)
(***************************************************************************)
EXTENDS Integers, Sequences, SequencesExt

CONSTANTS
    Names,       \* column names
    Types,       \* data types
    Composite,   \* ARRAY, MAP, MULTISET, ROW and VECTOR types
    Unset,       \* nullable is not configured
    Defaults,    \* default values
    NoDefault,   \* the field has no default value
    New,         \* the ID of a field that was not in the table, or not configured
    First,       \* the target of a move to the front
    Tables,      \* the tables that may be updated, as Terraform state has them
    Configs,     \* the configured fields
    MaxFieldID   \* maxPaimonFieldID

FieldIDs == 0..MaxFieldID
Fields == [id : FieldIDs \cup {New}, name : Names, type : Types, nullable : BOOLEAN,
           default : Defaults \cup {NoDefault}]
ConfiguredFields == [id : FieldIDs \cup {New}, name : Names, type : Types,
                     nullable : BOOLEAN \cup {Unset}, default : Defaults \cup {NoDefault}]

IdsOf(fields) == {fields[i].id : i \in DOMAIN fields}
NamesOf(fields) == {fields[i].name : i \in DOMAIN fields}

\* No two fields share an ID, or a name.
DistinctIds(fields) == \A i, j \in DOMAIN fields : fields[i].id = fields[j].id => i = j
DistinctNames(fields) == \A i, j \in DOMAIN fields : fields[i].name = fields[j].name => i = j

ASSUME SentinelAssumption ==
    NoDefault \notin Defaults /\ New \notin FieldIDs /\ First \notin Names /\ Unset \notin BOOLEAN
ASSUME TypesAssumption == Composite \subseteq Types
ASSUME MaxFieldIDAssumption == MaxFieldID \in Nat

\* A table of the catalog: columns with IDs, the IDs used inside them, the
\* partition columns, and the option add-column-before-partition.
ASSUME TablesAssumption ==
    \A t \in Tables :
        /\ t.fields \in Seq(Fields)
        /\ IdsOf(t.fields) \subseteq FieldIDs
        /\ DistinctIds(t.fields) /\ DistinctNames(t.fields)
        /\ t.nested \subseteq FieldIDs
        /\ t.partition \subseteq NamesOf(t.fields)
        /\ t.beforePartition \in BOOLEAN
ASSUME ConfigsAssumption == \A config \in Configs : config \in Seq(ConfiguredFields)

VARIABLES
    before,           \* the fields in state
    nested,           \* IDs used inside the columns in state
    partition,        \* partition columns
    beforePartition,  \* option add-column-before-partition
    configured,       \* the fields in the configuration
    planned,          \* the fields in the plan, new ones without an ID
    after,            \* the planned fields with IDs
    pc,               \* the loop of the update, or why it ended
    index,            \* the field the loop is at
    now,              \* retainedNames: the names of retained fields
    progress,         \* a rename was possible in this pass
    order,            \* currentOrder: the expected order of names
    columns           \* the columns after the changes so far, with the field they hold data of

input == <<before, nested, partition, beforePartition, configured>>
vars == <<before, nested, partition, beforePartition, configured, planned, after,
          pc, index, now, progress, order, columns>>

-----------------------------------------------------------------------------
FieldOf(fields, id) == fields[CHOOSE i \in DOMAIN fields : fields[i].id = id]

-----------------------------------------------------------------------------
(* ModifyPlan.                                                             *)

\* stabilizePlannedFieldIdentities: a field without ID is the column it names.
\* Mutant: the column in its place.
IdentityByPlace(field, i) ==
    IF field.id # New THEN field.id
    ELSE IF i \in DOMAIN before THEN before[i].id ELSE New
Identity(field, i) ==
    IF field.id # New THEN field.id
    ELSE IF field.name \in NamesOf(before)
           THEN before[CHOOSE j \in DOMAIN before : before[j].name = field.name].id
           ELSE New

\* stabilizeFieldNullability: not configured, a retained column keeps its own.
Nullability(field, id) ==
    IF field.nullable # Unset THEN field.nullable
    ELSE IF id \in IdsOf(before) THEN FieldOf(before, id).nullable ELSE TRUE

Stabilized ==
    [i \in DOMAIN configured |->
        LET id == Identity(configured[i], i)
        IN  [configured[i] EXCEPT !.id = id, !.nullable = Nullability(configured[i], id)]]

\* validateAddedFieldIDs: IDs of new fields are the catalog's to choose.
AddsByID == ~(IdsOf(configured) \subseteq IdsOf(before) \cup {New})

\* compositeFieldTypesRequireReplace, keyFieldTypesRequireReplace and
\* newNonNullableFieldsRequireReplace.
ChangesShape(old, plan) == old.type # plan.type /\ (old.type \in Composite \/ plan.type \in Composite)
ChangesKey(old, plan) == old.type # plan.type /\ (old.name \in partition \/ plan.name \in partition)

RequiresReplace(fields) ==
    \E i \in DOMAIN fields :
        IF fields[i].id \in IdsOf(before)
          THEN LET old == FieldOf(before, fields[i].id)
               IN  ChangesShape(old, fields[i]) \/ ChangesKey(old, fields[i])
          ELSE ~fields[i].nullable

-----------------------------------------------------------------------------
(* Update: IDs of new fields, and the loops of tableFieldSchemaChanges.    *)

\* What schemaFromResourceModel and allocateFieldIDs let through; of a partition
\* key validateKeyFields asks only that some planned field has its name.
Convertible ==
    /\ DistinctNames(planned)
    /\ partition \subseteq NamesOf(planned)
    /\ \A i, j \in DOMAIN planned : planned[i].id = planned[j].id => i = j \/ planned[i].id = New

\* assignTemporaryIDsToNewFields: new fields get the IDs above every ID in use.
\* Mutant: IDs inside columns are not reserved.
ReservedTopLevel == IdsOf(before) \cup (IdsOf(after) \ {New})
Reserved == IdsOf(before) \cup nested \cup (IdsOf(after) \ {New})
NextID(used) == IF used = {} THEN 0 ELSE (CHOOSE id \in used : \A other \in used : other <= id) + 1

KeptIDs == IdsOf(before) \cap IdsOf(after)
Retained(field) == field.id \in KeptIDs

\* A rename waits while another retained field still has the wanted name.
\* Mutant: nobody waits.
NeverTaken(id) == FALSE
Taken(id) == \E other \in KeptIDs \ {id} : now[other] = FieldOf(after, id).name
Pending(id) == now[id] # FieldOf(after, id).name

\* Where the catalog is expected to put an added column.
\* Mutant: always at the end.
AddedLast == Len(order) + 1
AddedAt ==
    LET partitions == {i \in DOMAIN order : order[i] \in partition}
    IN  IF beforePartition /\ partitions # {}
          THEN CHOOSE i \in partitions : \A j \in partitions : i <= j
          ELSE Len(order) + 1

MoveTo(s, from, to) == InsertAt(RemoveAt(s, from), to, s[from])

-----------------------------------------------------------------------------
(* The catalog (external): the changes it accepts, and what they do.       *)

Position(name) == CHOOSE i \in DOMAIN columns : columns[i].name = name
Exists(name) == name \in NamesOf(columns)

CanUpdateType(name, type) ==
    /\ Exists(name)
    /\ name \notin partition
    /\ {type, columns[Position(name)].type} \cap Composite = {}
CanDrop(name) == Exists(name) /\ name \notin partition
CanRename(name, new) == Exists(name) /\ name \notin partition /\ ~Exists(new)
CanAdd(name, nullable) == ~Exists(name) /\ nullable
CanMove(name, target) == Exists(name) /\ (target = First \/ Exists(target))

PlaceForNew ==
    LET partitions == {i \in DOMAIN columns : columns[i].name \in partition}
    IN  IF beforePartition /\ partitions # {}
          THEN CHOOSE i \in partitions : \A j \in partitions : i <= j
          ELSE Len(columns) + 1

Moved(name, target) ==
    LET others == RemoveAt(columns, Position(name))
        place == IF target = First THEN 1
                 ELSE 1 + CHOOSE i \in DOMAIN others : others[i].name = target
    IN  MoveTo(columns, Position(name), place)

\* One change, or the end of a list that the catalog would refuse: what is listed
\* after that change is not followed.
Change(possible, outcome) ==
    IF possible THEN columns' = outcome /\ UNCHANGED pc
    ELSE pc' = "rejected" /\ UNCHANGED columns

-----------------------------------------------------------------------------
Init ==
    /\ configured \in Configs
    /\ \E t \in Tables :
        /\ before = t.fields
        /\ nested = t.nested
        /\ partition = t.partition
        /\ beforePartition = t.beforePartition
    /\ planned = <<>>
    /\ after = <<>>
    /\ pc = "configured"
    /\ index = 1
    /\ now = <<>>
    /\ progress = FALSE
    /\ order = <<>>
    /\ columns = before

ModifyPlan ==
    /\ pc = "configured"
    /\ planned' = Stabilized
    /\ pc' = IF AddsByID THEN "addsByID"
             ELSE IF RequiresReplace(Stabilized) THEN "replace" ELSE "planned"
    /\ UNCHANGED <<input, after, index, now, progress, order, columns>>

\* Update: the planned fields are checked.
Convert ==
    /\ pc = "planned"
    /\ IF Convertible THEN pc' = "ids" /\ after' = planned
       ELSE pc' = "inconvertible" /\ UNCHANGED after
    /\ UNCHANGED <<input, planned, index, now, progress, order, columns>>

AssignTemporaryID ==
    /\ pc = "ids"
    /\ index \in DOMAIN after
    /\ IF after[index].id # New THEN UNCHANGED <<pc, after>>
       ELSE IF NextID(Reserved) > MaxFieldID THEN pc' = "exhausted" /\ UNCHANGED after
       ELSE after' = [after EXCEPT ![index].id = NextID(Reserved)] /\ UNCHANGED pc
    /\ index' = index + 1
    /\ UNCHANGED <<input, planned, now, progress, order, columns>>

\* The loop over the attributes of retained fields; no change of one column
\* depends on the changes of another, so this is one step.
UpdateColumns ==
    LET plan(i) == FieldOf(after, before[i].id)
        retained == {i \in DOMAIN before : Retained(before[i])}
    IN  /\ pc = "ids"
        /\ index \notin DOMAIN after
        /\ IF \A i \in retained :
                  before[i].type # plan(i).type => CanUpdateType(before[i].name, plan(i).type)
             THEN /\ columns' = [i \in DOMAIN columns |->
                                   IF i \in retained
                                     THEN [columns[i] EXCEPT !.type = plan(i).type,
                                             !.nullable = plan(i).nullable, !.default = plan(i).default]
                                     ELSE columns[i]]
                  /\ pc' = "drops"
             ELSE pc' = "rejected" /\ UNCHANGED columns
        /\ index' = 1
        /\ UNCHANGED <<input, planned, after, now, progress, order>>

\* The loop that drops columns, and the one that lists the retained ones.
DropColumn ==
    /\ pc = "drops"
    /\ index \in DOMAIN before
    /\ LET field == before[index]
       IN  IF Retained(field)
             THEN order' = Append(order, FieldOf(after, field.id).name) /\ UNCHANGED <<pc, columns>>
             ELSE /\ Change(CanDrop(field.name), RemoveAt(columns, Position(field.name)))
                  /\ UNCHANGED order
    /\ index' = index + 1
    /\ UNCHANGED <<input, planned, after, now, progress>>

\* The condition of the loop of renames comes first: index stays at the end.
DropsEnd ==
    /\ pc = "drops"
    /\ index \notin DOMAIN before
    /\ now' = [id \in KeptIDs |-> FieldOf(before, id).name]
    /\ progress' = TRUE
    /\ pc' = "renames"
    /\ UNCHANGED <<input, planned, after, index, order, columns>>

\* One field of a pass of renames.
RenameColumn ==
    /\ pc = "renames"
    /\ index \in DOMAIN before
    /\ LET id == before[index].id
           new == FieldOf(after, id).name
       IN  IF id \in KeptIDs /\ Pending(id) /\ ~Taken(id)
             THEN /\ Change(CanRename(before[index].name, new),
                            [columns EXCEPT ![Position(before[index].name)].name = new])
                  /\ now' = [now EXCEPT ![id] = new]
                  /\ progress' = TRUE
             ELSE UNCHANGED <<pc, columns, now, progress>>
    /\ index' = index + 1
    /\ UNCHANGED <<input, planned, after, order>>

\* Passes are made until nothing is pending, from none at all on; one without
\* progress is the last.
\* Mutant: one pass only.
RenamePassEndsOnce ==
    /\ pc = "renames"
    /\ index \notin DOMAIN before
    /\ pc' = IF \A id \in KeptIDs : ~Pending(id) THEN "adds"
             ELSE IF \A id \in KeptIDs : now[id] = FieldOf(before, id).name /\ progress THEN "renames" ELSE "cycle"
    /\ index' = 1
    /\ progress' = FALSE
    /\ UNCHANGED <<input, planned, after, now, order, columns>>
RenamePassEnds ==
    /\ pc = "renames"
    /\ index \notin DOMAIN before
    /\ pc' = IF \A id \in KeptIDs : ~Pending(id) THEN "adds"
             ELSE IF progress THEN "renames" ELSE "cycle"
    /\ index' = 1
    /\ progress' = FALSE
    /\ UNCHANGED <<input, planned, after, now, order, columns>>

\* The loop that adds columns, and the one that expects where; a default value
\* follows as a change of its own, which cannot fail.
AddColumn ==
    /\ pc = "adds"
    /\ index \in DOMAIN after
    /\ LET field == after[index]
       IN  IF field.id \in IdsOf(before) THEN UNCHANGED <<pc, columns, order>>
           ELSE /\ Change(CanAdd(field.name, field.nullable),
                          InsertAt(columns, PlaceForNew, [field EXCEPT !.id = New]))
                /\ order' = InsertAt(order, AddedAt, field.name)
    /\ index' = index + 1
    /\ UNCHANGED <<input, planned, after, now, progress>>

AddsEnd ==
    /\ pc = "adds"
    /\ index \notin DOMAIN after
    /\ pc' = "moves"
    /\ index' = 1
    /\ UNCHANGED <<input, planned, after, now, progress, order, columns>>

\* Position changes put the columns in place from the front.
MoveColumn ==
    /\ pc = "moves"
    /\ index \in DOMAIN after
    /\ LET name == after[index].name
           current == CHOOSE i \in DOMAIN order : order[i] = name
           target == IF index = 1 THEN First ELSE after[index - 1].name
       IN  IF current = index THEN UNCHANGED <<pc, columns, order>>
           ELSE Change(CanMove(name, target), Moved(name, target))
                /\ order' = MoveTo(order, current, index)
    /\ index' = index + 1
    /\ UNCHANGED <<input, planned, after, now, progress>>

MovesEnd ==
    /\ pc = "moves"
    /\ index \notin DOMAIN after
    /\ pc' = "done"
    /\ UNCHANGED <<input, planned, after, index, now, progress, order, columns>>

Refusals == {"addsByID", "replace", "inconvertible", "exhausted", "cycle", "rejected"}
Ended == pc \in Refusals \cup {"done"} /\ UNCHANGED vars

Next ==
    \/ ModifyPlan \/ Convert \/ AssignTemporaryID \/ UpdateColumns
    \/ DropColumn \/ DropsEnd \/ RenameColumn \/ RenamePassEnds
    \/ AddColumn \/ AddsEnd \/ MoveColumn \/ MovesEnd \/ Ended

Spec == Init /\ [][Next]_vars

-----------------------------------------------------------------------------
(* What the update promises.                                               *)

\* A partition column is planned to lose its place: it is dropped or renamed,
\* and its name, if at all, given to another field.
GivesUpPartition ==
    \E i \in DOMAIN before :
        /\ before[i].name \in partition
        /\ ~\E j \in DOMAIN planned : planned[j].id = before[i].id /\ planned[j].name = before[i].name

\* The catalog refuses a list exactly when a partition column is to be dropped or
\* renamed.  Every other list it accepts: each change addresses a column that the
\* changes before it have left under that name, and never one that exists
\* already; none changes the type of a partition or composite column or adds a
\* column that must not be null, which the replacement rules of ModifyPlan keep
\* out.
RejectedOnlyForPartition ==
    pc \in {"rejected", "adds", "moves", "done"} => (pc = "rejected" <=> GivesUpPartition)

\* No list is refused at all: drops and renames are made in place, and a change
\* of the table's keys is planned as a replacement, never sent as a change in
\* place (docs/resources/table.md:124-133, resource_table.go:314).
NeverRejected == pc # "rejected"

\* Once applied, the changes turn the table into the planned one, column by
\* column in the planned order, and a retained field still holds its own data:
\* it was renamed and moved, never dropped and added again.
AppliedIsPlanned == pc = "done" => columns = planned

\* An update never discards data the configuration still asks for: a column of
\* the table that is configured by its ID, or by its name without an ID, ends
\* under its configured name with its data, wherever in the list it stands;
\* all other data in the table is gone.
DataFollowsIdentity ==
    pc = "done" =>
      \A i \in DOMAIN before :
        LET asked == {j \in DOMAIN configured :
                        \/ configured[j].id = before[i].id
                        \/ configured[j].id = New /\ configured[j].name = before[i].name}
        IN  {columns[j].name : j \in {k \in DOMAIN columns : columns[k].id = before[i].id}}
              = {configured[j].name : j \in asked}

\* An update is refused as a rename cycle exactly when some retained fields
\* exchange their names among themselves.
RenameCycle ==
    \E ids \in SUBSET {id \in KeptIDs : FieldOf(before, id).name # FieldOf(planned, id).name} :
        /\ ids # {}
        /\ {FieldOf(planned, id).name : id \in ids} = {FieldOf(before, id).name : id \in ids}
RefusedOnlyForCycle == pc \in {"cycle", "adds", "moves", "done"} => (pc = "cycle" <=> RenameCycle)

\* New fields never reuse an ID of the table, of a column about to be dropped
\* or of a field inside a column, and no two fields share one.
NewIDsAreFresh ==
    pc \in {"drops", "renames", "cycle", "adds", "moves", "done"} =>
      /\ IdsOf(after) \subseteq FieldIDs
      /\ DistinctIds(after)
      /\ \A i \in DOMAIN after : planned[i].id = New => after[i].id \notin IdsOf(before) \cup nested

Turns == [configured |-> 7, planned |-> 6, ids |-> 5, drops |-> 4, renames |-> 3, adds |-> 2, moves |-> 1]
TurnsLeft(place) == IF place \in DOMAIN Turns THEN Turns[place] ELSE 0

PendingIDs == {id \in KeptIDs : Pending(id)}
LoopLength == Len(IF pc \in {"drops", "renames"} THEN before ELSE after)

\* Every step of an update takes it towards its end: to a later loop, or further
\* in the list the loop runs over; the renames start on their list again only
\* after a pass with progress, which has given a field its planned name for good,
\* so there are no more passes than fields to rename.
UpdateAdvances ==
    [][\/ TurnsLeft(pc') < TurnsLeft(pc)
       \/ pc' = pc /\ pc = "renames" /\ PendingIDs' \subseteq PendingIDs /\ PendingIDs' # PendingIDs
       \/ pc' = pc /\ pc = "renames" /\ PendingIDs' = PendingIDs /\ progress /\ ~progress'
       \/ /\ pc' = pc /\ index <= LoopLength /\ index' = index + 1
          /\ pc = "renames" => PendingIDs' = PendingIDs /\ progress' = progress]_vars

=============================================================================
