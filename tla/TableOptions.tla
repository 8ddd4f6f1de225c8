---------------------------- MODULE TableOptions ----------------------------
(***************************************************************************)
(* The options of a table as maps from option keys to values.  Terraform   *)
(* manages some keys, the catalog may hold others.  Two keys are special:  *)
(* "primary-key" is never stored as an option, the catalog keeps the key   *)
(* list and Terraform keeps the user's spelling of it; "type" is compared  *)
(* without regard to case and has a default.                               *)
(*                                                                         *)
(* Pure operators; all values are known (Terraform plans again with known  *)
(* values before it applies a plan).                                       *)
(***************************************************************************)
EXTENDS FiniteSets

CONSTANTS
    Keys,         \* option keys
    Values,       \* option values
    Absent,       \* the key is not set, or not managed
    PrimaryKey,   \* the key "primary-key"
    TypeKey,      \* the key "type"
    Immutable,    \* immutableTableOptions
    DefaultType,  \* the value "table"
    Folded,       \* a value without regard to case
    KeyLists,     \* lists of primary key fields
    NoKeys,       \* the empty list
    Parsed,       \* parsePrimaryKeyOption: the list a value stands for
    Joined        \* the value that spells a list with single commas

ASSUME KeysAssumption ==
    /\ {PrimaryKey, TypeKey} \subseteq Immutable
    /\ Immutable \subseteq Keys
    /\ PrimaryKey # TypeKey
    /\ IsFiniteSet(Keys)
ASSUME ValuesAssumption ==
    /\ Absent \notin Values
    /\ DefaultType \in Values
    /\ Folded \in [Values -> Values]
ASSUME KeyListsAssumption ==
    /\ NoKeys \in KeyLists
    /\ Parsed \in [Values -> KeyLists]
    /\ Joined \in [KeyLists -> Values]
    /\ \A list \in KeyLists : Parsed[Joined[list]] = list

Options == [Keys -> Values \cup {Absent}]
NoOptions == [k \in Keys |-> Absent]

\* tableOptionsWithPrimaryKeys: the catalog's options with its key list as one.
WithPrimaryKeys(opts, keys) == [opts EXCEPT ![PrimaryKey] = Joined[keys]]

KeysOf(value) == IF value = Absent THEN NoKeys ELSE Parsed[value]

TypeOf(value) == Folded[IF value = Absent THEN DefaultType ELSE value]

\* Mutant: every key of the catalog counts as managed.
EffectiveManagedAll(before, after, remote) ==
    [k \in Keys |-> IF before[k] = Absent THEN remote[k] ELSE before[k]]

\* effectiveManagedTableOptions: starting to manage an existing option is not
\* a change of the table.
EffectiveManaged(before, after, remote) ==
    [k \in Keys |-> IF before[k] = Absent /\ after[k] # Absent THEN remote[k] ELSE before[k]]

\* immutableTableOptionsChanged, one key with its values before and after.
\* Mutant: only options that are set before and after can change.
ChangesIfBothSet(k, before, after) == before # Absent /\ after # Absent /\ before # after
Changes(k, before, after) ==
    CASE k = PrimaryKey -> KeysOf(before) # KeysOf(after)
      [] k = TypeKey -> TypeOf(before) # TypeOf(after)
      [] OTHER -> before # after

ImmutableChanged(before, after) == \E k \in Immutable : Changes(k, before[k], after[k])

\* diffTableOptions: what an alter has to remove and to set.
Differs(k, before, after) ==
    /\ k # PrimaryKey
    /\ before[k] # after[k]
    /\ k = TypeKey => TypeOf(before[k]) # TypeOf(after[k])

Removals(before, after) == {k \in Keys : Differs(k, before, after) /\ after[k] = Absent}
Updates(before, after) ==
    [k \in Keys |-> IF Differs(k, before, after) THEN after[k] ELSE Absent]

\* Mutant: the catalog's spelling replaces the user's.
SyncManagedVerbatim(managed, remote) ==
    [k \in Keys |-> IF managed[k] = Absent THEN Absent ELSE remote[k]]

\* syncManagedTableOptions: managed keys take the catalog's value, but the user's
\* spelling stays when it means the same.
SyncManaged(managed, remote) ==
    [k \in Keys |->
       CASE managed[k] = Absent -> Absent
         [] k = PrimaryKey /\ KeysOf(managed[k]) = KeysOf(remote[k]) -> managed[k]
         [] k = TypeKey /\ TypeOf(managed[k]) = TypeOf(remote[k]) -> managed[k]
         [] OTHER -> remote[k]]

\* tableMatchesPlannedSchema, the options: planned ones are there, others do
\* not matter.
Holds(remote, planned) ==
    \A k \in Keys \ {PrimaryKey} : planned[k] # Absent =>
        \/ remote[k] = planned[k]
        \/ k = TypeKey /\ TypeOf(remote[k]) = TypeOf(planned[k])

\* exactOptions: the catalog has as many options as the plan.
SetKeys(opts) == {k \in Keys \ {PrimaryKey} : opts[k] # Absent}
SameCount(remote, planned) == Cardinality(SetKeys(remote)) = Cardinality(SetKeys(planned))

\* stabilizeTableKeys: the planned key list.
PlannedKeys(config, managed, keys) ==
    IF config[PrimaryKey] # Absent THEN KeysOf(config[PrimaryKey])
    ELSE IF managed[PrimaryKey] # Absent THEN NoKeys
    ELSE keys

=============================================================================
