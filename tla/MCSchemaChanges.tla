-------------------------- MODULE MCSchemaChanges --------------------------
(* Tables of two and three columns against every configuration of at most   *)
(* four: all drops, additions, orders and renamings, by ID, by name or by    *)
(* both.  Since columns do not depend on each other's attributes, a          *)
(* configuration revises them in one of a few ways.                          *)
EXTENDS SchemaChanges

CONSTANTS a, b, c, d, e, MaxColumns

Field(id, name, type, nullable, default) ==
    [id |-> id, name |-> name, type |-> type, nullable |-> nullable, default |-> default]

TwoColumns == <<Field(0, a, "t1", TRUE, NoDefault), Field(1, b, "t1", FALSE, "v1")>>
ThreeColumns == TwoColumns \o <<Field(2, c, "row", TRUE, NoDefault)>>

\* A nested field may take the next-to-last ID, so that IDs run out.
MCTables ==
    [fields : {TwoColumns}, nested : {{}, {MaxFieldID - 1}}, partition : {{}, {b}}, beforePartition : BOOLEAN]
      \cup [fields : {ThreeColumns}, nested : {{}, {MaxFieldID - 1}}, partition : {{}, {b}}, beforePartition : BOOLEAN]

\* The attributes of the field when the configuration leaves them alone.
Own(id, name) ==
    LET same == {i \in 1..3 : IF id = New THEN ThreeColumns[i].name = name ELSE ThreeColumns[i].id = id}
    IN  IF same = {} THEN Field(id, name, "t1", Unset, NoDefault)
        ELSE [ThreeColumns[CHOOSE i \in same : TRUE] EXCEPT !.id = id, !.name = name, !.nullable = Unset]

Revised(revision, field, i) ==
    CASE revision = "change" -> [field EXCEPT !.type = IF @ = "row" THEN @ ELSE "t2",
                                        !.nullable = TRUE, !.default = "v1"]
      [] revision = "shape" -> IF i = 1 THEN [field EXCEPT !.type = IF @ = "row" THEN "t1" ELSE "row"]
                             ELSE field
      [] revision = "require" -> [field EXCEPT !.nullable = FALSE]
      [] OTHER -> field

Injective(n, S) == {f \in [1..n -> S] : \A i, j \in 1..n : f[i] = f[j] => i = j \/ f[i] = New}

ConfigsOf(n, ids, revisions) ==
    {[i \in 1..n |-> Revised(revision, Own(id[i], name[i]), i)] :
        id \in Injective(n, ids), name \in Injective(n, Names), revision \in revisions}

MCConfigs ==
    ConfigsOf(MaxColumns, {0, 1, 2, New}, {"keep"})
      \cup UNION {ConfigsOf(n, {0, 1, 2, New}, {"keep", "change", "shape", "require"}) :
                   n \in 1..(MaxColumns - 1)}
=============================================================================
