-------------------------- MODULE MCTableResource --------------------------
(* Four option keys: one the catalog can change, one it cannot, "type" and  *)
(* "primary-key"; two shapes of columns, one of them with two sets of field *)
(* IDs, and a change that is possible in one direction only.                *)
EXTENDS TableResource, TLC

CONSTANTS
    mutable, immutable, type, pk,            \* keys
    v1, v2, low, upper, a, spaced, empty,    \* values
    s1, s1x, s2,                             \* schemas
    A                                        \* the key list of one field

MCFolded == [v \in {v1, v2, low, upper, a, spaced, empty} |-> IF v = upper THEN low ELSE v]
MCParsed == [v \in {v1, v2, low, upper, a, spaced, empty} |-> IF v \in {a, spaced} THEN A ELSE NoKeys]
MCJoined == [list \in {NoKeys, A} |-> IF list = A THEN a ELSE empty]
MCShape == [s \in {s1, s1x, s2} |-> IF s = s1x THEN s1 ELSE s]
MCAlterable == ({s1, s1x, s2} \X {s1, s1x, s2}) \ {<<s2, s1>>, <<s2, s1x>>}

With(opts) == opts @@ [k \in {mutable, immutable, type, pk} |-> Absent]
MCDefaults == With(immutable :> v1)
MCPlans == {
    [schema |-> s1, opts |-> With(immutable :> v1 @@ mutable :> v1)],
    [schema |-> s2, opts |-> With(mutable :> v2 @@ type :> upper)],
    [schema |-> s1, opts |-> With(pk :> spaced @@ type :> low)]}
MCOtherTables == {
    [schema |-> s1, opts |-> With(immutable :> v2 @@ mutable :> v2), keys |-> NoKeys],
    [schema |-> s1x, opts |-> With(mutable :> v2 @@ type :> low), keys |-> A]}
=============================================================================
