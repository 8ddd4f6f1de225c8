------------------------ MODULE SchemaChanges_proofs ------------------------
(***************************************************************************)
(* The loops of SchemaChanges, for all tables and configurations.          *)
(***************************************************************************)
EXTENDS SchemaChanges, FiniteSetTheorems, SequenceTheorems, WellFoundedInduction, TLAPS

-----------------------------------------------------------------------------
(* The inductive invariant.                                                *)

Altering == {"drops", "renames", "cycle", "adds", "moves", "done"}

\* What Init says of the table and the configuration.
InputInv ==
    /\ before \in Seq(Fields) /\ IdsOf(before) \subseteq FieldIDs
    /\ DistinctIds(before) /\ DistinctNames(before)
    /\ nested \subseteq FieldIDs
    /\ partition \subseteq NamesOf(before)
    /\ beforePartition \in BOOLEAN
    /\ configured \in Seq(ConfiguredFields)

\* The update starts from the plan of ModifyPlan.
PlanInv ==
    pc \in {"planned", "ids"} \cup Altering =>
        /\ planned = Stabilized
        /\ ~AddsByID
        /\ ~RequiresReplace(planned)

SameButID(field, plan) ==
    /\ field.name = plan.name /\ field.type = plan.type
    /\ field.nullable = plan.nullable /\ field.default = plan.default

\* The IDs given so far.
IdsInv ==
    pc = "ids" =>
        /\ Convertible
        /\ after \in Seq(Fields)
        /\ Len(after) = Len(planned)
        /\ index \in Nat \ {0}
        /\ \A k \in DOMAIN after :
            /\ SameButID(after[k], planned[k])
            /\ planned[k].id # New => after[k].id = planned[k].id
            /\ planned[k].id = New /\ after[k].id # New =>
                 after[k].id \in FieldIDs /\ after[k].id \notin IdsOf(before) \cup nested
            /\ k < index => after[k].id # New
        /\ \A k, l \in DOMAIN after : after[k].id = after[l].id => k = l \/ after[k].id = New

\* What the loops may rely on.
PlanOK ==
    /\ planned \in Seq(Fields) /\ after \in Seq(Fields)
    /\ Len(after) = Len(planned)
    /\ IdsOf(after) \subseteq FieldIDs
    /\ DistinctIds(after) /\ DistinctNames(after)
    /\ \A l \in DOMAIN after :
        /\ after[l].id \in IdsOf(before) => planned[l] = after[l]
        /\ after[l].id \notin IdsOf(before) =>
             /\ planned[l].id = New /\ SameButID(after[l], planned[l])
             /\ after[l].nullable = TRUE
             /\ after[l].id \notin nested
    /\ \A j \in DOMAIN before, l \in DOMAIN after :
        before[j].id = after[l].id /\ before[j].type # after[l].type =>
            /\ before[j].type \notin Composite /\ after[l].type \notin Composite
            /\ before[j].name \notin partition

Named(field, name) == [field EXCEPT !.name = name]

\* A column of the table with the planned attributes, under its own name.
Updated(j) ==
    IF Retained(before[j]) THEN Named(FieldOf(after, before[j].id), before[j].name)
    ELSE before[j]

PlanName(j) == FieldOf(after, before[j].id).name

\* The loop of drops has retained columns behind it, whose planned names are
\* the order, and all columns before it.
DropsInv ==
    pc = "drops" =>
        /\ index \in 1..(Len(before) + 1)
        /\ columns \in Seq(Fields) /\ order \in Seq(Names)
        /\ Len(columns) = Len(order) + (Len(before) + 1 - index)
        /\ \A k \in 1..Len(order) :
            \E j \in 1..(index - 1) :
                /\ Retained(before[j])
                /\ columns[k] = Updated(j)
                /\ order[k] = PlanName(j)
        /\ \A k \in (Len(order) + 1)..Len(columns) : columns[k] = Updated(index + k - (Len(order) + 1))
        /\ \A j \in 1..(index - 1) : Retained(before[j]) =>
            \E k \in 1..Len(order) : columns[k] = Updated(j)
        /\ DistinctIds(columns) /\ DistinctNames(columns)

\* The columns are the retained ones, under their names of the moment, which
\* differ; fields of a rename cycle keep their names; a pass without progress
\* leaves only blocked fields behind.
RenamesInv ==
    pc \in {"renames", "cycle"} =>
        /\ index \in Nat \ {0}
        /\ now \in [KeptIDs -> Names]
        /\ \A id \in KeptIDs : now[id] \in {FieldOf(before, id).name, FieldOf(after, id).name}
        /\ \A id, other \in KeptIDs : now[id] = now[other] => id = other
        /\ columns \in Seq(Fields) /\ order \in Seq(Names)
        /\ Len(columns) = Len(order)
        /\ \A k \in DOMAIN columns :
            /\ columns[k].id \in KeptIDs
            /\ columns[k] = Named(FieldOf(after, columns[k].id), now[columns[k].id])
            /\ order[k] = FieldOf(after, columns[k].id).name
        /\ \A id \in KeptIDs : \E k \in DOMAIN columns : columns[k].id = id
        /\ DistinctIds(columns)
        /\ pc = "renames" /\ ~progress =>
            \A j \in 1..(index - 1) : j \in DOMAIN before =>
                before[j].id \notin KeptIDs \/ ~Pending(before[j].id) \/ Taken(before[j].id)
        /\ pc = "cycle" =>
            /\ \E id \in KeptIDs : Pending(id)
            /\ \A id \in KeptIDs : Pending(id) => Taken(id)

ExchangeNames(ids) ==
    /\ ids \subseteq {id \in KeptIDs : FieldOf(before, id).name # FieldOf(planned, id).name}
    /\ {FieldOf(planned, id).name : id \in ids} = {FieldOf(before, id).name : id \in ids}
CycleInv ==
    /\ pc \in {"renames", "cycle"} =>
        \A ids \in SUBSET KeptIDs : ExchangeNames(ids) =>
            \A id \in ids : now[id] = FieldOf(before, id).name
    /\ pc \in {"adds", "moves", "done"} => \A ids \in SUBSET KeptIDs : ExchangeNames(ids) => ids = {}

\* The columns are planned ones, those the loop has added and all that were
\* retained, in the expected order.
Present(l) == after[l].id \in IdsOf(before) \/ pc # "adds" \/ l < index
AddsInv ==
    pc \in {"adds", "moves"} =>
        /\ index \in Nat \ {0}
        /\ columns \in Seq(Fields) /\ order \in Seq(Names)
        /\ Len(columns) = Len(order)
        /\ \A k \in DOMAIN columns : order[k] = columns[k].name
        /\ DistinctNames(columns)
        /\ \A k \in DOMAIN columns : \E l \in DOMAIN after : Present(l) /\ columns[k] = planned[l]
        /\ \A l \in DOMAIN after : Present(l) => \E k \in DOMAIN columns : columns[k] = planned[l]

\* Columns are in place up to where the loop of moves is.
MovesInv ==
    pc = "moves" =>
        /\ index <= Len(after) + 1
        /\ index <= Len(columns) + 1
        /\ \A l \in 1..(index - 1) : columns[l] = planned[l]

\* A partition column that loses its place stops the list: neither the drops nor
\* the renames get past one.
PartitionInv ==
    /\ pc = "drops" =>
        \A j \in DOMAIN before : j < index /\ before[j].name \in partition => before[j].id \in KeptIDs
    /\ pc \in {"renames", "cycle"} =>
        \A j \in DOMAIN before : before[j].name \in partition =>
            before[j].id \in KeptIDs /\ now[before[j].id] = before[j].name
    /\ pc \in {"adds", "moves", "done"} => ~GivesUpPartition
    /\ pc = "rejected" => GivesUpPartition

UpdateInv ==
    /\ InputInv
    /\ PartitionInv
    /\ pc \in {"configured", "planned", "ids"} => columns = before /\ order = <<>>
    /\ pc \in {"configured", "planned"} => index = 1
    /\ PlanInv /\ IdsInv
    /\ pc \in Altering => PlanOK
    /\ DropsInv /\ RenamesInv /\ CycleInv /\ AddsInv /\ MovesInv
    /\ pc = "done" => columns = planned

-----------------------------------------------------------------------------
(* Sequences with an element removed, inserted or moved.                   *)

LEMMA RemoveAtProperties ==
  ASSUME NEW S, NEW s \in Seq(S), NEW i \in 1..Len(s)
  PROVE  /\ RemoveAt(s, i) \in Seq(S)
         /\ Len(RemoveAt(s, i)) = Len(s) - 1
         /\ \A k \in 1..(i - 1) : RemoveAt(s, i)[k] = s[k]
         /\ \A k \in i..(Len(s) - 1) : RemoveAt(s, i)[k] = s[k + 1]
<1> DEFINE left == SubSeq(s, 1, i - 1)
           right == SubSeq(s, i + 1, Len(s))
<1>1. Len(s) \in Nat /\ \A k \in 1..Len(s) : s[k] \in S
  BY ElementOfSeq, LenProperties
<1>2. /\ left \in Seq(S) /\ Len(left) = i - 1
      /\ \A k \in 1..(i - 1) : left[k] = s[k]
  BY <1>1, SubSeqProperties
<1>3. /\ right \in Seq(S) /\ Len(right) = Len(s) - i
      /\ \A k \in 1..(Len(s) - i) : right[k] = s[k + i]
  <2>1. \A k \in (i + 1)..Len(s) : s[k] \in S
    BY <1>1
  <2>2. /\ right \in Seq(S)
        /\ Len(right) = IF i + 1 <= Len(s) THEN Len(s) - (i + 1) + 1 ELSE 0
        /\ \A k \in 1..(Len(s) - (i + 1) + 1) : right[k] = s[(i + 1) + k - 1]
    BY <1>1, <2>1, SubSeqProperties
  <2> QED BY <1>1, <2>2
<1>4. RemoveAt(s, i) = left \o right
  BY DEF RemoveAt
<1>5. /\ left \o right \in Seq(S)
      /\ Len(left \o right) = Len(left) + Len(right)
      /\ \A k \in 1..(Len(left) + Len(right)) :
           (left \o right)[k] = IF k <= Len(left) THEN left[k] ELSE right[k - Len(left)]
  BY <1>2, <1>3, ConcatProperties
<1> HIDE DEF left, right
<1>6. \A k \in 1..(i - 1) : (left \o right)[k] = s[k]
  BY <1>1, <1>2, <1>3, <1>5
<1>7. \A k \in i..(Len(s) - 1) : (left \o right)[k] = s[k + 1]
  BY <1>1, <1>2, <1>3, <1>5
<1> QED BY <1>1, <1>2, <1>3, <1>4, <1>5, <1>6, <1>7

LEMMA InsertAtProperties ==
  ASSUME NEW S, NEW s \in Seq(S), NEW i \in 1..(Len(s) + 1), NEW e \in S
  PROVE  /\ InsertAt(s, i, e) \in Seq(S)
         /\ Len(InsertAt(s, i, e)) = Len(s) + 1
         /\ \A k \in 1..(i - 1) : InsertAt(s, i, e)[k] = s[k]
         /\ InsertAt(s, i, e)[i] = e
         /\ \A k \in (i + 1)..(Len(s) + 1) : InsertAt(s, i, e)[k] = s[k - 1]
<1> DEFINE left == SubSeq(s, 1, i - 1)
           right == SubSeq(s, i, Len(s))
           start == left \o <<e>>
<1>1. Len(s) \in Nat /\ \A k \in 1..Len(s) : s[k] \in S
  BY ElementOfSeq, LenProperties
<1>2. /\ left \in Seq(S) /\ Len(left) = i - 1
      /\ \A k \in 1..(i - 1) : left[k] = s[k]
  BY <1>1, SubSeqProperties
<1>3. /\ right \in Seq(S) /\ Len(right) = Len(s) - i + 1
      /\ \A k \in 1..(Len(s) - i + 1) : right[k] = s[k + i - 1]
  BY <1>1, SubSeqProperties
<1>4. <<e>> \in Seq(S) /\ Len(<<e>>) = 1 /\ <<e>>[1] = e
  OBVIOUS
<1>5. InsertAt(s, i, e) = start \o right
  BY DEF InsertAt
<1>6. /\ start \in Seq(S)
      /\ Len(start) = i
      /\ \A k \in 1..i : start[k] = IF k < i THEN s[k] ELSE e
  <2> HIDE DEF left
  <2>1. /\ start \in Seq(S)
        /\ Len(start) = Len(left) + Len(<<e>>)
        /\ \A k \in 1..(Len(left) + Len(<<e>>)) :
             start[k] = IF k <= Len(left) THEN left[k] ELSE <<e>>[k - Len(left)]
    BY <1>2, <1>4, ConcatProperties
  <2> HIDE DEF start
  <2> QED BY <1>1, <1>2, <1>4, <2>1
<1> HIDE DEF left, right, start
<1>7. /\ start \o right \in Seq(S)
      /\ Len(start \o right) = Len(start) + Len(right)
      /\ \A k \in 1..(Len(start) + Len(right)) :
           (start \o right)[k] = IF k <= Len(start) THEN start[k] ELSE right[k - Len(start)]
  BY <1>3, <1>6, ConcatProperties
<1>8. /\ \A k \in 1..(i - 1) : (start \o right)[k] = s[k]
      /\ (start \o right)[i] = e
  BY <1>1, <1>3, <1>6, <1>7
<1>9. \A k \in (i + 1)..(Len(s) + 1) : (start \o right)[k] = s[k - 1]
  BY <1>1, <1>3, <1>6, <1>7
<1> QED BY <1>1, <1>3, <1>5, <1>6, <1>7, <1>8, <1>9

\* Where the element at k comes from when one is inserted at i.
Origin(i, k) == IF k < i THEN k ELSE k - 1

LEMMA InsertAtOrigin ==
  ASSUME NEW S, NEW s \in Seq(S), NEW i \in 1..(Len(s) + 1), NEW e \in S
  PROVE  /\ InsertAt(s, i, e) \in Seq(S)
         /\ Len(InsertAt(s, i, e)) = Len(s) + 1
         /\ DOMAIN InsertAt(s, i, e) = 1..(Len(s) + 1)
         /\ InsertAt(s, i, e)[i] = e
         /\ \A k \in 1..(Len(s) + 1) \ {i} :
              Origin(i, k) \in 1..Len(s) /\ InsertAt(s, i, e)[k] = s[Origin(i, k)]
         /\ \A k, l \in 1..(Len(s) + 1) \ {i} : Origin(i, k) = Origin(i, l) => k = l
         /\ \A m \in 1..Len(s) : \E k \in 1..(Len(s) + 1) \ {i} : Origin(i, k) = m
<1> DEFINE t == InsertAt(s, i, e)
<1>1. /\ t \in Seq(S) /\ Len(t) = Len(s) + 1 /\ t[i] = e
      /\ \A k \in 1..(i - 1) : t[k] = s[k]
      /\ \A k \in (i + 1)..(Len(s) + 1) : t[k] = s[k - 1]
  <2>1. /\ InsertAt(s, i, e) \in Seq(S)
        /\ Len(InsertAt(s, i, e)) = Len(s) + 1
        /\ \A k \in 1..(i - 1) : InsertAt(s, i, e)[k] = s[k]
        /\ InsertAt(s, i, e)[i] = e
        /\ \A k \in (i + 1)..(Len(s) + 1) : InsertAt(s, i, e)[k] = s[k - 1]
    BY InsertAtProperties, SMTT(60)
  <2> QED BY <2>1
<1> HIDE DEF t
<1>2. DOMAIN t = 1..(Len(s) + 1) /\ Len(s) \in Nat
  BY <1>1
<1>3. ASSUME NEW k \in 1..(Len(s) + 1) \ {i}
      PROVE  Origin(i, k) \in 1..Len(s) /\ t[k] = s[Origin(i, k)]
  <2>1. CASE k < i
    BY <1>1, <1>2, <2>1 DEF Origin
  <2>2. CASE k > i
    BY <1>1, <1>2, <2>2 DEF Origin
  <2> QED BY <1>2, <2>1, <2>2
<1>4. \A k, l \in 1..(Len(s) + 1) \ {i} : Origin(i, k) = Origin(i, l) => k = l
  BY <1>2 DEF Origin
<1>5. ASSUME NEW m \in 1..Len(s)
      PROVE  \E k \in 1..(Len(s) + 1) \ {i} : Origin(i, k) = m
  <2>1. CASE m < i
    BY <1>2, <2>1 DEF Origin
  <2>2. CASE ~(m < i)
    <3>1. m + 1 \in 1..(Len(s) + 1) \ {i} /\ Origin(i, m + 1) = m
      BY <1>2, <2>2 DEF Origin
    <3> QED BY <3>1
  <2> QED BY <2>1, <2>2
<1>6. /\ t \in Seq(S) /\ Len(t) = Len(s) + 1 /\ DOMAIN t = 1..(Len(s) + 1) /\ t[i] = e
      /\ \A k \in 1..(Len(s) + 1) \ {i} : Origin(i, k) \in 1..Len(s) /\ t[k] = s[Origin(i, k)]
  BY <1>1, <1>2, <1>3
<1> QED BY <1>4, <1>5, <1>6 DEF t

\* Where the element at k comes from when one moves.
Source(from, to, k) ==
    IF k = to THEN from
    ELSE IF k < to THEN (IF k < from THEN k ELSE k + 1)
    ELSE (IF k - 1 < from THEN k - 1 ELSE k)

LEMMA MoveToProperties ==
  ASSUME NEW S, NEW s \in Seq(S), NEW from \in 1..Len(s), NEW to \in 1..Len(s)
  PROVE  /\ MoveTo(s, from, to) \in Seq(S)
         /\ Len(MoveTo(s, from, to)) = Len(s)
         /\ \A k \in 1..Len(s) :
              /\ Source(from, to, k) \in 1..Len(s)
              /\ MoveTo(s, from, to)[k] = s[Source(from, to, k)]
<1>1. Len(s) \in Nat /\ s[from] \in S
  BY ElementOfSeq, LenProperties
<1> DEFINE others == RemoveAt(s, from)
<1>2. /\ others \in Seq(S)
      /\ Len(others) = Len(s) - 1
      /\ \A k \in 1..(from - 1) : others[k] = s[k]
      /\ \A k \in from..(Len(s) - 1) : others[k] = s[k + 1]
  BY RemoveAtProperties
<1>3. MoveTo(s, from, to) = InsertAt(others, to, s[from])
  BY DEF MoveTo
<1> HIDE DEF others
<1>4. /\ InsertAt(others, to, s[from]) \in Seq(S)
      /\ Len(InsertAt(others, to, s[from])) = Len(others) + 1
      /\ \A k \in 1..(to - 1) : InsertAt(others, to, s[from])[k] = others[k]
      /\ InsertAt(others, to, s[from])[to] = s[from]
      /\ \A k \in (to + 1)..(Len(others) + 1) : InsertAt(others, to, s[from])[k] = others[k - 1]
  <2>1. to \in 1..(Len(others) + 1)
    BY <1>1, <1>2
  <2> QED BY <1>1, <1>2, <2>1, InsertAtProperties
<1>5. \A k \in 1..Len(s) :
        /\ Source(from, to, k) \in 1..Len(s)
        /\ InsertAt(others, to, s[from])[k] = s[Source(from, to, k)]
  <2> DEFINE t == InsertAt(others, to, s[from])
  <2> SUFFICES ASSUME NEW k \in 1..Len(s)
               PROVE  Source(from, to, k) \in 1..Len(s) /\ t[k] = s[Source(from, to, k)]
    OBVIOUS
  <2>1. /\ \A i \in 1..(to - 1) : t[i] = others[i]
        /\ t[to] = s[from]
        /\ \A i \in (to + 1)..Len(s) : t[i] = others[i - 1]
    BY <1>1, <1>2, <1>4
  <2> HIDE DEF t
  <2>2. CASE k = to
    BY <1>1, <2>1, <2>2 DEF Source
  <2>3. CASE k < to /\ k < from
    BY <1>1, <1>2, <2>1, <2>3 DEF Source
  <2>4. CASE k < to /\ k >= from
    <3>1. k \in from..(Len(s) - 1)
      BY <1>1, <2>4
    <3> QED BY <1>1, <1>2, <2>1, <2>4, <3>1 DEF Source
  <2>5. CASE k > to /\ k - 1 < from
    <3>1. k - 1 \in 1..(from - 1)
      BY <1>1, <2>5
    <3> QED BY <1>1, <1>2, <2>1, <2>5, <3>1 DEF Source
  <2>6. CASE k > to /\ k - 1 >= from
    <3>1. k - 1 \in from..(Len(s) - 1)
      BY <1>1, <2>6
    <3> QED BY <1>1, <1>2, <2>1, <2>6, <3>1 DEF Source
  <2> QED BY <1>1, <2>2, <2>3, <2>4, <2>5, <2>6
<1> QED BY <1>1, <1>2, <1>3, <1>4, <1>5

\* A move permutes the positions.
LEMMA SourcePermutes ==
  ASSUME NEW n \in Nat, NEW from \in 1..n, NEW to \in 1..n
  PROVE  /\ \A k, l \in 1..n : Source(from, to, k) = Source(from, to, l) => k = l
         /\ \A m \in 1..n : \E k \in 1..n : Source(from, to, k) = m
<1>1. \A k, l \in 1..n : Source(from, to, k) = Source(from, to, l) => k = l
  BY DEF Source
<1>2. ASSUME NEW m \in 1..n
      PROVE  \E k \in 1..n : Source(from, to, k) = m
  <2> DEFINE left == IF m < from THEN m ELSE m - 1
             k == IF m = from THEN to ELSE IF left < to THEN left ELSE left + 1
  <2>1. k \in 1..n /\ Source(from, to, k) = m
    BY DEF Source
  <2> QED BY <2>1
<1> QED BY <1>1, <1>2

LEMMA LeastExists ==
  ASSUME NEW S, S \subseteq Nat, S # {}
  PROVE  \E i \in S : \A j \in S : i <= j
<1>1. PICK i \in S : \A j \in S : ~ (<<j, i>> \in OpToRel(<, Nat))
  BY WFMin, NatLessThanWellFounded
<1>2. \A j \in S : ~(j < i)
  BY <1>1 DEF OpToRel
<1> QED BY <1>2

-----------------------------------------------------------------------------
(* Fields by ID, columns by name.                                          *)

LEMMA FieldOfIs ==
  ASSUME NEW fields, DistinctIds(fields), NEW i \in DOMAIN fields
  PROVE  FieldOf(fields, fields[i].id) = fields[i]
BY DEF FieldOf, DistinctIds

LEMMA PositionIs ==
  ASSUME DistinctNames(columns), NEW i \in DOMAIN columns
  PROVE  Position(columns[i].name) = i /\ Exists(columns[i].name)
BY DEF Position, Exists, NamesOf, DistinctNames

\* What is distinct stays so when an element is removed.
LEMMA RemoveAtDistinct ==
  ASSUME NEW s \in Seq(Fields), NEW i \in 1..Len(s)
  PROVE  /\ DistinctIds(s) => DistinctIds(RemoveAt(s, i))
         /\ DistinctNames(s) => DistinctNames(RemoveAt(s, i))
<1> DEFINE rest == RemoveAt(s, i)
           from == [k \in 1..(Len(s) - 1) |-> IF k < i THEN k ELSE k + 1]
<1>1. /\ rest \in Seq(Fields) /\ Len(rest) = Len(s) - 1
      /\ \A k \in 1..(i - 1) : rest[k] = s[k]
      /\ \A k \in i..(Len(s) - 1) : rest[k] = s[k + 1]
  BY RemoveAtProperties
<1> HIDE DEF rest
<1>2. DOMAIN rest = 1..(Len(s) - 1) /\ DOMAIN s = 1..Len(s) /\ Len(s) \in Nat
  BY <1>1
<1>3. ASSUME NEW k \in DOMAIN rest
      PROVE  from[k] \in DOMAIN s /\ rest[k] = s[from[k]]
  <2>1. CASE k < i
    BY <1>1, <1>2, <2>1
  <2>2. CASE ~(k < i)
    BY <1>1, <1>2, <2>2
  <2> QED BY <2>1, <2>2
<1>4. \A k, l \in DOMAIN rest : from[k] = from[l] => k = l
  BY <1>2
<1> HIDE DEF from
<1>5. (DistinctIds(s) => DistinctIds(rest)) /\ (DistinctNames(s) => DistinctNames(rest))
  BY <1>3, <1>4 DEF DistinctIds, DistinctNames
<1> QED BY <1>5 DEF rest

\* A field with another ID, or another name.
LEMMA WithID ==
  ASSUME NEW field \in Fields, NEW id \in FieldIDs \cup {New}
  PROVE  LET new == [field EXCEPT !.id = id]
         IN  new \in Fields /\ new.id = id /\ SameButID(new, field)
BY DEF Fields, SameButID

LEMMA WithName ==
  ASSUME NEW field \in Fields, NEW name \in Names
  PROVE  LET new == Named(field, name)
         IN  /\ new \in Fields /\ new.name = name
             /\ new.id = field.id /\ new.type = field.type
             /\ new.nullable = field.nullable /\ new.default = field.default
             /\ (name = field.name => new = field)
BY DEF Fields, Named

LEMMA SameField ==
  ASSUME NEW f \in Fields, NEW g \in Fields, f.id = g.id, SameButID(f, g)
  PROVE  f = g
BY DEF Fields, SameButID

\* A retained field, in the table and in the plan.
LEMMA KeptField ==
  ASSUME DistinctIds(before), DistinctIds(after), NEW id \in KeptIDs
  PROVE  \E j \in DOMAIN before, l \in DOMAIN after :
            /\ before[j].id = id /\ FieldOf(before, id) = before[j]
            /\ after[l].id = id /\ FieldOf(after, id) = after[l]
<1>1. PICK j \in DOMAIN before : before[j].id = id
  BY DEF KeptIDs, IdsOf
<1>2. PICK l \in DOMAIN after : after[l].id = id
  BY DEF KeptIDs, IdsOf
<1> QED BY <1>1, <1>2, FieldOfIs

-----------------------------------------------------------------------------
(* The plan.                                                               *)

LEMMA IdentityInTable ==
  ASSUME InputInv, NEW k \in DOMAIN configured
  PROVE  /\ Identity(configured[k], k) \in FieldIDs \cup {New}
         /\ configured[k].id = New => Identity(configured[k], k) \in IdsOf(before) \cup {New}
         /\ \A i \in DOMAIN before :
              Identity(configured[k], k) = before[i].id <=>
                \/ configured[k].id = before[i].id
                \/ configured[k].id = New /\ configured[k].name = before[i].name
<1>1. configured[k] \in ConfiguredFields
  BY DEF InputInv
<1>2. \A i \in DOMAIN before : before[i].id \in FieldIDs /\ before[i].id # New
  BY SentinelAssumption DEF InputInv, IdsOf
<1>3. CASE configured[k].id # New
  BY <1>1, <1>3 DEF Identity, ConfiguredFields
<1>4. CASE configured[k].id = New /\ configured[k].name \notin NamesOf(before)
  BY <1>2, <1>4 DEF Identity, NamesOf
<1>5. CASE configured[k].id = New /\ configured[k].name \in NamesOf(before)
  <2>1. PICK j \in DOMAIN before : before[j].name = configured[k].name
    BY <1>5 DEF NamesOf
  <2>2. \A i \in DOMAIN before : before[i].name = configured[k].name => i = j
    BY <2>1 DEF InputInv, DistinctNames
  <2>3. Identity(configured[k], k) = before[j].id
    BY <1>5, <2>1, <2>2 DEF Identity
  <2>4. \A i \in DOMAIN before : before[i].id = before[j].id <=> before[i].name = configured[k].name
    BY <2>1, <2>2 DEF InputInv, DistinctIds
  <2> QED BY <1>2, <1>5, <2>3, <2>4 DEF IdsOf
<1> QED BY <1>3, <1>4, <1>5

LEMMA StabilizedFields ==
  ASSUME InputInv
  PROVE  /\ Stabilized \in Seq(Fields)
         /\ Len(Stabilized) = Len(configured)
         /\ \A k \in DOMAIN configured :
              /\ Stabilized[k].id = Identity(configured[k], k)
              /\ Stabilized[k].name = configured[k].name
<1>1. configured \in Seq(ConfiguredFields) /\ DOMAIN configured = 1..Len(configured) /\ Len(configured) \in Nat
  BY DEF InputInv
<1>2. ASSUME NEW k \in DOMAIN configured
      PROVE  /\ Stabilized[k] \in Fields
             /\ Stabilized[k].id = Identity(configured[k], k)
             /\ Stabilized[k].name = configured[k].name
  <2> DEFINE id == Identity(configured[k], k)
             nullable == Nullability(configured[k], id)
  <2>1. configured[k] \in ConfiguredFields
    BY <1>1
  <2>2. id \in FieldIDs \cup {New}
    BY IdentityInTable
  <2>3. nullable \in BOOLEAN
    <3>1. CASE configured[k].nullable # Unset
      BY <2>1, <3>1 DEF Nullability, ConfiguredFields
    <3>2. CASE configured[k].nullable = Unset /\ id \in IdsOf(before)
      <4>1. PICK j \in DOMAIN before : before[j].id = id
        BY <3>2 DEF IdsOf
      <4>2. FieldOf(before, id) = before[j] /\ before[j] \in Fields
        BY <4>1, FieldOfIs DEF InputInv
      <4>3. before[j].nullable \in BOOLEAN
        BY <4>2 DEF Fields
      <4> QED BY <3>2, <4>2, <4>3 DEF Nullability
    <3>3. CASE configured[k].nullable = Unset /\ id \notin IdsOf(before)
      BY <3>3 DEF Nullability
    <3> QED BY <3>1, <3>2, <3>3
  <2>4. Stabilized[k] = [configured[k] EXCEPT !.id = id, !.nullable = nullable]
    BY DEF Stabilized
  <2> HIDE DEF id, nullable
  <2>5. /\ [configured[k] EXCEPT !.id = id, !.nullable = nullable] \in Fields
        /\ [configured[k] EXCEPT !.id = id, !.nullable = nullable].id = id
        /\ [configured[k] EXCEPT !.id = id, !.nullable = nullable].name = configured[k].name
    BY <2>1, <2>2, <2>3 DEF ConfiguredFields, Fields
  <2> QED BY <2>4, <2>5 DEF id
<1>3. DOMAIN Stabilized = 1..Len(configured) /\ Stabilized \in [1..Len(configured) -> Fields]
  BY <1>1, <1>2 DEF Stabilized
<1> QED BY <1>1, <1>2, <1>3

LEMMA PlannedFields ==
  ASSUME InputInv, planned = Stabilized, ~AddsByID
  PROVE  /\ planned \in Seq(Fields)
         /\ Len(planned) = Len(configured)
         /\ \A k \in DOMAIN planned : planned[k].id \in IdsOf(before) \cup {New}
<1>1. ASSUME NEW k \in DOMAIN configured
      PROVE  Identity(configured[k], k) \in IdsOf(before) \cup {New}
  <2>1. configured[k].id \in IdsOf(before) \cup {New}
    BY DEF AddsByID, IdsOf
  <2>2. CASE configured[k].id = New
    BY <2>2, IdentityInTable
  <2>3. CASE configured[k].id # New
    BY <2>1, <2>3 DEF Identity
  <2> QED BY <2>2, <2>3
<1>2. DOMAIN configured = 1..Len(configured) /\ DOMAIN planned = 1..Len(planned)
  BY StabilizedFields DEF InputInv
<1> QED BY <1>1, <1>2, StabilizedFields

-----------------------------------------------------------------------------
(* The steps up to the IDs.                                                *)

LEMMA InitUpdate == Init => UpdateInv
<1> SUFFICES ASSUME Init PROVE UpdateInv
  OBVIOUS
<1>1. InputInv
  BY TablesAssumption, ConfigsAssumption DEF Init, InputInv
<1> QED BY <1>1 DEF Init, UpdateInv, PlanInv, IdsInv, DropsInv, RenamesInv, CycleInv, AddsInv, MovesInv, PartitionInv, Altering

LEMMA InputStep == InputInv /\ UNCHANGED input => InputInv'
BY DEF InputInv, input

LEMMA SamePlan ==
  ASSUME UNCHANGED input, NEW fields
  PROVE  /\ Stabilized' = Stabilized
         /\ AddsByID' <=> AddsByID
         /\ RequiresReplace(fields)' <=> RequiresReplace(fields)
<1>1. Stabilized' = Stabilized
  BY DEF input, Stabilized, Identity, Nullability
<1>2. AddsByID' <=> AddsByID
  BY DEF input, AddsByID
<1>3. RequiresReplace(fields)' <=> RequiresReplace(fields)
  BY DEF input, RequiresReplace, ChangesShape, ChangesKey
<1> QED BY <1>1, <1>2, <1>3

LEMMA PlanStep ==
  ASSUME PlanInv, UNCHANGED <<input, planned>>, pc \in {"planned", "ids"} \cup Altering
  PROVE  PlanInv'
<1>1. UNCHANGED input /\ planned' = planned
  OBVIOUS
<1>2. Stabilized' = Stabilized /\ (AddsByID' <=> AddsByID)
  BY <1>1, SamePlan
<1>3. RequiresReplace(planned)' <=> RequiresReplace(planned)
  BY <1>1 DEF input, RequiresReplace, ChangesShape, ChangesKey
<1> QED BY <1>1, <1>2, <1>3 DEF PlanInv

LEMMA ModifyPlanStep == UpdateInv /\ ModifyPlan => UpdateInv'
<1> SUFFICES ASSUME UpdateInv, ModifyPlan PROVE UpdateInv'
  OBVIOUS
<1>1. InputInv'
  BY InputStep DEF UpdateInv, ModifyPlan
<1>2. PlanInv'
  <2> DEFINE fields == Stabilized
  <2>1. UNCHANGED input /\ planned' = fields
        /\ pc' = IF AddsByID THEN "addsByID" ELSE IF RequiresReplace(fields) THEN "replace" ELSE "planned"
    BY DEF ModifyPlan
  <2>2. Stabilized' = fields /\ (AddsByID' <=> AddsByID)
    BY <2>1, SamePlan
  <2> HIDE DEF fields
  <2>3. RequiresReplace(planned)' <=> RequiresReplace(fields)
    BY <2>1 DEF input, RequiresReplace, ChangesShape, ChangesKey
  <2> QED BY <2>1, <2>2, <2>3 DEF PlanInv, Altering
<1>3. pc' \in {"addsByID", "replace", "planned"}
  BY DEF ModifyPlan
<1> QED BY <1>1, <1>2, <1>3 DEF ModifyPlan, UpdateInv, IdsInv, DropsInv, RenamesInv, CycleInv, AddsInv, MovesInv, PartitionInv, Altering, input

LEMMA ConvertStep == UpdateInv /\ Convert => UpdateInv'
<1> SUFFICES ASSUME UpdateInv, Convert PROVE UpdateInv'
  OBVIOUS
<1>1. InputInv'
  BY InputStep DEF UpdateInv, Convert
<1>2. PlanInv'
  BY PlanStep DEF UpdateInv, Convert
<1>3. pc' \in {"ids", "inconvertible"}
  BY DEF Convert
<1>4. IdsInv'
  <2> SUFFICES ASSUME pc' = "ids" PROVE IdsInv'
    BY DEF IdsInv
  <2>1. Convertible /\ after' = planned /\ index' = 1 /\ UNCHANGED <<input, planned>>
    BY DEF Convert, UpdateInv
  <2>2. planned \in Seq(Fields) /\ Len(planned) \in Nat /\ DOMAIN planned = 1..Len(planned)
    BY PlannedFields DEF UpdateInv, PlanInv, Convert
  <2> QED BY <2>1, <2>2 DEF IdsInv, SameButID, Convertible, DistinctNames, NamesOf, input
<1> QED BY <1>1, <1>2, <1>3, <1>4 DEF Convert, UpdateInv, DropsInv, RenamesInv, CycleInv, AddsInv, MovesInv, PartitionInv, Altering, input

\* The next ID is above all that are used.
LEMMA NextIDIsNew ==
  ASSUME NEW used, used \subseteq FieldIDs
  PROVE  NextID(used) \in Nat /\ NextID(used) \notin used
<1>1. CASE used = {}
  BY <1>1 DEF NextID
<1>2. CASE used # {}
  <2> DEFINE bounds == {n \in Nat : \A id \in used : id <= n}
  <2>1. used \subseteq Nat /\ MaxFieldID \in bounds
    BY MaxFieldIDAssumption DEF FieldIDs
  <2>2. PICK max \in bounds : \A n \in bounds : ~ (<<n, max>> \in OpToRel(<, Nat))
    <3>1. bounds \subseteq Nat /\ bounds # {}
      BY <2>1
    <3> HIDE DEF bounds
    <3> QED BY <3>1, WFMin, NatLessThanWellFounded
  <2>3. max \in used
    <3> SUFFICES ASSUME max \notin used PROVE FALSE
      OBVIOUS
    <3>1. PICK id \in used : TRUE
      BY <1>2
    <3>2. max \in Nat /\ max # 0 /\ \A other \in used : other <= max - 1
      BY <2>1, <3>1
    <3>3. max - 1 \in bounds /\ <<max - 1, max>> \in OpToRel(<, Nat)
      BY <3>2 DEF OpToRel
    <3> QED BY <2>2, <3>3
  <2>4. PICK id \in used : NextID(used) = id + 1 /\ \A other \in used : other <= id
    BY <1>2, <2>1, <2>3 DEF NextID
  <2> QED BY <2>1, <2>4
<1> QED BY <1>1, <1>2

LEMMA AssignTemporaryIDStep == UpdateInv /\ AssignTemporaryID => UpdateInv'
<1> SUFFICES ASSUME UpdateInv, AssignTemporaryID PROVE UpdateInv'
  OBVIOUS
<1>1. InputInv'
  BY InputStep DEF UpdateInv, AssignTemporaryID
<1>2. PlanInv'
  BY PlanStep DEF UpdateInv, AssignTemporaryID
<1>3. pc' \in {"ids", "exhausted"} /\ columns' = columns /\ order' = order /\ columns = before /\ order = <<>>
  BY DEF AssignTemporaryID, UpdateInv
<1>4. IdsInv'
  <2> SUFFICES ASSUME pc' = "ids" PROVE IdsInv'
    BY DEF IdsInv
  <2>1. /\ pc = "ids" /\ IdsInv /\ InputInv
        /\ UNCHANGED <<before, nested, partition, planned>> /\ index \in DOMAIN after /\ index' = index + 1
    BY DEF AssignTemporaryID, UpdateInv, input
  <2>2. Convertible'
    BY <2>1 DEF IdsInv, Convertible, DistinctNames, NamesOf
  <2>3. after \in Seq(Fields) /\ Len(after) = Len(planned) /\ DOMAIN after = 1..Len(after) /\ Len(after) \in Nat
    BY <2>1 DEF IdsInv
  <2>4. CASE after[index].id # New
    <3>1. after' = after
      BY <2>4 DEF AssignTemporaryID
    <3> QED BY <2>1, <2>2, <2>3, <2>4, <3>1 DEF IdsInv
  <2>5. CASE after[index].id = New
    <3> DEFINE id == NextID(Reserved)
    <3>1. after' = [after EXCEPT ![index].id = id] /\ ~(id > MaxFieldID)
      BY <2>5 DEF AssignTemporaryID
    <3>2. \A k \in DOMAIN after : after[k].id \in FieldIDs \cup {New}
      <4>1. \A k \in DOMAIN after : after[k] \in Fields
        BY <2>3
      <4> QED BY <4>1 DEF Fields
    <3>3. Reserved \subseteq FieldIDs
      BY <2>1, <3>2 DEF Reserved, InputInv, IdsOf
    <3>4. id \in FieldIDs /\ id \notin Reserved
      BY <3>1, <3>3, NextIDIsNew, MaxFieldIDAssumption DEF FieldIDs
    <3> HIDE DEF id
    <3>5. id # New /\ id \notin IdsOf(before) \cup nested /\ \A k \in DOMAIN after : after[k].id # id
      BY <3>4, SentinelAssumption DEF Reserved, IdsOf
    <3> DEFINE new == [after[index] EXCEPT !.id = id]
    <3>6. new \in Fields /\ new.id = id /\ SameButID(new, after[index])
      <4>1. after[index] \in Fields
        BY <2>1, <2>3
      <4> QED BY <3>4, <4>1, WithID
    <3>7. after' = [after EXCEPT ![index] = new]
      BY <3>1
    <3> HIDE DEF new
    <3>8. /\ DOMAIN after' = DOMAIN after /\ Len(after') = Len(after)
          /\ after'[index] = new
          /\ \A k \in DOMAIN after \ {index} : after'[k] = after[k]
          /\ after' \in Seq(Fields)
      BY <2>1, <2>3, <3>6, <3>7
    <3>9. after'[index].id = id
      BY <3>6, <3>8
    <3>10. SameButID(after'[index], planned[index])
      <4>1. SameButID(after[index], planned[index])
        BY <2>1 DEF IdsInv
      <4> QED BY <3>6, <3>8, <4>1 DEF SameButID
    <3>11. planned[index].id = New
      BY <2>1, <2>5 DEF IdsInv
    <3>13. \A k \in DOMAIN after' :
            /\ SameButID(after'[k], planned[k])
            /\ planned[k].id # New => after'[k].id = planned[k].id
            /\ planned[k].id = New /\ after'[k].id # New =>
                 after'[k].id \in FieldIDs /\ after'[k].id \notin IdsOf(before) \cup nested
            /\ k < index + 1 => after'[k].id # New
      <4> SUFFICES ASSUME NEW k \in DOMAIN after'
                   PROVE  /\ SameButID(after'[k], planned[k])
                          /\ planned[k].id # New => after'[k].id = planned[k].id
                          /\ planned[k].id = New /\ after'[k].id # New =>
                               after'[k].id \in FieldIDs /\ after'[k].id \notin IdsOf(before) \cup nested
                          /\ k < index + 1 => after'[k].id # New
        OBVIOUS
      <4>1. CASE k = index
        BY <4>1, <3>4, <3>5, <3>9, <3>10, <3>11
      <4>2. CASE k # index
        BY <4>2, <2>1, <2>3, <3>8 DEF IdsInv
      <4> QED BY <4>1, <4>2
    <3>14. \A k, l \in DOMAIN after' : after'[k].id = after'[l].id => k = l \/ after'[k].id = New
      BY <2>1, <3>5, <3>8, <3>9 DEF IdsInv
    <3>15. Len(after') = Len(planned') /\ index' \in Nat \ {0}
      BY <2>1, <2>3, <3>8
    <3>16. \A k \in DOMAIN after' :
            /\ SameButID(after'[k], planned'[k])
            /\ planned'[k].id # New => after'[k].id = planned'[k].id
            /\ planned'[k].id = New /\ after'[k].id # New =>
                 after'[k].id \in FieldIDs /\ after'[k].id \notin IdsOf(before') \cup nested'
            /\ k < index' => after'[k].id # New
      BY <2>1, <3>13
    <3> QED BY <2>2, <3>8, <3>14, <3>15, <3>16 DEF IdsInv, SameButID
  <2> QED BY <2>4, <2>5
<1>5. pc' \notin Altering /\ pc' \notin {"rejected", "configured", "planned"}
  BY <1>3 DEF Altering
<1>6. DropsInv' /\ RenamesInv' /\ CycleInv' /\ AddsInv' /\ MovesInv' /\ PartitionInv'
  BY <1>5 DEF Altering, DropsInv, RenamesInv, CycleInv, AddsInv, MovesInv, PartitionInv
<1>7. columns' = before' /\ order' = <<>>
  BY <1>3 DEF AssignTemporaryID, input
<1> QED BY <1>1, <1>2, <1>4, <1>5, <1>6, <1>7 DEF UpdateInv, Altering

\* Once all fields have their IDs, the plan is one the loops can follow.
LEMMA IdsGivePlanOK ==
  ASSUME InputInv, PlanInv, IdsInv, pc = "ids", index \notin DOMAIN after
  PROVE  PlanOK
<1>1. /\ planned \in Seq(Fields) /\ after \in Seq(Fields) /\ Len(after) = Len(planned)
      /\ DOMAIN planned = 1..Len(planned) /\ DOMAIN after = 1..Len(planned) /\ Len(planned) \in Nat
      /\ planned = Stabilized /\ ~AddsByID /\ ~RequiresReplace(planned)
  BY PlannedFields DEF PlanInv, IdsInv
<1>2. \A l \in DOMAIN after : /\ planned[l] \in Fields /\ after[l] \in Fields
                              /\ planned[l].id \in IdsOf(before) \cup {New}
                              /\ SameButID(after[l], planned[l])
  BY <1>1, PlannedFields DEF IdsInv
<1>3. New \notin IdsOf(before) /\ \A j \in DOMAIN before : before[j].id \in IdsOf(before)
  BY SentinelAssumption DEF InputInv, IdsOf
<1>4. \A l \in DOMAIN after : after[l].id \in FieldIDs
  <2>1. \A l \in DOMAIN after : after[l].id # New
    BY <1>1 DEF IdsInv
  <2> QED BY <1>2, <2>1 DEF Fields
<1>5. DistinctIds(after)
  BY <1>4, SentinelAssumption DEF IdsInv, DistinctIds
<1>6. DistinctNames(after)
  BY <1>1, <1>2 DEF IdsInv, Convertible, DistinctNames, SameButID
<1>7. ASSUME NEW l \in DOMAIN after, after[l].id \in IdsOf(before)
      PROVE  planned[l] = after[l]
  <2>1. planned[l].id # New
    BY <1>3, <1>7 DEF IdsInv
  <2>2. after[l].id = planned[l].id
    BY <2>1, <1>1, <1>7 DEF IdsInv
  <2> QED BY <1>2, <2>2, SameField
<1>8. ASSUME NEW l \in DOMAIN after, after[l].id \notin IdsOf(before)
      PROVE  planned[l].id = New /\ after[l].nullable = TRUE /\ after[l].id \notin nested
  <2>1. planned[l].id = New
    BY <1>2, <1>8 DEF IdsInv
  <2>2. after[l].id \notin nested
    BY <2>1, <1>4, <1>8, SentinelAssumption DEF IdsInv
  <2>3. planned[l].nullable /\ planned[l].nullable \in BOOLEAN
    <3>1. planned[l].id \notin IdsOf(before)
      BY <2>1, <1>3
    <3>2. planned[l].nullable
      BY <1>1, <3>1 DEF RequiresReplace
    <3> QED BY <1>2, <3>2 DEF Fields
  <2> QED BY <2>1, <2>2, <2>3, <1>2 DEF SameButID
<1>9. ASSUME NEW j \in DOMAIN before, NEW l \in DOMAIN after,
             before[j].id = after[l].id, before[j].type # after[l].type
      PROVE  /\ before[j].type \notin Composite /\ after[l].type \notin Composite
             /\ before[j].name \notin partition
  <2>1. planned[l] = after[l] /\ planned[l].id \in IdsOf(before)
    BY <1>3, <1>7, <1>9
  <2>2. FieldOf(before, planned[l].id) = before[j]
    BY <2>1, <1>9, FieldOfIs DEF InputInv
  <2>3. ~ChangesShape(before[j], planned[l]) /\ ~ChangesKey(before[j], planned[l])
    BY <1>1, <2>1, <2>2 DEF RequiresReplace
  <2> QED BY <1>9, <2>1, <2>3 DEF ChangesShape, ChangesKey
<1>11. IdsOf(after) \subseteq FieldIDs
  BY <1>4 DEF IdsOf
<1>12. \A l \in DOMAIN after : after[l].id \notin IdsOf(before) => SameButID(after[l], planned[l])
  BY <1>2
<1> QED BY <1>1, <1>5, <1>6, <1>7, <1>8, <1>9, <1>11, <1>12 DEF PlanOK

-----------------------------------------------------------------------------
(* The loops.                                                              *)

LEMMA PlanOKStep ==
  ASSUME PlanOK, UNCHANGED <<input, planned, after>>
  PROVE  PlanOK'
BY DEF PlanOK, input

\* A partition column loses its place when it is not retained under its name.
LEMMA GivesUp ==
  ASSUME InputInv, PlanOK
  PROVE  GivesUpPartition <=>
           \E j \in DOMAIN before :
             /\ before[j].name \in partition
             /\ ~(before[j].id \in KeptIDs /\ FieldOf(after, before[j].id).name = before[j].name)
<1>1. DOMAIN planned = DOMAIN after
  BY DEF PlanOK
<1>2. ASSUME NEW j \in DOMAIN before
      PROVE  (\E l \in DOMAIN planned : planned[l].id = before[j].id /\ planned[l].name = before[j].name)
               <=> before[j].id \in KeptIDs /\ FieldOf(after, before[j].id).name = before[j].name
  <2>1. before[j].id \in IdsOf(before) /\ New \notin IdsOf(before)
    BY SentinelAssumption DEF InputInv, IdsOf
  <2>2. ASSUME NEW l \in DOMAIN planned, planned[l].id = before[j].id
        PROVE  planned[l] = after[l] /\ before[j].id \in KeptIDs /\ FieldOf(after, before[j].id) = after[l]
    <3>1. planned[l] = after[l]
      BY <1>1, <2>1, <2>2 DEF PlanOK
    <3>2. before[j].id \in KeptIDs
      BY <1>1, <2>1, <2>2, <3>1 DEF KeptIDs, IdsOf
    <3> QED BY <1>1, <2>2, <3>1, <3>2, FieldOfIs DEF PlanOK
  <2>3. ASSUME before[j].id \in KeptIDs
        PROVE  \E l \in DOMAIN planned : planned[l].id = before[j].id
    <3>1. PICK l \in DOMAIN after : after[l].id = before[j].id
      BY <2>3 DEF KeptIDs, IdsOf
    <3> QED BY <1>1, <2>1, <3>1 DEF PlanOK
  <2> QED BY <2>2, <2>3
<1> QED BY <1>2 DEF GivesUpPartition

LEMMA SamePartition ==
  ASSUME UNCHANGED <<input, planned, after>>
  PROVE  (GivesUpPartition' <=> GivesUpPartition) /\ KeptIDs' = KeptIDs
BY DEF GivesUpPartition, KeptIDs, input

LEMMA UpdatedField ==
  ASSUME InputInv, PlanOK, NEW j \in DOMAIN before
  PROVE  Updated(j) \in Fields /\ Updated(j).id = before[j].id /\ Updated(j).name = before[j].name
<1>1. before[j] \in Fields
  BY DEF InputInv
<1>2. CASE Retained(before[j])
  <2>1. before[j].id \in KeptIDs
    BY <1>2 DEF Retained
  <2>2. PICK l \in DOMAIN after : after[l].id = before[j].id /\ FieldOf(after, before[j].id) = after[l]
    BY <2>1, KeptField DEF InputInv, PlanOK
  <2>3. after[l] \in Fields
    BY DEF PlanOK
  <2>5. before[j].name \in Names
    BY <1>1 DEF Fields
  <2>4. Updated(j) = Named(after[l], before[j].name)
    BY <1>2, <2>2 DEF Updated
  <2> QED BY <2>2, <2>3, <2>4, <2>5, WithName
<1>3. CASE ~Retained(before[j])
  BY <1>1, <1>3 DEF Updated
<1> QED BY <1>2, <1>3

\* The additions and the moves leave the partition columns alone.
LEMMA PartitionStep ==
  ASSUME PartitionInv, UNCHANGED <<input, planned, after>>,
         pc \in {"adds", "moves"}, pc' \in {"adds", "moves", "done"}
  PROVE  PartitionInv'
BY SamePartition DEF PartitionInv

\* A list that is refused is followed no further.
LEMMA RejectedStep ==
  ASSUME InputInv, UNCHANGED input, pc' = "rejected", PartitionInv'
  PROVE  UpdateInv'
<1>1. InputInv'
  BY InputStep
<1> QED BY <1>1 DEF UpdateInv, PlanInv, IdsInv, DropsInv, RenamesInv, CycleInv, AddsInv, MovesInv, Altering

LEMMA SameUpdated ==
  ASSUME UNCHANGED input, UNCHANGED after
  PROVE  \A j : Updated(j)' = Updated(j) /\ (Retained(before[j])' <=> Retained(before[j]))
BY DEF Updated, Retained, KeptIDs, input

LEMMA UpdateColumnsStep == UpdateInv /\ UpdateColumns => UpdateInv'
<1> SUFFICES ASSUME UpdateInv, UpdateColumns PROVE UpdateInv'
  OBVIOUS
<1> DEFINE plan(i) == FieldOf(after, before[i].id)
           retained == {i \in DOMAIN before : Retained(before[i])}
           new(i) == [before[i] EXCEPT !.type = plan(i).type, !.nullable = plan(i).nullable,
                                       !.default = plan(i).default]
<1>1. /\ InputInv /\ PlanInv /\ IdsInv /\ pc = "ids" /\ index \notin DOMAIN after
      /\ columns = before /\ order = <<>>
      /\ UNCHANGED input /\ UNCHANGED <<planned, after, order>> /\ index' = 1
  BY DEF UpdateInv, UpdateColumns
<1>2. PlanOK
  BY <1>1, IdsGivePlanOK
<1>3. /\ DOMAIN before = 1..Len(before) /\ Len(before) \in Nat /\ before \in Seq(Fields)
      /\ DistinctIds(before) /\ DistinctNames(before)
  BY <1>1 DEF InputInv
<1>4. ASSUME NEW i \in retained
      PROVE  /\ \E l \in DOMAIN after : plan(i) = after[l] /\ after[l].id = before[i].id
             /\ plan(i) \in Fields /\ plan(i).id = before[i].id
  <2>1. before[i].id \in KeptIDs
    BY DEF Retained
  <2>2. \E l \in DOMAIN after : plan(i) = after[l] /\ after[l].id = before[i].id
    BY <1>2, <1>3, <2>1, KeptField DEF PlanOK
  <2> QED BY <1>2, <2>2 DEF PlanOK
<1>5. ASSUME NEW i \in retained, before[i].type # plan(i).type
      PROVE  CanUpdateType(before[i].name, plan(i).type)
  <2>1. PICK l \in DOMAIN after : plan(i) = after[l] /\ after[l].id = before[i].id
    BY <1>4
  <2>2. /\ before[i].type \notin Composite /\ plan(i).type \notin Composite
        /\ before[i].name \notin partition
    BY <1>2, <1>5, <2>1 DEF PlanOK
  <2>3. Position(before[i].name) = i /\ Exists(before[i].name)
    BY <1>1, <1>3, PositionIs
  <2> QED BY <1>1, <2>2, <2>3 DEF CanUpdateType
<1>6. /\ columns' = [i \in DOMAIN before |-> IF i \in retained THEN new(i) ELSE before[i]]
      /\ pc' = "drops"
  BY <1>1, <1>5 DEF UpdateColumns
<1>7. ASSUME NEW i \in DOMAIN before
      PROVE  columns'[i] = Updated(i)
  <2>1. CASE i \in retained
    <3> DEFINE old == before[i]
               goal == plan(i)
    <3>1. old \in Fields /\ goal \in Fields /\ goal.id = old.id
      BY <1>3, <1>4, <2>1
    <3>2. columns'[i] = [old EXCEPT !.type = goal.type, !.nullable = goal.nullable, !.default = goal.default]
      BY <1>6, <2>1
    <3>3. Updated(i) = [goal EXCEPT !.name = old.name]
      BY <2>1 DEF Updated, Named
    <3> HIDE DEF old, goal
    <3>4. [old EXCEPT !.type = goal.type, !.nullable = goal.nullable, !.default = goal.default]
            = [goal EXCEPT !.name = old.name]
      BY <3>1 DEF Fields
    <3> QED BY <3>2, <3>3, <3>4
  <2>2. CASE i \notin retained
    BY <1>6, <2>2 DEF Updated
  <2> QED BY <2>1, <2>2
<1>8. DOMAIN columns' = 1..Len(before)
  BY <1>3, <1>6
<1> HIDE DEF plan, retained, new
<1>9. \A i \in DOMAIN before :
        columns'[i] \in Fields /\ columns'[i].id = before[i].id /\ columns'[i].name = before[i].name
  BY <1>1, <1>2, <1>7, UpdatedField
<1>10. columns' \in Seq(Fields) /\ Len(columns') = Len(before)
  <2>1. columns' \in [1..Len(before) -> Fields]
    BY <1>3, <1>6, <1>8, <1>9
  <2> QED BY <1>3, <2>1
<1>11. DistinctIds(columns') /\ DistinctNames(columns')
  BY <1>3, <1>8, <1>9 DEF DistinctIds, DistinctNames
<1>12. \A i \in DOMAIN before : Updated(i)' = Updated(i)
  BY <1>1, SameUpdated
<1>13. DropsInv'
  <2>1. before' = before /\ order' = <<>> /\ Len(<<>>) = 0 /\ <<>> \in Seq(Names)
    BY <1>1 DEF input
  <2>2. index' \in 1..(Len(before') + 1)
    BY <1>1, <1>3, <2>1
  <2>3. \A k \in (Len(order') + 1)..Len(columns') : columns'[k] = Updated(index + k - (Len(order) + 1))'
    <3> SUFFICES ASSUME NEW k \in 1..Len(before)
                 PROVE  columns'[k] = Updated(index + k - (Len(order) + 1))'
      BY <1>10, <2>1
    <3>1. (index + k - (Len(order) + 1))' = k
      BY <1>1, <2>1
    <3>2. columns'[k] = Updated(k)'
      BY <1>3, <1>7, <1>12
    <3> QED BY <3>1, <3>2
  <2> QED BY <1>1, <1>3, <1>10, <1>11, <2>1, <2>2, <2>3 DEF DropsInv
<1>14. InputInv' /\ PlanInv' /\ PlanOK'
  BY <1>1, <1>2, InputStep, PlanStep, PlanOKStep
<1>15. IdsInv' /\ RenamesInv' /\ CycleInv' /\ AddsInv' /\ MovesInv'
  BY <1>6 DEF IdsInv, RenamesInv, CycleInv, AddsInv, MovesInv
<1>16. PartitionInv'
  <2>1. before' = before /\ \A j \in DOMAIN before : ~(j < index')
    BY <1>1, <1>3 DEF input
  <2> QED BY <1>6, <2>1 DEF PartitionInv
<1> QED BY <1>6, <1>13, <1>14, <1>15, <1>16 DEF UpdateInv

LEMMA DropColumnStep == UpdateInv /\ DropColumn => UpdateInv'
<1> SUFFICES ASSUME UpdateInv, DropColumn PROVE UpdateInv'
  OBVIOUS
<1> DEFINE place == Len(order) + 1
<1>1. /\ InputInv /\ PlanInv /\ PlanOK /\ DropsInv
      /\ pc = "drops" /\ index \in DOMAIN before /\ index' = index + 1
      /\ UNCHANGED input /\ UNCHANGED <<planned, after>>
  BY DEF UpdateInv, DropColumn, Altering
<1>2. /\ DOMAIN before = 1..Len(before) /\ Len(before) \in Nat /\ index \in 1..Len(before)
      /\ columns \in Seq(Fields) /\ DOMAIN columns = 1..Len(columns) /\ Len(columns) \in Nat
      /\ order \in Seq(Names) /\ Len(order) \in Nat
      /\ Len(columns) = Len(order) + (Len(before) + 1 - index)
      /\ place \in 1..Len(columns)
  BY <1>1 DEF DropsInv, InputInv
<1>14. DistinctIds(columns) /\ DistinctNames(columns)
  BY <1>1 DEF DropsInv
<1>3. \A k \in 1..Len(order) : \E j \in 1..(index - 1) :
        Retained(before[j]) /\ columns[k] = Updated(j) /\ order[k] = PlanName(j)
  BY <1>1 DEF DropsInv
<1>4. \A k \in place..Len(columns) : columns[k] = Updated(index + k - place)
  BY <1>1 DEF DropsInv
<1>5. \A j \in 1..(index - 1) : Retained(before[j]) => \E k \in 1..Len(order) : columns[k] = Updated(j)
  BY <1>1 DEF DropsInv
<1>6. /\ \A j : Updated(j)' = Updated(j) /\ (Retained(before[j])' <=> Retained(before[j]))
      /\ \A j : PlanName(j)' = PlanName(j)
      /\ before' = before
  BY <1>1, SameUpdated DEF input, PlanName
<1>7. columns[place] = Updated(index)
  BY <1>2, <1>4
<1>8. Updated(index) \in Fields /\ Updated(index).name = before[index].name
  BY <1>1, UpdatedField
<1>9. ASSUME Retained(before[index])
      PROVE  pc' = "drops" /\ DropsInv'
  <2>1. order' = Append(order, PlanName(index)) /\ columns' = columns /\ pc' = pc
    BY <1>9 DEF DropColumn, PlanName
  <2>2. PlanName(index) \in Names
    <3>1. before[index].id \in KeptIDs
      BY <1>9 DEF Retained
    <3>2. PICK l \in DOMAIN after : FieldOf(after, before[index].id) = after[l]
      BY <1>1, <3>1, KeptField DEF InputInv, PlanOK
    <3>3. after[l] \in Fields
      BY <1>1 DEF PlanOK
    <3> QED BY <3>2, <3>3 DEF Fields, PlanName
  <2>3. /\ order' \in Seq(Names) /\ Len(order') = place
        /\ \A k \in 1..Len(order) : order'[k] = order[k]
        /\ order'[place] = PlanName(index)
    BY <1>2, <2>1, <2>2
  <2>4. \A k \in 1..Len(order') : \E j \in 1..(index' - 1) :
          Retained(before[j]) /\ columns'[k] = Updated(j) /\ order'[k] = PlanName(j)
    <3> SUFFICES ASSUME NEW k \in 1..place
                 PROVE  \E j \in 1..index : Retained(before[j]) /\ columns[k] = Updated(j) /\ order'[k] = PlanName(j)
      <4>1. index' - 1 = index /\ Len(order') = place
        BY <1>1, <1>2, <2>3
      <4> QED BY <2>1, <4>1
    <3>1. CASE k = place
      BY <1>2, <1>7, <1>9, <2>3, <3>1
    <3>2. CASE k # place
      <4>1. k \in 1..Len(order)
        BY <1>2, <3>2
      <4>2. PICK j \in 1..(index - 1) : Retained(before[j]) /\ columns[k] = Updated(j) /\ order[k] = PlanName(j)
        BY <1>3, <4>1
      <4>3. j \in 1..index /\ order'[k] = order[k]
        BY <1>2, <2>3, <4>1
      <4> QED BY <4>2, <4>3
    <3> QED BY <3>1, <3>2
  <2>5. \A k \in (Len(order') + 1)..Len(columns') : columns'[k] = Updated(index' + k - (Len(order') + 1))
    <3> SUFFICES ASSUME NEW k \in (place + 1)..Len(columns)
                 PROVE  columns[k] = Updated(index + 1 + k - (place + 1))
      BY <1>1, <2>1, <2>3
    <3>1. k \in place..Len(columns) /\ index + 1 + k - (place + 1) = index + k - place
      BY <1>2
    <3> QED BY <1>4, <3>1
  <2>6. \A j \in 1..(index' - 1) : Retained(before[j]) => \E k \in 1..Len(order') : columns'[k] = Updated(j)
    <3> SUFFICES ASSUME NEW j \in 1..index, Retained(before[j])
                 PROVE  \E k \in 1..place : columns[k] = Updated(j)
      BY <1>1, <1>2, <2>1, <2>3 DEF Retained
    <3>1. CASE j = index
      BY <1>2, <1>7, <3>1
    <3>2. CASE j # index
      BY <1>2, <1>5, <3>2
    <3> QED BY <3>1, <3>2
  <2>7. index' \in 1..(Len(before) + 1) /\ Len(columns') = Len(order') + (Len(before) + 1 - index')
    BY <1>1, <1>2, <2>1, <2>3
  <2>8. pc' = "drops"
    BY <1>1, <2>1
  <2>9. DropsInv'
    BY <1>2, <1>14, <1>6, <2>1, <2>3, <2>4, <2>5, <2>6, <2>7 DEF DropsInv
  <2> QED BY <2>8, <2>9
<1>10. ASSUME ~Retained(before[index]), before[index].name \notin partition
       PROVE  pc' = "drops" /\ DropsInv'
  <2>2. Position(before[index].name) = place /\ Exists(before[index].name)
    BY <1>2, <1>14, <1>7, <1>8, PositionIs
  <2>3. columns' = RemoveAt(columns, place) /\ pc' = "drops" /\ order' = order
    BY <1>1, <1>10, <2>2 DEF DropColumn, CanDrop, Change
  <2>4. /\ columns' \in Seq(Fields) /\ Len(columns') = Len(columns) - 1
        /\ DOMAIN columns' = 1..(Len(columns) - 1)
        /\ \A k \in 1..(place - 1) : columns'[k] = columns[k]
        /\ \A k \in place..(Len(columns) - 1) : columns'[k] = columns[k + 1]
    <3> DEFINE left == RemoveAt(columns, place)
    <3>1. /\ left \in Seq(Fields) /\ Len(left) = Len(columns) - 1
          /\ \A k \in 1..(place - 1) : left[k] = columns[k]
          /\ \A k \in place..(Len(columns) - 1) : left[k] = columns[k + 1]
      BY <1>2, RemoveAtProperties
    <3> HIDE DEF left
    <3>2. DOMAIN left = 1..(Len(columns) - 1)
      BY <1>2, <3>1
    <3> QED BY <2>3, <3>1, <3>2 DEF left
  <2>5. \A k \in 1..Len(order') : \E j \in 1..(index' - 1) :
          Retained(before[j]) /\ columns'[k] = Updated(j) /\ order'[k] = PlanName(j)
    <3> SUFFICES ASSUME NEW k \in 1..Len(order)
                 PROVE  \E j \in 1..index : Retained(before[j]) /\ columns'[k] = Updated(j) /\ order[k] = PlanName(j)
      BY <1>1, <1>2, <2>3
    <3>1. columns'[k] = columns[k]
      BY <1>2, <2>4
    <3>2. PICK j \in 1..(index - 1) : Retained(before[j]) /\ columns[k] = Updated(j) /\ order[k] = PlanName(j)
      BY <1>3
    <3>3. j \in 1..index
      BY <1>2
    <3> QED BY <3>1, <3>2, <3>3
  <2>6. \A k \in (Len(order') + 1)..Len(columns') : columns'[k] = Updated(index' + k - (Len(order') + 1))
    <3> SUFFICES ASSUME NEW k \in place..(Len(columns) - 1)
                 PROVE  columns'[k] = Updated(index + 1 + k - place)
      BY <1>1, <2>3, <2>4
    <3>1. columns'[k] = columns[k + 1] /\ k + 1 \in place..Len(columns) /\ index + 1 + k - place = index + (k + 1) - place
      <4>1. columns'[k] = columns[k + 1]
        BY <2>4
      <4>2. k \in Int /\ place \in Int /\ index \in Int /\ place <= k /\ k <= Len(columns) - 1
        BY <1>2
      <4> HIDE DEF place
      <4>3. k + 1 \in place..Len(columns) /\ index + 1 + k - place = index + (k + 1) - place
        BY <1>2, <4>2
      <4> QED BY <4>1, <4>3
    <3> QED BY <1>4, <3>1
  <2>7. \A j \in 1..(index' - 1) : Retained(before[j]) => \E k \in 1..Len(order') : columns'[k] = Updated(j)
    <3> SUFFICES ASSUME NEW j \in 1..index, Retained(before[j])
                 PROVE  \E k \in 1..Len(order) : columns'[k] = Updated(j)
      BY <1>1, <1>2, <2>3
    <3>1. j \in 1..(index - 1)
      BY <1>2, <1>10
    <3>2. PICK k \in 1..Len(order) : columns[k] = Updated(j)
      BY <1>5, <3>1
    <3> QED BY <1>2, <2>4, <3>2
  <2>8. DistinctIds(columns') /\ DistinctNames(columns')
    BY <1>2, <1>14, <2>3, RemoveAtDistinct
  <2>9. index' \in 1..(Len(before) + 1) /\ Len(columns') = Len(order') + (Len(before) + 1 - index')
    BY <1>1, <1>2, <2>3, <2>4
  <2>10. DropsInv'
    BY <1>2, <1>6, <2>3, <2>4, <2>5, <2>6, <2>7, <2>8, <2>9 DEF DropsInv
  <2> QED BY <2>3, <2>10
<1>11. ASSUME Retained(before[index]) \/ before[index].name \notin partition
       PROVE  UpdateInv'
  <2>1. pc' = "drops" /\ DropsInv'
    BY <1>9, <1>10, <1>11
  <2>2. InputInv' /\ PlanInv' /\ PlanOK'
    BY <1>1, InputStep, PlanStep, PlanOKStep DEF Altering
  <2>3. IdsInv' /\ RenamesInv' /\ CycleInv' /\ AddsInv' /\ MovesInv'
    BY <2>1 DEF IdsInv, RenamesInv, CycleInv, AddsInv, MovesInv
  <2>4. PartitionInv'
    <3>1. ASSUME NEW j \in DOMAIN before, j < index + 1, before[j].name \in partition
          PROVE  before[j].id \in KeptIDs
      <4>1. CASE j = index
        BY <1>11, <3>1, <4>1 DEF Retained
      <4>2. CASE j # index
        <5>1. j < index
          BY <1>2, <3>1, <4>2
        <5> QED BY <1>1, <3>1, <5>1 DEF UpdateInv, PartitionInv
      <4> QED BY <4>1, <4>2
    <3>2. before' = before /\ partition' = partition /\ KeptIDs' = KeptIDs
      BY <1>1, SamePartition DEF input
    <3> QED BY <1>1, <2>1, <3>1, <3>2 DEF PartitionInv
  <2> QED BY <2>1, <2>2, <2>3, <2>4 DEF UpdateInv
<1>12. ASSUME ~Retained(before[index]), before[index].name \in partition
       PROVE  UpdateInv'
  <2>1. pc' = "rejected"
    BY <1>12 DEF DropColumn, CanDrop, Change
  <2>2. before[index].id \notin KeptIDs
    BY <1>12 DEF Retained
  <2>3. GivesUpPartition
    BY <1>1, <1>12, <2>2, GivesUp
  <2>4. PartitionInv'
    BY <1>1, <2>1, <2>3, SamePartition DEF PartitionInv
  <2> QED BY <1>1, <2>1, <2>4, RejectedStep
<1> QED BY <1>11, <1>12

\* The names of a retained field in the table and in the plan.
LEMMA KeptNames ==
  ASSUME InputInv, PlanOK, NEW id \in KeptIDs
  PROVE  FieldOf(before, id).name \in Names /\ FieldOf(after, id).name \in Names
<1>1. PICK j \in DOMAIN before, l \in DOMAIN after :
        FieldOf(before, id) = before[j] /\ FieldOf(after, id) = after[l]
  BY KeptField DEF InputInv, PlanOK
<1>2. before[j] \in Fields /\ after[l] \in Fields
  BY DEF InputInv, PlanOK
<1> QED BY <1>1, <1>2 DEF Fields

LEMMA DropsEndStep == UpdateInv /\ DropsEnd => UpdateInv'
<1> SUFFICES ASSUME UpdateInv, DropsEnd PROVE UpdateInv'
  OBVIOUS
<1>1. /\ InputInv /\ PlanInv /\ PlanOK /\ DropsInv
      /\ pc = "drops" /\ index \notin DOMAIN before /\ index' = index
      /\ UNCHANGED input /\ UNCHANGED <<planned, after, order, columns>>
      /\ now' = [id \in KeptIDs |-> FieldOf(before, id).name] /\ progress' = TRUE /\ pc' = "renames"
  BY DEF UpdateInv, DropsEnd, Altering
<1>2. /\ before' = before /\ after' = after /\ planned' = planned /\ KeptIDs' = KeptIDs
  BY <1>1 DEF input, KeptIDs
<1>3. /\ DOMAIN before = 1..Len(before) /\ Len(before) \in Nat /\ index = Len(before) + 1
      /\ columns \in Seq(Fields) /\ DOMAIN columns = 1..Len(columns)
      /\ order \in Seq(Names) /\ Len(order) \in Nat /\ Len(columns) = Len(order)
  BY <1>1 DEF DropsInv, InputInv
<1>4. DistinctIds(before) /\ DistinctNames(before) /\ DistinctIds(columns)
  BY <1>1 DEF InputInv, DropsInv
<1>5. ASSUME NEW j \in DOMAIN before, Retained(before[j])
      PROVE  /\ before[j].id \in KeptIDs /\ FieldOf(before, before[j].id) = before[j]
             /\ Updated(j) = Named(FieldOf(after, before[j].id), now'[before[j].id])
             /\ Updated(j).id = before[j].id
  <2>1. before[j].id \in KeptIDs /\ FieldOf(before, before[j].id) = before[j]
    BY <1>4, <1>5, FieldOfIs DEF Retained
  <2>2. now'[before[j].id] = before[j].name
    BY <1>1, <2>1
  <2>3. Updated(j).id = before[j].id
    BY <1>1, UpdatedField
  <2> QED BY <1>5, <2>1, <2>2, <2>3 DEF Updated
<1>6. ASSUME NEW k \in DOMAIN columns
      PROVE  /\ columns[k].id \in KeptIDs
             /\ columns[k] = Named(FieldOf(after, columns[k].id), now'[columns[k].id])
             /\ order[k] = FieldOf(after, columns[k].id).name
  <2>1. PICK j \in 1..(index - 1) : Retained(before[j]) /\ columns[k] = Updated(j) /\ order[k] = PlanName(j)
    BY <1>1, <1>3 DEF DropsInv
  <2>2. j \in DOMAIN before
    BY <1>3
  <2> QED BY <1>5, <2>1, <2>2 DEF PlanName
<1>7. ASSUME NEW id \in KeptIDs
      PROVE  /\ now'[id] \in Names /\ now'[id] = FieldOf(before, id).name
             /\ \E j \in DOMAIN before : before[j].id = id /\ now'[id] = before[j].name
             /\ \E k \in DOMAIN columns : columns[k].id = id
  <2>1. PICK j \in DOMAIN before : before[j].id = id /\ FieldOf(before, id) = before[j]
    BY <1>4, FieldOfIs DEF KeptIDs, IdsOf
  <2>2. Retained(before[j]) /\ j \in 1..(index - 1)
    BY <1>3, <2>1 DEF Retained
  <2>3. PICK k \in 1..Len(order) : columns[k] = Updated(j)
    BY <1>1, <2>2 DEF DropsInv
  <2>4. columns[k].id = id /\ k \in DOMAIN columns
    BY <1>3, <1>5, <2>1, <2>2, <2>3
  <2> QED BY <1>1, <2>1, <2>4, KeptNames
<1>8. \A id, other \in KeptIDs : now'[id] = now'[other] => id = other
  BY <1>4, <1>7 DEF DistinctNames
<1>9. now' \in [KeptIDs -> Names]
  BY <1>1, <1>7
<1>10. RenamesInv'
  <2>1. index \in Nat \ {0}
    BY <1>3
  <2> QED BY <1>1, <1>2, <1>3, <1>4, <1>6, <1>7, <1>8, <1>9, <2>1 DEF RenamesInv
<1>11. CycleInv'
  <2> SUFFICES ASSUME NEW ids \in SUBSET KeptIDs PROVE \A id \in ids : now'[id] = FieldOf(before, id).name
    BY <1>1, <1>2 DEF CycleInv
  <2> QED BY <1>7
<1>12. InputInv' /\ PlanInv' /\ PlanOK'
  BY <1>1, InputStep, PlanStep, PlanOKStep DEF Altering
<1>13. IdsInv' /\ DropsInv' /\ AddsInv' /\ MovesInv'
  BY <1>1 DEF IdsInv, DropsInv, AddsInv, MovesInv
<1>14. PartitionInv'
  <2>1. ASSUME NEW j \in DOMAIN before, before[j].name \in partition
        PROVE  before[j].id \in KeptIDs /\ now'[before[j].id] = before[j].name
    <3>1. j < index
      BY <1>3
    <3>2. before[j].id \in KeptIDs
      BY <1>1, <2>1, <3>1 DEF UpdateInv, PartitionInv
    <3>3. FieldOf(before, before[j].id) = before[j]
      BY <1>4, FieldOfIs
    <3> QED BY <1>7, <3>2, <3>3
  <2>2. partition' = partition
    BY <1>1 DEF input
  <2> QED BY <1>1, <1>2, <2>1, <2>2 DEF PartitionInv
<1> QED BY <1>1, <1>10, <1>11, <1>12, <1>13, <1>14 DEF UpdateInv

\* A retained field is planned as it stands among the fields with IDs.
LEMMA PlannedOf ==
  ASSUME InputInv, PlanOK, NEW id \in KeptIDs
  PROVE  FieldOf(planned, id) = FieldOf(after, id)
<1>1. PICK l \in DOMAIN after : after[l].id = id /\ FieldOf(after, id) = after[l]
  BY KeptField DEF InputInv, PlanOK
<1>2. id \in IdsOf(before) /\ New \notin IdsOf(before)
  BY SentinelAssumption DEF KeptIDs, InputInv
<1>3. DOMAIN planned = DOMAIN after
  BY DEF PlanOK
<1>4. planned[l] = after[l]
  BY <1>1, <1>2 DEF PlanOK
<1>5. ASSUME NEW m \in DOMAIN planned, planned[m].id = id
      PROVE  m = l
  <2>1. planned[m] = after[m]
    BY <1>2, <1>3, <1>5 DEF PlanOK
  <2> QED BY <1>1, <1>3, <1>5, <2>1 DEF PlanOK, DistinctIds
<1> QED BY <1>1, <1>3, <1>4, <1>5 DEF FieldOf

\* The names of the moment are those of the columns, and so differ.
LEMMA RenamingNames ==
  ASSUME InputInv, PlanOK, RenamesInv, pc \in {"renames", "cycle"}
  PROVE  /\ DistinctNames(columns)
         /\ \A k \in DOMAIN columns : columns[k].name = now[columns[k].id]
<1>1. ASSUME NEW k \in DOMAIN columns
      PROVE  columns[k].name = now[columns[k].id] /\ columns[k].id \in KeptIDs
  <2> DEFINE id == columns[k].id
  <2>1. id \in KeptIDs /\ columns[k] = Named(FieldOf(after, id), now[id]) /\ now[id] \in Names
    BY DEF RenamesInv
  <2>2. PICK l \in DOMAIN after : FieldOf(after, id) = after[l]
    BY <2>1, KeptField DEF InputInv, PlanOK
  <2>3. after[l] \in Fields
    BY DEF PlanOK
  <2> HIDE DEF id
  <2>4. columns[k].name = now[id]
    BY <2>1, <2>2, <2>3, WithName
  <2> QED BY <2>1, <2>4 DEF id
<1>2. DistinctNames(columns)
  BY <1>1 DEF DistinctNames, DistinctIds, RenamesInv
<1> QED BY <1>1, <1>2

LEMMA RenameColumnStep == UpdateInv /\ RenameColumn => UpdateInv'
<1> SUFFICES ASSUME UpdateInv, RenameColumn PROVE UpdateInv'
  OBVIOUS
<1> DEFINE id == before[index].id
           old == before[index].name
           new == FieldOf(after, id).name
<1>1. /\ InputInv /\ PlanInv /\ PlanOK /\ RenamesInv /\ CycleInv
      /\ pc = "renames" /\ index \in DOMAIN before /\ index' = index + 1
      /\ UNCHANGED input /\ UNCHANGED <<planned, after, order>>
  BY DEF UpdateInv, RenameColumn, Altering
<1>2. /\ before' = before /\ after' = after /\ planned' = planned /\ KeptIDs' = KeptIDs
  BY <1>1 DEF input, KeptIDs
<1>3. /\ columns \in Seq(Fields) /\ DOMAIN columns = 1..Len(columns)
      /\ order \in Seq(Names) /\ Len(columns) = Len(order) /\ index \in Nat \ {0}
      /\ now \in [KeptIDs -> Names]
  BY <1>1 DEF RenamesInv
<1>4. /\ \A k \in DOMAIN columns :
            /\ columns[k].id \in KeptIDs
            /\ columns[k] = Named(FieldOf(after, columns[k].id), now[columns[k].id])
            /\ order[k] = FieldOf(after, columns[k].id).name
      /\ \A i \in KeptIDs : \E k \in DOMAIN columns : columns[k].id = i
      /\ \A i \in KeptIDs : now[i] \in {FieldOf(before, i).name, FieldOf(after, i).name}
  BY <1>1 DEF RenamesInv
<1>5. /\ DistinctIds(columns) /\ DistinctNames(columns) /\ DistinctIds(before)
      /\ \A i, other \in KeptIDs : now[i] = now[other] => i = other
      /\ \A k \in DOMAIN columns : columns[k].name = now[columns[k].id]
  BY <1>1, RenamingNames DEF RenamesInv, InputInv
<1>6. ASSUME id \in KeptIDs /\ Pending(id) /\ ~Taken(id), old \notin partition
      PROVE  pc' = "renames" /\ RenamesInv' /\ CycleInv' /\ PartitionInv'
  <2>1. FieldOf(before, id) = before[index] /\ new \in Names /\ now[id] = old /\ old # new
    BY <1>1, <1>4, <1>5, <1>6, FieldOfIs, KeptNames DEF Pending
  <2>2. \A other \in KeptIDs \ {id} : now[other] # new
    BY <1>6 DEF Taken
  <2>3. PICK k \in DOMAIN columns : columns[k].id = id
    BY <1>4, <1>6
  <2>4. columns[k].name = old
    BY <1>5, <2>1, <2>3
  <2>5. Position(old) = k /\ Exists(old)
    BY <1>5, <2>4, PositionIs
  <2>6. ~Exists(new)
    BY <1>4, <1>5, <2>1, <2>2 DEF Exists, NamesOf
  <2>8. /\ columns' = [columns EXCEPT ![k].name = new] /\ pc' = pc
        /\ now' = [now EXCEPT ![id] = new] /\ progress' = TRUE
    BY <1>6, <2>5, <2>6 DEF RenameColumn, CanRename, Change
  <2> DEFINE column == Named(columns[k], new)
  <2>9. columns' = [columns EXCEPT ![k] = column]
    BY <2>8 DEF Named
  <2>10. column \in Fields /\ column.id = id /\ column = Named(FieldOf(after, id), new)
    <3> DEFINE field == FieldOf(after, id)
    <3>1. field \in Fields
      <4>1. PICK l \in DOMAIN after : field = after[l]
        BY <1>1, <1>6, KeptField DEF InputInv, PlanOK
      <4> QED BY <1>1, <4>1 DEF PlanOK
    <3>2. columns[k] = Named(field, old) /\ columns[k] \in Fields
      BY <1>3, <1>4, <2>1, <2>3
    <3>3. Named(Named(field, old), new) = Named(field, new)
      <4> HIDE DEF field
      <4> QED BY <3>1, <2>1 DEF Named, Fields
    <3> QED BY <2>1, <2>3, <3>2, <3>3, WithName
  <2> HIDE DEF column
  <2>11. /\ columns' \in Seq(Fields) /\ Len(columns') = Len(columns) /\ DOMAIN columns' = DOMAIN columns
         /\ columns'[k] = column /\ \A m \in DOMAIN columns \ {k} : columns'[m] = columns[m]
    BY <1>3, <2>9, <2>10
  <2>12. now' \in [KeptIDs -> Names] /\ now'[id] = new /\ \A i \in KeptIDs \ {id} : now'[i] = now[i]
    BY <1>3, <1>6, <2>1, <2>8
  <2> HIDE DEF id, old, new
  <2>13. \A m \in DOMAIN columns' :
            /\ columns'[m].id = columns[m].id
            /\ columns'[m].id \in KeptIDs
            /\ columns'[m] = Named(FieldOf(after, columns'[m].id), now'[columns'[m].id])
            /\ order[m] = FieldOf(after, columns'[m].id).name
    <3> SUFFICES ASSUME NEW m \in DOMAIN columns
                 PROVE  /\ columns'[m].id = columns[m].id
                        /\ columns'[m].id \in KeptIDs
                        /\ columns'[m] = Named(FieldOf(after, columns'[m].id), now'[columns'[m].id])
                        /\ order[m] = FieldOf(after, columns'[m].id).name
      BY <2>11
    <3>1. CASE m = k
      BY <1>4, <2>3, <2>10, <2>11, <2>12, <3>1
    <3>2. CASE m # k
      <4>1. columns'[m] = columns[m] /\ columns[m].id \in KeptIDs \ {id}
        BY <1>4, <1>5, <2>3, <2>11, <3>2 DEF DistinctIds
      <4> QED BY <1>4, <2>12, <4>1
    <3> QED BY <3>1, <3>2
  <2>14. \A i, other \in KeptIDs : now'[i] = now'[other] => i = other
    BY <1>5, <2>2, <2>12
  <2>15. \A i \in KeptIDs : now'[i] \in {FieldOf(before, i).name, FieldOf(after, i).name}
    BY <1>4, <2>12 DEF new
  <2>16. \A i \in KeptIDs : \E m \in DOMAIN columns' : columns'[m].id = i
    BY <1>4, <2>11, <2>13
  <2>17. DistinctIds(columns')
    BY <1>5, <2>11, <2>13 DEF DistinctIds
  <2>18. index' \in Nat \ {0} /\ pc' = "renames" /\ pc' # "cycle" /\ progress' = TRUE /\ Len(columns') = Len(order')
    BY <1>1, <1>3, <2>8, <2>11
  <2>19. RenamesInv'
    BY <1>1, <1>2, <1>3, <2>11, <2>12, <2>13, <2>14, <2>15, <2>16, <2>17, <2>18 DEF RenamesInv
  <2>20. CycleInv'
    <3>1. ASSUME NEW ids \in SUBSET KeptIDs, ExchangeNames(ids)
          PROVE  \A i \in ids : now'[i] = FieldOf(before, i).name
      <4>1. \A i \in ids : now[i] = FieldOf(before, i).name
        BY <1>1, <3>1 DEF CycleInv
      <4>2. id \notin ids
        <5> SUFFICES ASSUME id \in ids PROVE FALSE
          OBVIOUS
        <5>1. FieldOf(planned, id).name = new
          BY <1>1, <1>6, PlannedOf DEF new
        <5>2. PICK other \in ids : FieldOf(before, other).name = new
          BY <3>1, <5>1 DEF ExchangeNames
        <5>3. now[other] = new /\ other # id
          BY <2>1, <4>1, <5>2
        <5> QED BY <2>2, <5>3
      <4> QED BY <2>12, <4>1, <4>2
    <3>2. \A ids : ExchangeNames(ids)' <=> ExchangeNames(ids)
      BY <1>2 DEF ExchangeNames
    <3> QED BY <1>2, <2>18, <3>1, <3>2 DEF CycleInv
  <2>21. PartitionInv'
    <3>1. ASSUME NEW j \in DOMAIN before, before[j].name \in partition
          PROVE  before[j].id \in KeptIDs /\ now'[before[j].id] = before[j].name
      <4>1. before[j].id \in KeptIDs /\ now[before[j].id] = before[j].name
        BY <1>1, <3>1 DEF UpdateInv, PartitionInv
      <4>2. before[j].id # id
        BY <1>1, <1>5, <1>6, <3>1 DEF DistinctIds, id, old
      <4> QED BY <2>12, <4>1, <4>2
    <3>2. partition' = partition
      BY <1>1 DEF input
    <3> QED BY <1>2, <2>18, <3>1, <3>2 DEF PartitionInv
  <2> QED BY <2>18, <2>19, <2>20, <2>21
<1>7. ASSUME ~(id \in KeptIDs /\ Pending(id) /\ ~Taken(id))
      PROVE  pc' = "renames" /\ RenamesInv' /\ CycleInv' /\ PartitionInv'
  <2>1. UNCHANGED <<pc, columns, now, progress>>
    BY <1>7 DEF RenameColumn
  <2>2. \A i : (Pending(i)' <=> Pending(i)) /\ (Taken(i)' <=> Taken(i)) /\ (ExchangeNames(i)' <=> ExchangeNames(i))
    BY <1>2, <2>1 DEF Pending, Taken, ExchangeNames
  <2>3. pc' = "renames" /\ CycleInv'
    BY <1>1, <1>2, <2>1, <2>2 DEF CycleInv
  <2>4. ~progress' => \A j \in 1..(index' - 1) : j \in DOMAIN before =>
          before[j].id \notin KeptIDs \/ ~Pending(before[j].id) \/ Taken(before[j].id)
    <3> SUFFICES ASSUME ~progress, NEW j \in 1..index, j \in DOMAIN before
                 PROVE  before[j].id \notin KeptIDs \/ ~Pending(before[j].id) \/ Taken(before[j].id)
      BY <1>1, <1>3, <2>1
    <3>1. CASE j = index
      BY <1>7, <3>1
    <3>2. CASE j # index
      <4>1. j \in 1..(index - 1)
        BY <1>3, <3>2
      <4> QED BY <1>1, <4>1 DEF RenamesInv
    <3> QED BY <3>1, <3>2
  <2>5. index' \in Nat \ {0}
    BY <1>1, <1>3
  <2>6. RenamesInv'
    BY <1>1, <1>2, <1>3, <1>4, <1>5, <2>1, <2>2, <2>4, <2>5 DEF RenamesInv
  <2>7. PartitionInv'
    <3>1. partition' = partition
      BY <1>1 DEF input
    <3> QED BY <1>1, <1>2, <2>1, <2>3, <3>1 DEF UpdateInv, PartitionInv
  <2> QED BY <2>3, <2>6, <2>7
<1>8. ASSUME id \in KeptIDs /\ Pending(id) /\ ~Taken(id), old \in partition
      PROVE  UpdateInv'
  <2>1. pc' = "rejected"
    BY <1>8 DEF RenameColumn, CanRename, Change
  <2>2. now[id] = old
    BY <1>1, <1>8 DEF UpdateInv, PartitionInv
  <2>3. GivesUpPartition
    BY <1>1, <1>8, <2>2, GivesUp DEF Pending
  <2>4. PartitionInv'
    BY <1>1, <2>1, <2>3, SamePartition DEF PartitionInv
  <2> QED BY <1>1, <2>1, <2>4, RejectedStep
<1>9. ASSUME pc' = "renames" /\ RenamesInv' /\ CycleInv' /\ PartitionInv'
      PROVE  UpdateInv'
  <2>1. InputInv' /\ PlanInv' /\ PlanOK'
    BY <1>1, InputStep, PlanStep, PlanOKStep DEF Altering
  <2>2. IdsInv' /\ DropsInv' /\ AddsInv' /\ MovesInv'
    BY <1>9 DEF IdsInv, DropsInv, AddsInv, MovesInv
  <2> QED BY <1>9, <2>1, <2>2 DEF UpdateInv
<1> QED BY <1>6, <1>7, <1>8, <1>9

LEMMA RenamePassEndsStep == UpdateInv /\ RenamePassEnds => UpdateInv'
<1> SUFFICES ASSUME UpdateInv, RenamePassEnds PROVE UpdateInv'
  OBVIOUS
<1>1. /\ InputInv /\ PlanInv /\ PlanOK /\ RenamesInv /\ CycleInv
      /\ pc = "renames" /\ index \notin DOMAIN before /\ index' = 1 /\ progress' = FALSE
      /\ UNCHANGED input /\ UNCHANGED <<planned, after, now, order, columns>>
      /\ pc' = IF \A id \in KeptIDs : ~Pending(id) THEN "adds" ELSE IF progress THEN "renames" ELSE "cycle"
  BY DEF UpdateInv, RenamePassEnds, Altering
<1>2. /\ before' = before /\ after' = after /\ planned' = planned /\ KeptIDs' = KeptIDs
      /\ \A i : (Pending(i)' <=> Pending(i)) /\ (Taken(i)' <=> Taken(i)) /\ (ExchangeNames(i)' <=> ExchangeNames(i))
  BY <1>1 DEF input, KeptIDs, Pending, Taken, ExchangeNames
<1>3. InputInv' /\ PlanInv' /\ PlanOK'
  BY <1>1, InputStep, PlanStep, PlanOKStep DEF Altering
<1>4. ASSUME \A id \in KeptIDs : ~Pending(id)
      PROVE  pc' = "adds" /\ RenamesInv' /\ CycleInv' /\ AddsInv'
  <2>1. pc' = "adds"
    BY <1>1, <1>4
  <2>2. ASSUME NEW ids \in SUBSET KeptIDs, ExchangeNames(ids)
        PROVE  ids = {}
    <3> SUFFICES ASSUME NEW id \in ids PROVE FALSE
      OBVIOUS
    <3>1. now[id] = FieldOf(before, id).name
      BY <1>1, <2>2 DEF CycleInv
    <3>2. FieldOf(before, id).name # FieldOf(after, id).name
      BY <1>1, <2>2, PlannedOf DEF ExchangeNames
    <3> QED BY <1>4, <3>1, <3>2 DEF Pending
  <2>3. CycleInv' /\ RenamesInv'
    BY <1>2, <2>1, <2>2 DEF CycleInv, RenamesInv
  <2>4. /\ columns \in Seq(Fields) /\ order \in Seq(Names) /\ Len(columns) = Len(order)
        /\ DistinctNames(columns)
    BY <1>1, RenamingNames DEF RenamesInv
  <2>5. ASSUME NEW k \in DOMAIN columns, NEW l \in DOMAIN after, columns[k].id = after[l].id
        PROVE  columns[k] = planned[l] /\ order[k] = columns[k].name /\ after[l].id \in IdsOf(before)
    <3>1. /\ after[l].id \in KeptIDs
          /\ columns[k] = Named(FieldOf(after, after[l].id), now[after[l].id])
          /\ order[k] = FieldOf(after, after[l].id).name
      BY <1>1, <2>5 DEF RenamesInv
    <3>2. FieldOf(after, after[l].id) = after[l]
      BY <1>1, FieldOfIs DEF PlanOK
    <3>3. now[after[l].id] = after[l].name
      BY <1>4, <3>1, <3>2 DEF Pending
    <3>4. after[l] \in Fields
      BY <1>1 DEF PlanOK
    <3>5. after[l].name \in Names
      BY <3>4 DEF Fields
    <3>6. columns[k] = after[l]
      BY <3>1, <3>2, <3>3, <3>4, <3>5, WithName
    <3>7. after[l].id \in IdsOf(before)
      BY <3>1 DEF KeptIDs
    <3> QED BY <1>1, <3>1, <3>2, <3>6, <3>7 DEF PlanOK
  <2>6. ASSUME NEW k \in DOMAIN columns
        PROVE  /\ order[k] = columns[k].name
               /\ \E l \in DOMAIN after : after[l].id \in IdsOf(before) /\ columns[k] = planned[l]
    <3>1. columns[k].id \in KeptIDs
      BY <1>1 DEF RenamesInv
    <3>2. PICK l \in DOMAIN after : after[l].id = columns[k].id
      BY <3>1 DEF KeptIDs, IdsOf
    <3> QED BY <2>5, <3>2
  <2>7. ASSUME NEW l \in DOMAIN after, after[l].id \in IdsOf(before)
        PROVE  \E k \in DOMAIN columns : columns[k] = planned[l]
    <3>1. after[l].id \in KeptIDs
      BY <2>7 DEF KeptIDs, IdsOf
    <3>2. PICK k \in DOMAIN columns : columns[k].id = after[l].id
      BY <1>1, <3>1 DEF RenamesInv
    <3> QED BY <2>5, <3>2
  <2>8. \A l \in DOMAIN after : Present(l)' <=> after[l].id \in IdsOf(before)
    <3>1. \A l \in DOMAIN after : l \in Nat /\ ~(l < 1)
      BY <1>1 DEF PlanOK
    <3> QED BY <1>1, <1>2, <2>1, <3>1 DEF Present
  <2>9. AddsInv'
    BY <1>1, <1>2, <2>1, <2>4, <2>6, <2>7, <2>8 DEF AddsInv
  <2> QED BY <2>1, <2>3, <2>9
<1>5. ASSUME ~(\A id \in KeptIDs : ~Pending(id))
      PROVE  pc' \in {"renames", "cycle"} /\ RenamesInv' /\ CycleInv' /\ AddsInv'
  <2>1. pc' \in {"renames", "cycle"} /\ (pc' = "cycle" => ~progress)
    BY <1>1, <1>5
  <2>2. ASSUME ~progress, NEW id \in KeptIDs, Pending(id)
        PROVE  Taken(id)
    <3>1. PICK j \in DOMAIN before : before[j].id = id
      BY DEF KeptIDs, IdsOf
    <3>2. j \in 1..(index - 1)
      <4>1. DOMAIN before = 1..Len(before) /\ Len(before) \in Nat /\ index \in Nat \ {0}
        BY <1>1 DEF InputInv, RenamesInv
      <4> QED BY <1>1, <4>1
    <3> QED BY <1>1, <2>2, <3>1, <3>2 DEF RenamesInv
  <2>3. pc' = "cycle" => (\E id \in KeptIDs : Pending(id)) /\ \A id \in KeptIDs : Pending(id) => Taken(id)
    BY <1>5, <2>1, <2>2
  <2>4. pc' = "renames" /\ ~progress' => \A j \in 1..(index' - 1) : j \in DOMAIN before' =>
          before'[j].id \notin KeptIDs \/ ~Pending(before'[j].id) \/ Taken(before'[j].id)
    BY <1>1
  <2>5. RenamesInv'
    BY <1>1, <1>2, <2>1, <2>3, <2>4 DEF RenamesInv
  <2>6. CycleInv' /\ AddsInv'
    BY <1>1, <1>2, <2>1 DEF CycleInv, AddsInv
  <2> QED BY <2>1, <2>5, <2>6
<1>6. pc' \in {"renames", "cycle", "adds"} /\ RenamesInv' /\ CycleInv' /\ AddsInv'
  BY <1>4, <1>5
<1>7. IdsInv' /\ DropsInv' /\ MovesInv'
  BY <1>6 DEF IdsInv, DropsInv, MovesInv
<1>8. PartitionInv'
  <2>1. \A j \in DOMAIN before : before[j].name \in partition =>
          before[j].id \in KeptIDs /\ now[before[j].id] = before[j].name
    BY <1>1 DEF UpdateInv, PartitionInv
  <2>2. ASSUME \A id \in KeptIDs : ~Pending(id)
        PROVE  ~GivesUpPartition
    BY <1>1, <2>1, <2>2, GivesUp DEF Pending
  <2>3. (GivesUpPartition' <=> GivesUpPartition) /\ partition' = partition
    BY <1>1, SamePartition DEF input
  <2> QED BY <1>1, <1>2, <2>1, <2>2, <2>3 DEF PartitionInv
<1> QED BY <1>3, <1>6, <1>7, <1>8 DEF UpdateInv

\* The expected order follows where the catalog puts a new column.
LEMMA PlacesAgree ==
  ASSUME columns \in Seq(Fields), order \in Seq(Names), Len(columns) = Len(order),
         \A k \in DOMAIN columns : order[k] = columns[k].name
  PROVE  PlaceForNew = AddedAt /\ AddedAt \in 1..(Len(order) + 1)
<1> DEFINE partitions == {i \in DOMAIN order : order[i] \in partition}
<1>1. DOMAIN order = 1..Len(order) /\ DOMAIN columns = DOMAIN order /\ Len(order) \in Nat
  OBVIOUS
<1>2. {i \in DOMAIN columns : columns[i].name \in partition} = partitions
  BY <1>1
<1> DEFINE Least(S) == CHOOSE i \in S : \A j \in S : i <= j
<1>3. /\ AddedAt = IF beforePartition /\ partitions # {} THEN Least(partitions) ELSE Len(order) + 1
      /\ PlaceForNew = IF beforePartition /\ {i \in DOMAIN columns : columns[i].name \in partition} # {}
                          THEN Least({i \in DOMAIN columns : columns[i].name \in partition})
                          ELSE Len(columns) + 1
  BY DEF AddedAt, PlaceForNew
<1>4. partitions \subseteq 1..Len(order)
  BY <1>1
<1> HIDE DEF partitions
<1>5. ASSUME partitions # {}
      PROVE  Least(partitions) \in partitions
  <2>1. partitions \subseteq Nat
    BY <1>4
  <2>2. \E i \in partitions : \A j \in partitions : i <= j
    BY <1>5, <2>1, LeastExists
  <2> QED BY <2>2
<1> HIDE DEF Least
<1>6. AddedAt \in 1..(Len(order) + 1)
  <2>1. CASE beforePartition /\ partitions # {}
    <3>1. AddedAt \in 1..Len(order)
      BY <1>3, <1>4, <1>5, <2>1
    <3> QED BY <1>1, <3>1
  <2>2. CASE ~(beforePartition /\ partitions # {})
    BY <1>1, <1>3, <2>2
  <2> QED BY <2>1, <2>2
<1> QED BY <1>2, <1>3, <1>6

LEMMA AddColumnStep == UpdateInv /\ AddColumn => UpdateInv'
<1> SUFFICES ASSUME UpdateInv, AddColumn PROVE UpdateInv'
  OBVIOUS
<1> DEFINE field == after[index]
<1>1. /\ InputInv /\ PlanInv /\ PlanOK /\ AddsInv /\ CycleInv
      /\ pc = "adds" /\ index \in DOMAIN after /\ index' = index + 1
      /\ UNCHANGED input /\ UNCHANGED <<planned, after, now, progress>>
  BY DEF UpdateInv, AddColumn, Altering
<1>2. /\ before' = before /\ after' = after /\ planned' = planned /\ KeptIDs' = KeptIDs
      /\ \A i : ExchangeNames(i)' <=> ExchangeNames(i)
  BY <1>1 DEF input, KeptIDs, ExchangeNames
<1>3. /\ columns \in Seq(Fields) /\ order \in Seq(Names) /\ Len(columns) = Len(order)
      /\ DOMAIN columns = 1..Len(columns) /\ Len(columns) \in Nat /\ index \in Nat \ {0}
      /\ \A k \in DOMAIN columns : order[k] = columns[k].name
  BY <1>1 DEF AddsInv
<1>4. DistinctNames(columns) /\ DistinctNames(after)
  BY <1>1 DEF AddsInv, PlanOK
<1>5. /\ \A k \in DOMAIN columns : \E l \in DOMAIN after : Present(l) /\ columns[k] = planned[l]
      /\ \A l \in DOMAIN after : Present(l) => \E k \in DOMAIN columns : columns[k] = planned[l]
  BY <1>1 DEF AddsInv
<1>6. \A l \in DOMAIN after : /\ l \in Nat
                              /\ planned[l].name = after[l].name
  <2>1. \A l \in DOMAIN after : planned[l].name = after[l].name
    BY <1>1 DEF PlanOK, SameButID
  <2> QED BY <1>1, <2>1 DEF PlanOK
<1>7. ASSUME field.id \in IdsOf(before)
      PROVE  pc' = "adds" /\ AddsInv'
  <2>1. UNCHANGED <<pc, columns, order>>
    BY <1>7 DEF AddColumn
  <2>2. \A l \in DOMAIN after : Present(l)' <=> Present(l)
    BY <1>1, <1>2, <1>3, <1>6, <1>7, <2>1 DEF Present
  <2>3. index' \in Nat \ {0} /\ pc' = "adds"
    BY <1>1, <1>3, <2>1
  <2> QED BY <1>2, <1>3, <1>4, <1>5, <2>1, <2>2, <2>3 DEF AddsInv
<1>8. ASSUME field.id \notin IdsOf(before)
      PROVE  pc' = "adds" /\ AddsInv'
  <2> DEFINE new == planned[index]
             place == AddedAt
  <2>1. /\ new.id = New /\ SameButID(field, new) /\ field.nullable = TRUE
        /\ field \in Fields /\ new \in Fields
    BY <1>1, <1>8 DEF PlanOK
  <2>2. [field EXCEPT !.id = New] = new
    <3> HIDE DEF field, new
    <3> QED BY <2>1 DEF Fields, SameButID
  <2>3. ~Present(index)
    BY <1>1, <1>3, <1>8 DEF Present
  <2>4. ~Exists(field.name)
    <3> SUFFICES ASSUME NEW k \in DOMAIN columns, columns[k].name = field.name PROVE FALSE
      BY DEF Exists, NamesOf
    <3>1. PICK l \in DOMAIN after : Present(l) /\ columns[k] = planned[l]
      BY <1>5
    <3>2. after[l].name = field.name
      BY <1>6, <3>1
    <3>3. l = index
      BY <1>1, <1>4, <3>2 DEF DistinctNames
    <3> QED BY <2>3, <3>1, <3>3
  <2>5. PlaceForNew = place /\ place \in 1..(Len(columns) + 1)
    BY <1>3, PlacesAgree
  <2>6. /\ columns' = InsertAt(columns, place, new) /\ pc' = "adds"
        /\ order' = InsertAt(order, place, field.name)
    BY <1>1, <1>8, <2>1, <2>2, <2>4, <2>5 DEF AddColumn, CanAdd, Change
  <2>7. field.name \in Names /\ new.name = field.name
    <3> HIDE DEF field, new
    <3> QED BY <2>1 DEF Fields, SameButID
  <2> DEFINE others == 1..(Len(columns) + 1) \ {place}
  <2> HIDE DEF place, new, field, others
  <2>8. /\ columns' \in Seq(Fields) /\ Len(columns') = Len(columns) + 1
        /\ DOMAIN columns' = 1..(Len(columns) + 1) /\ columns'[place] = new
        /\ \A k \in others : Origin(place, k) \in DOMAIN columns /\ columns'[k] = columns[Origin(place, k)]
        /\ \A k, l \in others : Origin(place, k) = Origin(place, l) => k = l
        /\ \A m \in DOMAIN columns : \E k \in others : Origin(place, k) = m
    <3>1. columns \in Seq(Fields) /\ place \in 1..(Len(columns) + 1) /\ new \in Fields
      BY <1>3, <2>1, <2>5
    <3> DEFINE t == InsertAt(columns, place, new)
    <3>2. /\ t \in Seq(Fields)
          /\ Len(t) = Len(columns) + 1
          /\ DOMAIN t = 1..(Len(columns) + 1)
          /\ t[place] = new
          /\ \A k \in 1..(Len(columns) + 1) \ {place} :
               Origin(place, k) \in 1..Len(columns) /\ t[k] = columns[Origin(place, k)]
          /\ \A k, l \in 1..(Len(columns) + 1) \ {place} : Origin(place, k) = Origin(place, l) => k = l
          /\ \A m \in 1..Len(columns) : \E k \in 1..(Len(columns) + 1) \ {place} : Origin(place, k) = m
      BY <3>1, InsertAtOrigin, SMTT(60)
    <3>3. columns' = t
      BY <2>6
    <3> HIDE DEF t
    <3> QED BY <1>3, <3>2, <3>3 DEF others
  <2>9. /\ order' \in Seq(Names) /\ Len(order') = Len(columns) + 1 /\ order'[place] = field.name
        /\ \A k \in others : order'[k] = order[Origin(place, k)]
    <3>1. order \in Seq(Names) /\ place \in 1..(Len(order) + 1) /\ field.name \in Names
      BY <1>3, <2>5, <2>7
    <3> DEFINE t == InsertAt(order, place, field.name)
    <3>2. /\ t \in Seq(Names)
          /\ Len(t) = Len(order) + 1
          /\ DOMAIN t = 1..(Len(order) + 1)
          /\ t[place] = field.name
          /\ \A k \in 1..(Len(order) + 1) \ {place} :
               Origin(place, k) \in 1..Len(order) /\ t[k] = order[Origin(place, k)]
          /\ \A k, l \in 1..(Len(order) + 1) \ {place} : Origin(place, k) = Origin(place, l) => k = l
          /\ \A m \in 1..Len(order) : \E k \in 1..(Len(order) + 1) \ {place} : Origin(place, k) = m
      BY <3>1, InsertAtOrigin, SMTT(60)
    <3>3. order' = t
      BY <2>6
    <3> HIDE DEF t
    <3> QED BY <1>3, <3>2, <3>3 DEF others
  <2>10. DOMAIN columns' = others \cup {place} /\ place \in DOMAIN columns'
    BY <2>5, <2>8 DEF others
  <2>11. \A l \in DOMAIN after : Present(l)' <=> Present(l) \/ l = index
    BY <1>1, <1>2, <1>3, <1>6, <2>6 DEF Present
  <2>12. \A k \in DOMAIN columns' : order'[k] = columns'[k].name
    <3>1. \A k \in others : order'[k] = columns'[k].name
      BY <1>3, <2>8, <2>9
    <3> QED BY <2>7, <2>8, <2>9, <2>10, <3>1
  <2>13. DistinctNames(columns')
    <3>1. \A k \in others : columns'[k].name # new.name
      BY <2>4, <2>7, <2>8 DEF Exists, NamesOf
    <3>2. \A k, l \in others : columns'[k].name = columns'[l].name => k = l
      BY <1>4, <2>8 DEF DistinctNames
    <3> QED BY <2>8, <2>10, <3>1, <3>2 DEF DistinctNames
  <2>14. ASSUME NEW k \in DOMAIN columns'
         PROVE  \E l \in DOMAIN after : (Present(l) \/ l = index) /\ columns'[k] = planned[l]
    <3>1. CASE k = place
      BY <1>1, <2>8, <3>1 DEF new
    <3>2. CASE k \in others
      BY <1>5, <2>8, <3>2
    <3> QED BY <2>10, <3>1, <3>2
  <2>15. ASSUME NEW l \in DOMAIN after, Present(l) \/ l = index
         PROVE  \E k \in DOMAIN columns' : columns'[k] = planned[l]
    <3>1. CASE l = index
      BY <2>8, <2>10, <3>1 DEF new
    <3>2. CASE Present(l)
      <4>1. PICK m \in DOMAIN columns : columns[m] = planned[l]
        BY <1>5, <3>2
      <4>2. PICK k \in others : Origin(place, k) = m
        BY <2>8
      <4> QED BY <2>8, <2>10, <4>1, <4>2
    <3> QED BY <2>15, <3>1, <3>2
  <2>16. index' \in Nat \ {0} /\ pc' = "adds" /\ Len(columns') = Len(order')
    BY <1>1, <1>3, <2>6, <2>8, <2>9
  <2>17. AddsInv'
    BY <1>2, <2>8, <2>9, <2>11, <2>12, <2>13, <2>14, <2>15, <2>16 DEF AddsInv
  <2> QED BY <2>16, <2>17
<1>9. pc' = "adds" /\ AddsInv'
  BY <1>7, <1>8
<1>10. InputInv' /\ PlanInv' /\ PlanOK'
  BY <1>1, InputStep, PlanStep, PlanOKStep DEF Altering
<1>11. IdsInv' /\ DropsInv' /\ RenamesInv' /\ CycleInv' /\ MovesInv'
  BY <1>1, <1>2, <1>9 DEF IdsInv, DropsInv, RenamesInv, CycleInv, MovesInv
<1>12. PartitionInv'
  BY <1>1, <1>9, PartitionStep DEF UpdateInv
<1> QED BY <1>9, <1>10, <1>11, <1>12 DEF UpdateInv

LEMMA AddsEndStep == UpdateInv /\ AddsEnd => UpdateInv'
<1> SUFFICES ASSUME UpdateInv, AddsEnd PROVE UpdateInv'
  OBVIOUS
<1>1. /\ InputInv /\ PlanInv /\ PlanOK /\ AddsInv /\ CycleInv
      /\ pc = "adds" /\ index \notin DOMAIN after /\ pc' = "moves" /\ index' = 1
      /\ UNCHANGED input /\ UNCHANGED <<planned, after, now, progress, order, columns>>
  BY DEF UpdateInv, AddsEnd, Altering
<1>2. /\ before' = before /\ after' = after /\ planned' = planned /\ KeptIDs' = KeptIDs
      /\ \A i : ExchangeNames(i)' <=> ExchangeNames(i)
  BY <1>1 DEF input, KeptIDs, ExchangeNames
<1>3. DOMAIN after = 1..Len(after) /\ Len(after) \in Nat /\ columns \in Seq(Fields) /\ index \in Nat \ {0}
  BY <1>1 DEF PlanOK, AddsInv
<1>4. \A l \in DOMAIN after : Present(l) /\ Present(l)'
  BY <1>1, <1>2, <1>3 DEF Present
<1>5. AddsInv'
  BY <1>1, <1>2, <1>4 DEF AddsInv
<1>6. MovesInv'
  <2>1. index' <= Len(after') + 1 /\ index' <= Len(columns') + 1 /\ 1..(index' - 1) = {}
    BY <1>1, <1>3
  <2> QED BY <2>1 DEF MovesInv
<1>7. InputInv' /\ PlanInv' /\ PlanOK'
  BY <1>1, InputStep, PlanStep, PlanOKStep DEF Altering
<1>8. IdsInv' /\ DropsInv' /\ RenamesInv' /\ CycleInv'
  BY <1>1, <1>2 DEF IdsInv, DropsInv, RenamesInv, CycleInv
<1>9. PartitionInv'
  BY <1>1, PartitionStep DEF UpdateInv
<1> QED BY <1>1, <1>5, <1>6, <1>7, <1>8, <1>9 DEF UpdateInv

LEMMA MoveColumnStep == UpdateInv /\ MoveColumn => UpdateInv'
<1> SUFFICES ASSUME UpdateInv, MoveColumn PROVE UpdateInv'
  OBVIOUS
<1> DEFINE name == after[index].name
           current == CHOOSE i \in DOMAIN order : order[i] = name
           target == IF index = 1 THEN First ELSE after[index - 1].name
<1>1. /\ InputInv /\ PlanInv /\ PlanOK /\ AddsInv /\ CycleInv /\ MovesInv
      /\ pc = "moves" /\ index \in DOMAIN after /\ index' = index + 1
      /\ UNCHANGED input /\ UNCHANGED <<planned, after, now, progress>>
  BY DEF UpdateInv, MoveColumn, Altering
<1>2. /\ before' = before /\ after' = after /\ planned' = planned /\ KeptIDs' = KeptIDs
      /\ \A i : ExchangeNames(i)' <=> ExchangeNames(i)
  BY <1>1 DEF input, KeptIDs, ExchangeNames
<1>3. /\ columns \in Seq(Fields) /\ order \in Seq(Names) /\ Len(columns) = Len(order)
      /\ DOMAIN columns = 1..Len(columns) /\ DOMAIN order = 1..Len(columns) /\ Len(columns) \in Nat
      /\ DOMAIN after = 1..Len(after) /\ Len(after) \in Nat /\ index \in 1..Len(after)
  BY <1>1 DEF AddsInv, PlanOK
<1>4. DistinctNames(columns) /\ DistinctNames(after) /\ \A k \in DOMAIN columns : order[k] = columns[k].name
  BY <1>1 DEF AddsInv, PlanOK
<1>5. /\ \A k \in DOMAIN columns : \E l \in DOMAIN after : columns[k] = planned[l]
      /\ \A l \in DOMAIN after : \E k \in DOMAIN columns : columns[k] = planned[l]
  BY <1>1 DEF AddsInv, Present
<1>6. \A l \in DOMAIN after : planned[l].name = after[l].name /\ planned[l].name \in Names
  <2>1. \A l \in DOMAIN after : planned[l].name = after[l].name /\ planned[l] \in Fields
    BY <1>1 DEF PlanOK, SameButID
  <2> QED BY <2>1 DEF Fields
<1>7. PICK k \in DOMAIN columns : columns[k] = planned[index]
  BY <1>1, <1>5
<1>8. columns[k].name = name /\ order[k] = name
  BY <1>1, <1>4, <1>6, <1>7
<1>9. current = k
  BY <1>3, <1>4, <1>8 DEF DistinctNames
<1>10. k >= index
  <2> SUFFICES ASSUME k < index PROVE FALSE
    BY <1>3
  <2>1. k \in DOMAIN after /\ columns[k] = planned[k]
    BY <1>1, <1>3 DEF MovesInv
  <2>2. after[k].name = after[index].name
    BY <1>6, <1>8, <2>1
  <2>3. k = index
    BY <1>1, <1>4, <2>1, <2>2 DEF DistinctNames
  <2> QED BY <1>3, <2>3
<1>11. Position(name) = k /\ Exists(name)
  BY <1>4, <1>8, PositionIs
<1>12. ASSUME k = index
       PROVE  pc' = "moves" /\ AddsInv' /\ MovesInv'
  <2>1. UNCHANGED <<pc, columns, order>>
    BY <1>9, <1>12 DEF MoveColumn
  <2>2. AddsInv'
    <3>1. index' \in Nat \ {0} /\ pc' = "moves"
      BY <1>1, <1>3, <2>1
    <3>2. \A l : Present(l)'
      BY <3>1 DEF Present
    <3> QED BY <1>2, <1>3, <1>4, <1>5, <2>1, <3>1, <3>2 DEF AddsInv
  <2>3. MovesInv'
    <3>1. index' <= Len(after') + 1 /\ index' <= Len(columns') + 1
      BY <1>1, <1>2, <1>3, <1>12, <2>1
    <3>2. \A l \in 1..(index' - 1) : columns'[l] = planned'[l]
      <4> SUFFICES ASSUME NEW l \in 1..index PROVE columns[l] = planned[l]
        BY <1>1, <1>2, <1>3, <2>1
      <4>1. CASE l = index
        BY <1>7, <1>12, <4>1
      <4>2. CASE l # index
        <5>1. l \in 1..(index - 1)
          BY <1>3, <4>2
        <5> QED BY <1>1, <5>1 DEF MovesInv
      <4> QED BY <4>1, <4>2
    <3> QED BY <3>1, <3>2 DEF MovesInv
  <2> QED BY <1>1, <2>1, <2>2, <2>3
<1>13. ASSUME k # index
       PROVE  pc' = "moves" /\ AddsInv' /\ MovesInv'
  <2>1. k > index
    BY <1>3, <1>10, <1>13
  <2>2. index # 1 => /\ index - 1 \in DOMAIN columns /\ index - 1 \in DOMAIN after
                     /\ columns[index - 1].name = target /\ target \in Names
    <3> SUFFICES ASSUME index # 1
                 PROVE  /\ index - 1 \in DOMAIN columns /\ index - 1 \in DOMAIN after
                        /\ columns[index - 1].name = target /\ target \in Names
      OBVIOUS
    <3>1. index - 1 \in DOMAIN after /\ index - 1 \in DOMAIN columns /\ index - 1 \in 1..(index - 1)
      BY <1>3, <2>1
    <3>2. columns[index - 1] = planned[index - 1]
      BY <1>1, <3>1 DEF MovesInv
    <3>3. target = after[index - 1].name
      OBVIOUS
    <3> QED BY <1>6, <3>1, <3>2, <3>3
  <2>3. CanMove(name, target)
    <3>1. CASE index = 1
      BY <1>11, <3>1 DEF CanMove
    <3>2. CASE index # 1
      BY <1>11, <2>2, <3>2 DEF CanMove, Exists, NamesOf
    <3> QED BY <3>1, <3>2
  <2> DEFINE others == RemoveAt(columns, k)
             place == IF target = First THEN 1 ELSE 1 + CHOOSE i \in DOMAIN others : others[i].name = target
  <2>4. Moved(name, target) = MoveTo(columns, k, place)
    BY <1>11 DEF Moved
  <2>5. place = index
    <3>1. CASE index = 1
      BY <3>1
    <3>2. CASE index # 1
      <4>1. target # First
        BY <2>2, <3>2, SentinelAssumption
      <4>2. /\ others \in Seq(Fields) /\ Len(others) = Len(columns) - 1
            /\ \A m \in 1..(k - 1) : others[m] = columns[m]
        <5>1. columns \in Seq(Fields) /\ k \in 1..Len(columns)
          BY <1>3
        <5>2. /\ RemoveAt(columns, k) \in Seq(Fields) /\ Len(RemoveAt(columns, k)) = Len(columns) - 1
              /\ \A m \in 1..(k - 1) : RemoveAt(columns, k)[m] = columns[m]
          BY <5>1, RemoveAtProperties, SMTT(60)
        <5> QED BY <5>2
      <4>3. DistinctNames(others)
        BY <1>3, <1>4, RemoveAtDistinct
      <4>4. index - 1 \in DOMAIN others /\ others[index - 1].name = target
        <5> HIDE DEF others, target
        <5>1. index - 1 \in 1..(k - 1) /\ index - 1 \in 1..Len(others)
          BY <1>3, <2>1, <3>2, <4>2
        <5>2. others[index - 1] = columns[index - 1]
          BY <4>2, <5>1
        <5> QED BY <2>2, <3>2, <4>2, <5>1, <5>2
      <4> HIDE DEF others, target
      <4>5. (CHOOSE i \in DOMAIN others : others[i].name = target) = index - 1
        BY <4>3, <4>4 DEF DistinctNames
      <4>6. place = 1 + (index - 1)
        BY <4>1, <4>5
      <4> QED BY <1>3, <4>6
    <3> QED BY <3>1, <3>2
  <2> HIDE DEF others, place, target
  <2>6. columns' = MoveTo(columns, k, index) /\ order' = MoveTo(order, k, index) /\ pc' = "moves"
    BY <1>1, <1>9, <1>13, <2>3, <2>4, <2>5 DEF MoveColumn, Change, target
  <2> DEFINE from(i) == Source(k, index, i)
  <2>7. k \in 1..Len(columns) /\ index \in 1..Len(columns)
    BY <1>3, <2>1
  <2>8. /\ columns' \in Seq(Fields) /\ Len(columns') = Len(columns)
        /\ \A i \in 1..Len(columns) : from(i) \in 1..Len(columns) /\ columns'[i] = columns[from(i)]
    BY <1>3, <2>6, <2>7, MoveToProperties
  <2>9. /\ order' \in Seq(Names) /\ Len(order') = Len(columns)
        /\ \A i \in 1..Len(columns) : order'[i] = order[from(i)]
    BY <1>3, <2>6, <2>7, MoveToProperties
  <2>10. /\ \A i, l \in 1..Len(columns) : from(i) = from(l) => i = l
         /\ \A m \in 1..Len(columns) : \E i \in 1..Len(columns) : from(i) = m
    <3>1. /\ \A i, l \in 1..Len(columns) : Source(k, index, i) = Source(k, index, l) => i = l
          /\ \A m \in 1..Len(columns) : \E i \in 1..Len(columns) : Source(k, index, i) = m
      <4> DEFINE n == Len(columns)
      <4>1. n \in Nat /\ k \in 1..n /\ index \in 1..n
        BY <1>3, <2>7
      <4> HIDE DEF n, from
      <4>2. /\ \A i, l \in 1..n : Source(k, index, i) = Source(k, index, l) => i = l
            /\ \A m \in 1..n : \E i \in 1..n : Source(k, index, i) = m
        BY <4>1, SourcePermutes, ZenonT(90)
      <4> QED BY <4>2 DEF n
    <3> QED BY <3>1
  <2>11. from(index) = k /\ \A l \in 1..(index - 1) : from(l) = l
    BY <1>3, <2>1 DEF Source
  <2> HIDE DEF from
  <2>12. DOMAIN columns' = 1..Len(columns)
    BY <2>8
  <2>13. AddsInv'
    <3>1. index' \in Nat \ {0} /\ Len(columns') = Len(order')
      BY <1>1, <1>3, <2>8, <2>9
    <3>2. \A l : Present(l)'
      BY <2>6 DEF Present
    <3>3. DistinctNames(columns')
      <4> SUFFICES ASSUME NEW i \in 1..Len(columns), NEW l \in 1..Len(columns),
                          columns'[i].name = columns'[l].name
                   PROVE  i = l
        BY <2>12 DEF DistinctNames
      <4>1. /\ from(i) \in DOMAIN columns /\ columns'[i] = columns[from(i)]
            /\ from(l) \in DOMAIN columns /\ columns'[l] = columns[from(l)]
        BY <1>3, <2>8
      <4>2. from(i) = from(l)
        BY <1>4, <4>1 DEF DistinctNames
      <4> QED BY <2>10, <4>2
    <3>4. \A i \in DOMAIN columns' : order'[i] = columns'[i].name
      BY <1>3, <1>4, <2>8, <2>9, <2>12
    <3>5. ASSUME NEW i \in DOMAIN columns'
          PROVE  \E l \in DOMAIN after : columns'[i] = planned[l]
      <4>1. from(i) \in DOMAIN columns /\ columns'[i] = columns[from(i)]
        BY <1>3, <2>8, <2>12
      <4> QED BY <1>5, <4>1
    <3>6. ASSUME NEW l \in DOMAIN after
          PROVE  \E i \in DOMAIN columns' : columns'[i] = planned[l]
      <4>1. PICK m \in DOMAIN columns : columns[m] = planned[l]
        BY <1>5
      <4>2. PICK i \in 1..Len(columns) : from(i) = m
        BY <1>3, <2>10
      <4>3. columns'[i] = columns[m] /\ i \in DOMAIN columns'
        BY <2>8, <2>12, <4>2
      <4> QED BY <4>1, <4>3
    <3> QED BY <1>2, <2>8, <2>9, <3>1, <3>2, <3>3, <3>4, <3>5, <3>6 DEF AddsInv
  <2>14. MovesInv'
    <3>1. index' <= Len(after') + 1 /\ index' <= Len(columns') + 1
      BY <1>1, <1>2, <1>3, <2>7, <2>8
    <3>2. \A l \in 1..(index' - 1) : columns'[l] = planned'[l]
      <4> SUFFICES ASSUME NEW l \in 1..index PROVE columns'[l] = planned[l]
        BY <1>1, <1>2, <1>3
      <4>1. CASE l = index
        BY <1>7, <2>7, <2>8, <2>11, <4>1
      <4>2. CASE l # index
        <5>1. l \in 1..(index - 1) /\ l \in 1..Len(columns)
          BY <1>3, <2>7, <4>2
        <5>2. columns[l] = planned[l]
          BY <1>1, <5>1 DEF MovesInv
        <5> QED BY <2>8, <2>11, <5>1, <5>2
      <4> QED BY <4>1, <4>2
    <3> QED BY <3>1, <3>2 DEF MovesInv
  <2> QED BY <2>6, <2>13, <2>14
<1>14. pc' = "moves" /\ AddsInv' /\ MovesInv'
  BY <1>12, <1>13
<1>15. InputInv' /\ PlanInv' /\ PlanOK'
  BY <1>1, InputStep, PlanStep, PlanOKStep DEF Altering
<1>16. IdsInv' /\ DropsInv' /\ RenamesInv' /\ CycleInv'
  BY <1>1, <1>2, <1>14 DEF IdsInv, DropsInv, RenamesInv, CycleInv
<1>17. PartitionInv'
  BY <1>1, <1>14, PartitionStep DEF UpdateInv
<1> QED BY <1>14, <1>15, <1>16, <1>17 DEF UpdateInv

LEMMA MovesEndStep == UpdateInv /\ MovesEnd => UpdateInv'
<1> SUFFICES ASSUME UpdateInv, MovesEnd PROVE UpdateInv'
  OBVIOUS
<1>1. /\ InputInv /\ PlanInv /\ PlanOK /\ AddsInv /\ CycleInv /\ MovesInv
      /\ pc = "moves" /\ index \notin DOMAIN after /\ pc' = "done"
      /\ UNCHANGED input /\ UNCHANGED <<planned, after, now, progress, order, columns>>
  BY DEF UpdateInv, MovesEnd, Altering
<1>2. /\ before' = before /\ after' = after /\ planned' = planned /\ KeptIDs' = KeptIDs
      /\ \A i : ExchangeNames(i)' <=> ExchangeNames(i)
  BY <1>1 DEF input, KeptIDs, ExchangeNames
<1>3. /\ planned \in Seq(Fields) /\ columns \in Seq(Fields)
      /\ Len(planned) \in Nat /\ Len(columns) \in Nat /\ Len(after) = Len(planned)
      /\ DOMAIN columns = 1..Len(columns) /\ DOMAIN after = 1..Len(planned) /\ DOMAIN planned = 1..Len(planned)
  BY <1>1 DEF PlanOK, AddsInv
<1>4. index = Len(planned) + 1 /\ Len(columns) >= Len(planned)
  BY <1>1, <1>3 DEF MovesInv, AddsInv
<1>5. \A l \in 1..Len(planned) : columns[l] = planned[l]
  BY <1>1, <1>3, <1>4 DEF MovesInv
<1>6. Len(columns) = Len(planned)
  <2> DEFINE n == Len(columns)
             m == Len(planned)
  <2>1. n \in Nat /\ m \in Nat /\ n >= m
    BY <1>3, <1>4
  <2> HIDE DEF n, m
  <2>2. ASSUME n > m
        PROVE  FALSE
    <3>1. n \in 1..n
      BY <2>1, <2>2
    <3>2. n \in DOMAIN columns
      BY <1>3, <3>1 DEF n
    <3>3. PICK l \in DOMAIN after : columns[n] = planned[l]
      BY <1>1, <3>2 DEF AddsInv
    <3>4. l \in 1..m /\ columns[l] = planned[l]
      BY <1>3, <1>5 DEF m
    <3>5. l \in 1..n /\ l # n
      BY <2>1, <2>2, <3>4
    <3>6. l \in DOMAIN columns /\ columns[l].name = columns[n].name
      BY <1>3, <3>3, <3>4, <3>5 DEF n
    <3> QED BY <1>1, <3>2, <3>5, <3>6 DEF AddsInv, DistinctNames
  <2>3. n = m
    BY <2>1, <2>2
  <2> QED BY <2>3 DEF n, m
<1>7. columns = planned
  BY <1>3, <1>5, <1>6
<1>8. InputInv' /\ PlanInv' /\ PlanOK'
  BY <1>1, InputStep, PlanStep, PlanOKStep DEF Altering
<1>9. IdsInv' /\ DropsInv' /\ RenamesInv' /\ CycleInv' /\ AddsInv' /\ MovesInv'
  BY <1>1, <1>2 DEF IdsInv, DropsInv, RenamesInv, CycleInv, AddsInv, MovesInv
<1>10. PartitionInv'
  BY <1>1, PartitionStep DEF UpdateInv
<1> QED BY <1>1, <1>2, <1>7, <1>8, <1>9, <1>10 DEF UpdateInv

LEMMA EndedStep == UpdateInv /\ UNCHANGED vars => UpdateInv'
<1> SUFFICES ASSUME UpdateInv, UNCHANGED vars PROVE UpdateInv'
  OBVIOUS
<1>1. /\ UNCHANGED input /\ before' = before /\ nested' = nested /\ planned' = planned /\ after' = after
      /\ pc' = pc /\ index' = index /\ now' = now /\ progress' = progress
      /\ order' = order /\ columns' = columns /\ KeptIDs' = KeptIDs
  BY DEF vars, input, KeptIDs
<1>2. InputInv'
  BY <1>1, InputStep DEF UpdateInv
<1>3. PlanInv'
  <2>1. CASE pc \in {"planned", "ids"} \cup Altering
    BY <1>1, <2>1, PlanStep DEF UpdateInv
  <2>2. CASE pc \notin {"planned", "ids"} \cup Altering
    BY <1>1, <2>2 DEF PlanInv, Altering
  <2> QED BY <2>1, <2>2
<1>4. pc' \in Altering => PlanOK'
  BY <1>1, PlanOKStep DEF UpdateInv
<1>5. /\ \A i : Updated(i)' = Updated(i) /\ (Retained(before[i])' <=> Retained(before[i]))
      /\ \A i : PlanName(i)' = PlanName(i)
  BY <1>1, SameUpdated DEF PlanName
<1>6. /\ \A i : Pending(i)' <=> Pending(i)
      /\ \A i : Taken(i)' <=> Taken(i)
      /\ \A i : ExchangeNames(i)' <=> ExchangeNames(i)
      /\ \A i : Present(i)' <=> Present(i)
  BY <1>1 DEF Pending, Taken, ExchangeNames, Present
<1>7. IdsInv /\ DropsInv /\ RenamesInv /\ CycleInv /\ AddsInv /\ MovesInv
  BY DEF UpdateInv
<1>8. IdsInv'
  BY <1>1, <1>7 DEF IdsInv, Convertible, SameButID, input
<1>9. DropsInv'
  BY <1>1, <1>5, <1>7 DEF DropsInv
<1>10. RenamesInv'
  BY <1>1, <1>6, <1>7 DEF RenamesInv
<1>11. CycleInv'
  BY <1>1, <1>6, <1>7 DEF CycleInv
<1>12. AddsInv' /\ MovesInv'
  BY <1>1, <1>6, <1>7 DEF AddsInv, MovesInv
<1>13. PartitionInv'
  BY <1>1 DEF UpdateInv, PartitionInv, GivesUpPartition, input
<1> QED BY <1>1, <1>2, <1>3, <1>4, <1>8, <1>9, <1>10, <1>11, <1>12, <1>13 DEF UpdateInv, Altering

-----------------------------------------------------------------------------
(* What the update promises.                                               *)

\* The invariant of the loops holds throughout: every loop leaves to the next
\* one the columns and the expected order it relies on.
THEOREM UpdateHolds == Spec => []UpdateInv
<1>1. Init => UpdateInv
  BY InitUpdate
<1>2. UpdateInv /\ [Next]_vars => UpdateInv'
  BY ModifyPlanStep, ConvertStep, AssignTemporaryIDStep, UpdateColumnsStep, DropColumnStep, DropsEndStep,
     RenameColumnStep, RenamePassEndsStep, AddColumnStep, AddsEndStep, MoveColumnStep, MovesEndStep,
     EndedStep DEF Next, Ended
<1> QED BY <1>1, <1>2, PTL DEF Spec

\* The catalog refuses a list exactly when the plan takes a partition column's
\* name from it: in every other list each column named by a change exists under
\* that name when the change is applied, and every new name is free.
THEOREM RejectedOnlyForPartitionHolds == Spec => []RejectedOnlyForPartition
<1>1. UpdateInv => RejectedOnlyForPartition
  BY DEF UpdateInv, PartitionInv, RejectedOnlyForPartition
<1> QED BY <1>1, UpdateHolds, PTL

\* Applied to the end, the changes leave the planned columns, in their order.
THEOREM AppliedIsPlannedHolds == Spec => []AppliedIsPlanned
<1>1. UpdateInv => AppliedIsPlanned
  BY DEF UpdateInv, AppliedIsPlanned
<1> QED BY <1>1, UpdateHolds, PTL

\* A configured column of the table keeps its data under its configured name,
\* whatever is added, dropped, renamed or moved around it.
THEOREM DataFollowsIdentityHolds == Spec => []DataFollowsIdentity
<1>1. UpdateInv => DataFollowsIdentity
  <2> SUFFICES ASSUME UpdateInv, pc = "done" PROVE DataFollowsIdentity
    BY DEF DataFollowsIdentity
  <2>1. InputInv /\ columns = Stabilized
    BY DEF UpdateInv, PlanInv, Altering
  <2>2. configured \in Seq(ConfiguredFields) /\ DOMAIN configured = 1..Len(configured)
    BY <2>1 DEF InputInv
  <2>3. DOMAIN columns = DOMAIN configured
    BY <2>1, <2>2, StabilizedFields
  <2>4. \A k \in DOMAIN configured :
          columns[k].id = Identity(configured[k], k) /\ columns[k].name = configured[k].name
    BY <2>1, StabilizedFields
  <2> SUFFICES ASSUME NEW i \in DOMAIN before
               PROVE  {columns[j].name : j \in {k \in DOMAIN columns : columns[k].id = before[i].id}}
                        = {configured[j].name : j \in
                             {j \in DOMAIN configured :
                                \/ configured[j].id = before[i].id
                                \/ configured[j].id = New /\ configured[j].name = before[i].name}}
    BY DEF DataFollowsIdentity
  <2>5. \A k \in DOMAIN configured :
          columns[k].id = before[i].id <=>
            \/ configured[k].id = before[i].id
            \/ configured[k].id = New /\ configured[k].name = before[i].name
    BY <2>1, <2>4, IdentityInTable
  <2> QED BY <2>3, <2>4, <2>5
<1> QED BY <1>1, UpdateHolds, PTL

\* A new field gets an ID nobody in the table has: no column of it, not one
\* about to be dropped, and nothing inside a column.
THEOREM NewIDsAreFreshHolds == Spec => []NewIDsAreFresh
<1>1. UpdateInv => NewIDsAreFresh
  <2> SUFFICES ASSUME UpdateInv, pc \in Altering PROVE NewIDsAreFresh
    BY DEF NewIDsAreFresh, Altering
  <2>1. InputInv /\ PlanOK
    BY DEF UpdateInv
  <2>2. New \notin IdsOf(before)
    BY <2>1, SentinelAssumption DEF InputInv
  <2>3. ASSUME NEW i \in DOMAIN after, planned[i].id = New
        PROVE  after[i].id \notin IdsOf(before) \cup nested
    BY <2>1, <2>2, <2>3 DEF PlanOK
  <2> QED BY <2>1, <2>3 DEF PlanOK, NewIDsAreFresh
<1> QED BY <1>1, UpdateHolds, PTL

\* When every pending field is blocked, the pending fields exchange their names:
\* each wants the name another one has, and there are as many names wanted as had.
LEMMA BlockedFieldsExchangeNames ==
  ASSUME InputInv, PlanOK, RenamesInv, pc = "cycle"
  PROVE  RenameCycle
<1> DEFINE pending == {id \in KeptIDs : Pending(id)}
           wanted == {FieldOf(planned, id).name : id \in pending}
           had == {FieldOf(before, id).name : id \in pending}
<1>1. /\ \A id \in KeptIDs : now[id] \in {FieldOf(before, id).name, FieldOf(after, id).name}
      /\ \A id, other \in KeptIDs : now[id] = now[other] => id = other
      /\ pending # {} /\ \A id \in pending : Taken(id)
  BY DEF RenamesInv
<1>2. \A id \in KeptIDs : FieldOf(planned, id) = FieldOf(after, id)
  BY PlannedOf
<1>3. \A id, other \in KeptIDs : FieldOf(after, id).name = FieldOf(after, other).name => id = other
  <2> SUFFICES ASSUME NEW id \in KeptIDs, NEW other \in KeptIDs,
                      FieldOf(after, id).name = FieldOf(after, other).name
               PROVE  id = other
    OBVIOUS
  <2>1. PICK l \in DOMAIN after : after[l].id = id /\ FieldOf(after, id) = after[l]
    BY KeptField DEF InputInv, PlanOK
  <2>2. PICK m \in DOMAIN after : after[m].id = other /\ FieldOf(after, other) = after[m]
    BY KeptField DEF InputInv, PlanOK
  <2>3. l = m
    BY <2>1, <2>2 DEF PlanOK, DistinctNames
  <2> QED BY <2>1, <2>2, <2>3
<1>4. \A id \in pending : /\ now[id] = FieldOf(before, id).name
                          /\ FieldOf(before, id).name # FieldOf(planned, id).name
  BY <1>1, <1>2 DEF Pending
<1>5. wanted \subseteq had
  <2> SUFFICES ASSUME NEW id \in pending
               PROVE  \E other \in pending : FieldOf(planned, id).name = FieldOf(before, other).name
    OBVIOUS
  <2>1. PICK other \in KeptIDs \ {id} : now[other] = FieldOf(after, id).name
    BY <1>1 DEF Taken
  <2>2. Pending(other)
    BY <1>3, <2>1 DEF Pending
  <2> QED BY <1>2, <1>4, <2>1, <2>2
<1>6. IsFiniteSet(pending)
  <2>1. IsFiniteSet(FieldIDs)
    BY FS_Interval, MaxFieldIDAssumption DEF FieldIDs
  <2>2. pending \in SUBSET FieldIDs
    BY DEF KeptIDs, InputInv
  <2> HIDE DEF pending
  <2> QED BY <2>1, <2>2, FS_Subset
<1> DEFINE want == [id \in pending |-> FieldOf(planned, id).name]
           have == [id \in pending |-> FieldOf(before, id).name]
<1>7. /\ \A id, other \in pending : want[id] = want[other] => id = other
      /\ \A id, other \in pending : have[id] = have[other] => id = other
  BY <1>1, <1>2, <1>3, <1>4
<1>8. want \in Surjection(pending, wanted) /\ want \in Injection(pending, wanted)
  <2> HIDE DEF pending
  <2>1. want \in [pending -> wanted]
    OBVIOUS
  <2>2. \A name \in wanted : \E id \in pending : want[id] = name
    OBVIOUS
  <2> HIDE DEF want, wanted
  <2> QED BY <1>7, <2>1, <2>2 DEF Surjection, Injection, IsInjective
<1>9. have \in Surjection(pending, had) /\ have \in Injection(pending, had)
  <2> HIDE DEF pending
  <2>1. have \in [pending -> had]
    OBVIOUS
  <2>2. \A name \in had : \E id \in pending : have[id] = name
    OBVIOUS
  <2> HIDE DEF have, had
  <2> QED BY <1>7, <2>1, <2>2 DEF Surjection, Injection, IsInjective
<1>10. wanted = had
  <2> HIDE DEF pending, wanted, had, want, have
  <2>1. IsFiniteSet(wanted) /\ Cardinality(wanted) = Cardinality(pending)
    BY <1>6, <1>8, FS_Surjection
  <2>2. IsFiniteSet(had) /\ Cardinality(had) = Cardinality(pending)
    BY <1>6, <1>9, FS_Surjection
  <2> QED BY <1>5, <2>1, <2>2, FS_Subset
<1>11. pending \in SUBSET {id \in KeptIDs : FieldOf(before, id).name # FieldOf(planned, id).name}
  BY <1>4
<1> QED BY <1>1, <1>10, <1>11 DEF RenameCycle

\* An update is refused for a rename cycle only when there is one, and then
\* always: the passes rename everything else.
THEOREM RefusedOnlyForCycleHolds == Spec => []RefusedOnlyForCycle
<1>1. UpdateInv => RefusedOnlyForCycle
  <2> SUFFICES ASSUME UpdateInv, pc \in {"cycle", "adds", "moves", "done"}
               PROVE  pc = "cycle" <=> RenameCycle
    BY DEF RefusedOnlyForCycle
  <2>1. CASE pc = "cycle"
    <3>1. InputInv /\ PlanOK /\ RenamesInv
      BY <2>1 DEF UpdateInv, Altering
    <3> QED BY <2>1, <3>1, BlockedFieldsExchangeNames
  <2>2. CASE pc # "cycle"
    <3> SUFFICES ASSUME RenameCycle PROVE FALSE
      BY <2>2
    <3>1. PICK ids \in SUBSET {id \in KeptIDs : FieldOf(before, id).name # FieldOf(planned, id).name} :
            /\ ids # {}
            /\ {FieldOf(planned, id).name : id \in ids} = {FieldOf(before, id).name : id \in ids}
      BY DEF RenameCycle
    <3>2. ids \in SUBSET KeptIDs /\ ExchangeNames(ids)
      BY <3>1 DEF ExchangeNames
    <3>3. CycleInv /\ pc \in {"adds", "moves", "done"}
      BY <2>2 DEF UpdateInv
    <3> QED BY <3>1, <3>2, <3>3 DEF CycleInv
  <2> QED BY <2>1, <2>2
<1> QED BY <1>1, UpdateHolds, PTL

-----------------------------------------------------------------------------
\* A rename leaves one field less pending: the others keep their names, and the
\* renamed one has its own.
LEMMA RenameCounts ==
  ASSUME UpdateInv, RenameColumn, pc' = pc
  PROVE  \/ PendingIDs' \subseteq PendingIDs /\ PendingIDs' # PendingIDs
         \/ PendingIDs' = PendingIDs /\ progress' = progress
<1> DEFINE id == before[index].id
           new == FieldOf(after, id).name
<1>1. /\ InputInv /\ PlanOK /\ RenamesInv /\ pc = "renames"
      /\ UNCHANGED input /\ UNCHANGED <<planned, after>>
  BY DEF UpdateInv, RenameColumn, Altering
<1>2. before' = before /\ after' = after /\ KeptIDs' = KeptIDs /\ now \in [KeptIDs -> Names]
  BY <1>1 DEF input, KeptIDs, RenamesInv
<1>3. CASE id \in KeptIDs /\ Pending(id) /\ ~Taken(id)
  <2>1. now' = [now EXCEPT ![id] = new]
    BY <1>3 DEF RenameColumn
  <2>2. now'[id] = new /\ \A other \in KeptIDs \ {id} : now'[other] = now[other]
    BY <1>2, <1>3, <2>1
  <2>3. id \in PendingIDs /\ id \notin PendingIDs'
    BY <1>2, <1>3, <2>2 DEF PendingIDs, Pending
  <2>4. PendingIDs' \subseteq PendingIDs
    <3> SUFFICES ASSUME NEW other \in KeptIDs, now'[other] # FieldOf(after, other).name
                 PROVE  now[other] # FieldOf(after, other).name
      BY <1>2 DEF PendingIDs, Pending
    <3> QED BY <2>2
  <2> QED BY <2>3, <2>4
<1>4. CASE ~(id \in KeptIDs /\ Pending(id) /\ ~Taken(id))
  <2>1. now' = now /\ progress' = progress
    BY <1>4 DEF RenameColumn
  <2> QED BY <1>2, <2>1 DEF PendingIDs, Pending
<1> QED BY <1>3, <1>4

\* The update of any table ends: no loop runs over its list forever, and the
\* renames make no pass more than fields get their names.
THEOREM UpdatesEnd == Spec => UpdateAdvances
<1>1. UpdateInv /\ [Next]_vars =>
        [\/ TurnsLeft(pc') < TurnsLeft(pc)
         \/ pc' = pc /\ pc = "renames" /\ PendingIDs' \subseteq PendingIDs /\ PendingIDs' # PendingIDs
         \/ pc' = pc /\ pc = "renames" /\ PendingIDs' = PendingIDs /\ progress /\ ~progress'
         \/ /\ pc' = pc /\ index <= LoopLength /\ index' = index + 1
            /\ pc = "renames" => PendingIDs' = PendingIDs /\ progress' = progress]_vars
  <2> SUFFICES ASSUME UpdateInv, Next, vars' # vars
               PROVE  \/ TurnsLeft(pc') < TurnsLeft(pc)
                      \/ pc' = pc /\ pc = "renames" /\ PendingIDs' \subseteq PendingIDs
                         /\ PendingIDs' # PendingIDs
                      \/ pc' = pc /\ pc = "renames" /\ PendingIDs' = PendingIDs /\ progress /\ ~progress'
                      \/ /\ pc' = pc /\ index <= LoopLength /\ index' = index + 1
                         /\ pc = "renames" => PendingIDs' = PendingIDs /\ progress' = progress
    OBVIOUS
  <2>0. \A f : f \in Seq(Fields) /\ index \in DOMAIN f => index <= Len(f)
    OBVIOUS
  <2>1. CASE ModifyPlan \/ Convert
    <3>1. \/ pc = "configured" /\ pc' \in {"addsByID", "replace", "planned"}
          \/ pc = "planned" /\ pc' \in {"ids", "inconvertible"}
      BY <2>1 DEF ModifyPlan, Convert
    <3> QED BY <3>1 DEF TurnsLeft, Turns
  <2>2. CASE AssignTemporaryID
    <3>1. pc = "ids" /\ index \in DOMAIN after /\ index' = index + 1 /\ pc' \in {"ids", "exhausted"}
      BY <2>2 DEF AssignTemporaryID
    <3>2. index <= LoopLength
      BY <2>0, <3>1 DEF UpdateInv, IdsInv, LoopLength
    <3> QED BY <3>1, <3>2 DEF TurnsLeft, Turns
  <2>3. CASE UpdateColumns \/ DropsEnd \/ AddsEnd \/ MovesEnd
    <3>1. \/ pc = "ids" /\ pc' \in {"drops", "rejected"}
          \/ pc = "drops" /\ pc' = "renames"
          \/ pc = "adds" /\ pc' = "moves"
          \/ pc = "moves" /\ pc' = "done"
      BY <2>3 DEF UpdateColumns, DropsEnd, AddsEnd, MovesEnd
    <3> QED BY <3>1 DEF TurnsLeft, Turns
  <2>4. CASE DropColumn
    <3>1. pc = "drops" /\ index \in DOMAIN before /\ index' = index + 1 /\ pc' \in {"drops", "rejected"}
      BY <2>4 DEF DropColumn, Change
    <3>2. index <= LoopLength
      BY <2>0, <3>1 DEF UpdateInv, InputInv, LoopLength
    <3> QED BY <3>1, <3>2 DEF TurnsLeft, Turns
  <2>5. CASE RenameColumn
    <3>1. pc = "renames" /\ index \in DOMAIN before /\ index' = index + 1 /\ pc' \in {"renames", "rejected"}
      BY <2>5 DEF RenameColumn, Change
    <3>2. index <= LoopLength
      BY <2>0, <3>1 DEF UpdateInv, InputInv, LoopLength
    <3>3. CASE pc' = "rejected"
      BY <3>1, <3>3 DEF TurnsLeft, Turns
    <3>4. CASE pc' = pc
      BY <2>5, <3>1, <3>2, <3>4, RenameCounts
    <3> QED BY <3>1, <3>3, <3>4
  <2>6. CASE RenamePassEnds
    <3>0. pc = "renames" /\ pc' = IF \A id \in KeptIDs : ~Pending(id) THEN "adds"
                                 ELSE IF progress THEN "renames" ELSE "cycle"
      BY <2>6 DEF RenamePassEnds
    <3>1. \/ pc' \in {"adds", "cycle"}
          \/ pc' = "renames" /\ progress
      BY <3>0
    <3>2. ~progress'
      BY <2>6 DEF RenamePassEnds
    <3>3. PendingIDs' = PendingIDs
      BY <2>6 DEF RenamePassEnds, input, PendingIDs, Pending, KeptIDs
    <3>4. CASE pc' \in {"adds", "cycle"}
      BY <3>0, <3>4 DEF TurnsLeft, Turns
    <3>5. CASE pc' = "renames" /\ progress
      BY <3>0, <3>2, <3>3, <3>5, Zenon
    <3> QED BY <3>1, <3>4, <3>5
  <2>7. CASE AddColumn \/ MoveColumn
    <3>1. pc \in {"adds", "moves"} /\ index \in DOMAIN after /\ index' = index + 1
          /\ pc' \in {pc, "rejected"}
      BY <2>7 DEF AddColumn, MoveColumn, Change
    <3>2. index <= LoopLength
      BY <2>0, <3>1 DEF UpdateInv, PlanOK, Altering, LoopLength
    <3> QED BY <3>1, <3>2 DEF TurnsLeft, Turns
  <2> QED BY <2>1, <2>2, <2>3, <2>4, <2>5, <2>6, <2>7 DEF Next, Ended
<1>2. Spec => []UpdateInv
  BY UpdateHolds
<1> QED BY <1>1, <1>2, PTL DEF Spec, UpdateAdvances
=============================================================================
