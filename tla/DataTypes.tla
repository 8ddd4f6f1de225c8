----------------------------- MODULE DataTypes -----------------------------
(***************************************************************************)
(* Paimon data types between the catalog, which speaks structured JSON,    *)
(* and Terraform, which shows them as SQL text.  The client renders what   *)
(* it reads, parses text to send it, and tells whether two texts mean the  *)
(* same type by parsing both; the IDs of ROW fields travel beside the text *)
(* under the path of the field.                                            *)
(*                                                                         *)
(* Text is a sequence of tokens: words, blanks, brackets, commas, quotes   *)
(* and doubled quotes ("bq" is a backquote, "bqbq" a doubled one).  Square *)
(* brackets and braces count like parentheses.  MULTISET reads as ARRAY    *)
(* does; VECTOR, an element type and a length, is left out.                *)
(***************************************************************************)
EXTENDS Integers, Sequences, SequencesExt, FiniteSetsExt

CONSTANTS
    None,        \* no comment, no default value
    Pairs,       \* the catalog's type and the configured one
    Columns,     \* IDs of the columns of a new table
    KnownIDs(_), \* the IDs the catalog gave the fields at a set of paths
    MaxFieldID   \* maxPaimonFieldID

VARIABLES remote, planned, spelling, top, pc, text, ids, sent, equivalent, created

vars == <<remote, planned, spelling, top, pc, text, ids, sent, equivalent, created>>
input == <<remote, planned, spelling, top>>

-----------------------------------------------------------------------------
(* Types.  A field of a ROW is a record of name, type, comment, default.    *)

Roots == {"ARRAY", "MAP", "ROW"}
Punctuation == {" ", "<", ">", ",", "(", ")", "'", "''", "bq", "bqbq"}

Atomic(name, notNull) == [root |-> "ATOMIC", name |-> name, notNull |-> notNull]
Collection(root, parts, notNull) == [root |-> root, parts |-> parts, notNull |-> notNull]
Row(fields, notNull) == [root |-> "ROW", fields |-> fields, notNull |-> notNull]

FieldPath(parent, name) == parent \o <<"fields", name>>
PartPath(parent, root, i) ==
    Append(parent, IF root = "ARRAY" THEN "element" ELSE IF i = 1 THEN "key" ELSE "value")

\* Where the fields of the ROWs inside a type are.
RECURSIVE Paths(_, _)
Paths(type, parent) ==
    CASE type.root = "ATOMIC" -> {}
      [] type.root = "ROW" ->
           UNION {LET path == FieldPath(parent, type.fields[i].name)
                  IN  {path} \cup Paths(type.fields[i].type, path) : i \in DOMAIN type.fields}
      [] OTHER ->
           UNION {Paths(type.parts[i], PartPath(parent, type.root, i)) : i \in DOMAIN type.parts}

-----------------------------------------------------------------------------
(* decodeDataTypeJSON: a type as text.                                     *)

Joined(texts) ==
    FlattenSeq([i \in DOMAIN texts |-> (IF i = 1 THEN <<>> ELSE <<",", " ">>) \o texts[i]])
Replaced(tokens, old, new) == [i \in DOMAIN tokens |-> IF tokens[i] = old THEN new ELSE tokens[i]]

\* Mutant: a quote inside a quoted name is not doubled.
QuotedRaw(name) ==
    IF Len(name) = 1 /\ name[1] \notin Punctuation THEN name ELSE <<"bq">> \o name \o <<"bq">>
Quoted(name) ==
    IF Len(name) = 1 /\ name[1] \notin Punctuation THEN name
    ELSE <<"bq">> \o Replaced(name, "bq", "bqbq") \o <<"bq">>

Suffix(type) == IF type.notNull THEN <<" ", "NOT", " ", "NULL">> ELSE <<>>
Commented(comment) ==
    IF comment \in {None, <<>>} THEN <<>>
    ELSE <<" ", "COMMENT", " ", "'">> \o Replaced(comment, "'", "''") \o <<"'">>
Defaulted(default) == IF default = None THEN <<>> ELSE <<" ", "DEFAULT", " ">> \o default

RECURSIVE Rendered(_)
Rendered(type) ==
    LET field(f) == Quoted(f.name) \o <<" ">> \o Rendered(f.type)
                      \o Commented(f.comment) \o Defaulted(f.default)
        nested == IF type.root = "ROW" THEN [i \in DOMAIN type.fields |-> field(type.fields[i])]
                  ELSE [i \in DOMAIN type.parts |-> Rendered(type.parts[i])]
    IN  IF type.root = "ATOMIC" THEN type.name \o Suffix(type)
        ELSE <<type.root, "<">> \o Joined(nested) \o <<">">> \o Suffix(type)

-----------------------------------------------------------------------------
(* Scanning text.                                                          *)

RECURSIVE Trimmed(_)
Trimmed(tokens) ==
    CASE tokens = <<>> -> tokens
      [] Head(tokens) = " " -> Trimmed(Tail(tokens))
      [] Last(tokens) = " " -> Trimmed(Front(tokens))
      [] OTHER -> tokens

KeywordAt(tokens, i, keyword) ==
    /\ tokens[i] = keyword
    /\ i = 1 \/ tokens[i - 1] = " "
    /\ i = Len(tokens) \/ tokens[i + 1] = " "

First(places) == IF places = {} THEN 0 ELSE Min(places)

\* The next token that is not a blank, or 0.
NextWord(tokens, i) == First({j \in (i + 1)..Len(tokens) : tokens[j] # " "})

\* isCompositeAngleOpening and isStructuralAngleClosing: the other angle
\* brackets compare values.
Opens(tokens, i) ==
    \E j \in 1..(i - 1) : tokens[j] \in Roots /\ \A k \in (j + 1)..(i - 1) : tokens[k] = " "
\* Mutant: every closing bracket is structural.
ClosesAlways(tokens, i) == TRUE
Ending(tokens, next) ==
    \/ next = 0
    \/ tokens[next] \in {",", ">", ")"}
    \/ \E keyword \in {"NOT", "COMMENT", "DEFAULT"} : KeywordAt(tokens, next, keyword)
Closes(tokens, i) == Ending(tokens, NextWord(tokens, i))

Start == [angle |-> 0, paren |-> 0, string |-> FALSE, identifier |-> FALSE, marked |-> {}]
Plain(s) == ~s.string /\ ~s.identifier
Outside(s) == Plain(s) /\ s.paren = 0

\* The loop body of matchingAngleBracket ("bracket"), splitTopLevel ("split")
\* and findTopLevelKeyword ("keyword").  marked are the depths at which a
\* DEFAULT stands: "<" is no bracket there until a comma, which splitTopLevel
\* honours at its own depth only.
Scan(s, tokens, i, mode) ==
    LET token == tokens[i]
    IN  CASE token = "'" /\ ~s.identifier -> [s EXCEPT !.string = ~@]
          [] token = "bq" /\ ~s.string -> [s EXCEPT !.identifier = ~@]
          [] token = "(" /\ Plain(s) -> [s EXCEPT !.paren = @ + 1]
          [] token = ")" /\ Plain(s) -> [s EXCEPT !.paren = @ - 1]
          [] token = "<" /\ Outside(s) /\ s.angle \notin s.marked /\ Opens(tokens, i) ->
               [s EXCEPT !.angle = @ + 1]
          [] token = ">" /\ Outside(s) /\ Closes(tokens, i) ->
               [s EXCEPT !.angle = @ - 1, !.marked = @ \ {s.angle}]
          [] token = "," /\ Outside(s) /\ (mode = "bracket" \/ (mode = "split" /\ s.angle = 0)) ->
               [s EXCEPT !.marked = @ \ {s.angle}]
          [] mode # "keyword" /\ Outside(s) /\ KeywordAt(tokens, i, "DEFAULT") ->
               [s EXCEPT !.marked = @ \cup {s.angle}]
          [] OTHER -> s

\* The state before each token from the opening on, and after the last.
States(tokens, from, mode) ==
    FoldLeft(LAMBDA states, i :
               Append(states, IF i < from THEN Last(states) ELSE Scan(Last(states), tokens, i, mode)),
             <<Start>>, [i \in DOMAIN tokens |-> i])

\* matchingAngleBracket: 0 when there is none.
ClosingIn(states, opening) ==
    LET after(i) == states[i + 1]
        closing == First({i \in opening..(Len(states) - 1) : states[i].angle = 1 /\ after(i).angle = 0})
        broken == \E i \in 1..(closing - 1) : after(i).paren < 0 \/ after(i).angle < 0
    IN  IF broken THEN 0 ELSE closing
MatchingBracket(tokens, opening) == ClosingIn(States(tokens, opening, "bracket"), opening)

Balanced(s) == Outside(s) /\ s.angle = 0

\* splitTopLevel at commas: no parts when the text is unbalanced.
PartsAt(tokens, ends) ==
    [i \in 1..Len(ends) |-> Trimmed(SubSeq(tokens, (IF i = 1 THEN 0 ELSE ends[i - 1]) + 1, ends[i] - 1))]
SplitBy(tokens, states) ==
    IF Balanced(Last(states)) /\ \A i \in DOMAIN states : states[i].angle >= 0 /\ states[i].paren >= 0
      THEN PartsAt(tokens, SetToSortSeq({i \in DOMAIN tokens : tokens[i] = "," /\ Balanced(states[i])}
                                          \cup {Len(tokens) + 1}, <))
      ELSE <<>>
Split(tokens) == SplitBy(tokens, States(tokens, 1, "split"))

\* findTopLevelKeyword: 0 when there is none.
KeywordIn(tokens, states, keyword) ==
    First({i \in DOMAIN tokens : Balanced(states[i]) /\ KeywordAt(tokens, i, keyword)})
FindKeyword(tokens, keyword) == KeywordIn(tokens, States(tokens, 1, "keyword"), keyword)

-----------------------------------------------------------------------------
(* Parsing text.                                                           *)

Failed == [ok |-> FALSE]

\* consumeRowFieldName: the name of a field and what follows it.
NameUpTo(tokens, quoted, end) ==
    CASE end = 0 -> Failed
      [] ~quoted -> [ok |-> TRUE, name |-> SubSeq(tokens, 1, end - 1), rest |-> SubSeq(tokens, end, Len(tokens))]
      [] end < Len(tokens) /\ tokens[end + 1] # " " -> Failed
      [] OTHER -> [ok |-> TRUE, name |-> Replaced(SubSeq(tokens, 2, end - 1), "bqbq", "bq"),
                   rest |-> SubSeq(tokens, end + 1, Len(tokens))]
FieldName(tokens) ==
    LET quoted == tokens[1] = "bq"
    IN  NameUpTo(tokens, quoted, First({i \in 2..Len(tokens) : tokens[i] = IF quoted THEN "bq" ELSE " "}))

\* decodeSQLString.
IsString(tokens) ==
    /\ Len(tokens) >= 2 /\ Head(tokens) = "'" /\ Last(tokens) = "'"
    /\ \A i \in 2..(Len(tokens) - 1) : tokens[i] # "'"
StringValue(tokens) == Replaced(SubSeq(tokens, 2, Len(tokens) - 1), "''", "'")

\* parseRowField: name, text of the type, comment and default value.
FieldOf(name, rest, commentAt, defaultAt) ==
    LET typeEnd == Min({Len(rest) + 1} \cup ({commentAt, defaultAt} \ {0}))
        type == Trimmed(SubSeq(rest, 1, typeEnd - 1))
        comment == Trimmed(SubSeq(rest, commentAt + 1, IF defaultAt = 0 THEN Len(rest) ELSE defaultAt - 1))
        default == Trimmed(SubSeq(rest, defaultAt + 1, Len(rest)))
    IN  CASE type = <<>> -> Failed
          [] commentAt # 0 /\ defaultAt # 0 /\ defaultAt < commentAt -> Failed
          [] commentAt # 0 /\ ~IsString(comment) -> Failed
          [] defaultAt # 0 /\ default = <<>> -> Failed
          [] OTHER -> [ok |-> TRUE, name |-> name, type |-> type,
                       comment |-> IF commentAt = 0 THEN None ELSE StringValue(comment),
                       default |-> IF defaultAt = 0 THEN None ELSE default]
FieldAfter(head) ==
    IF ~head.ok THEN Failed
    ELSE FieldOf(head.name, head.rest, FindKeyword(head.rest, "COMMENT"), FindKeyword(head.rest, "DEFAULT"))
RowField(part) == IF part = <<>> THEN Failed ELSE FieldAfter(FieldName(part))

EndsWith(tokens, suffix) ==
    Len(tokens) > Len(suffix) /\ SubSeq(tokens, Len(tokens) - Len(suffix) + 1, Len(tokens)) = suffix
Without(tokens, suffix) == Trimmed(SubSeq(tokens, 1, Len(tokens) - Len(suffix)))

\* stripNotNull.
NotNullSuffix(tokens) == EndsWith(tokens, <<" ", "NOT", " ", "NULL">>)
Stripped(tokens) ==
    CASE NotNullSuffix(tokens) -> Without(tokens, <<" ", "NOT", " ", "NULL">>)
      [] EndsWith(tokens, <<" ", "NULL">>) -> Without(tokens, <<" ", "NULL">>)
      [] OTHER -> tokens

\* canonicalAtomicTypeName, of the one type with two names here.
CanonicalName(tokens) == IF tokens = <<"INTEGER">> THEN <<"INT">> ELSE tokens

\* An ID for the field at a path: the one the catalog gave it, or the next.
NextID(st, free) ==
    IF free = {} THEN [st EXCEPT !.ok = FALSE]
    ELSE [st EXCEPT !.next = Min(free), !.used = @ \cup {Min(free)}, !.id = Min(free)]
Assigned(st, path, known) ==
    IF path \in DOMAIN known
      THEN [st EXCEPT !.next = Max({@, known[path]}), !.used = @ \cup {known[path]}, !.id = known[path],
                      !.ok = @ /\ known[path] \in 0..MaxFieldID /\ known[path] \notin st.used]
      ELSE NextID(st, {id \in (st.next + 1)..MaxFieldID : id \notin st.used})
Noted(st, path) == [st EXCEPT !.ids = (path :> st.id) @@ @]

\* encodeDataTypeWithIDs: the type a text means, or not ok.  st carries the
\* IDs in use and those given so far from one field to the next.
RECURSIVE Encoded(_, _, _, _)
NoType(st) == [st |-> [st EXCEPT !.ok = FALSE], type |-> None]

WithPart(acc, next) == [st |-> next.st, types |-> Append(acc.types, next.type)]
WithField(acc, f, next) ==
    [st |-> next.st,
     types |-> Append(acc.types, [name |-> f.name, type |-> next.type, comment |-> f.comment, default |-> f.default])]
WithAssigned(acc, f, known, path, assigned) ==
    IF ~assigned.ok THEN [acc EXCEPT !.st = assigned]
    ELSE WithField(acc, f, Encoded(f.type, known, path, Noted(assigned, path)))
WithPath(acc, f, known, path) == WithAssigned(acc, f, known, path, Assigned(acc.st, path, known))
WithText(acc, f, known, parent) ==
    IF ~acc.st.ok \/ ~f.ok THEN [acc EXCEPT !.st.ok = FALSE]
    ELSE WithPath(acc, f, known, FieldPath(parent, f.name))

Element(element, notNull) == [st |-> element.st, type |-> Collection("ARRAY", <<element.type>>, notNull)]
Composite(root, all, notNull) ==
    [st |-> all.st, type |-> IF root = "ROW" THEN Row(all.types, notNull) ELSE Collection(root, all.types, notNull)]
EncodedParts(root, parts, notNull, known, parent, st) ==
    LET part(acc, i) ==
            IF root = "ROW" THEN WithText(acc, RowField(parts[i]), known, parent)
            ELSE WithPart(acc, Encoded(parts[i], known, PartPath(parent, root, i), acc.st))
    IN  CASE parts = <<>> -> NoType(st)
          [] root = "ROW" /\ parts = << <<>> >> -> [st |-> st, type |-> Row(<<>>, notNull)]
          [] root # "ROW" /\ (Len(parts) # (IF root = "MAP" THEN 2 ELSE 1) \/ <<>> \in Range(parts)) -> NoType(st)
          [] OTHER -> Composite(root, FoldLeft(part, [st |-> st, types |-> <<>>], [i \in DOMAIN parts |-> i]), notNull)

EncodedName(name, notNull, opening, leading, known, parent, st) ==
    CASE ~st.ok -> [st |-> st, type |-> None]
      [] leading \notin {<<root>> : root \in Roots} /\ EndsWith(name, <<" ", "ARRAY">>) ->
           Element(Encoded(Without(name, <<" ", "ARRAY">>), known, PartPath(parent, "ARRAY", 1), st), notNull)
      [] leading \notin {<<root>> : root \in Roots} ->
           [st |-> st, type |-> Atomic(CanonicalName(name), notNull)]
      [] opening = 0 \/ MatchingBracket(name, opening) # Len(name) -> NoType(st)
      [] OTHER -> EncodedParts(leading[1], Split(SubSeq(name, opening + 1, Len(name) - 1)), notNull, known, parent, st)
EncodedAt(name, notNull, opening, known, parent, st) ==
    EncodedName(name, notNull, opening, IF opening = 0 THEN name ELSE Trimmed(SubSeq(name, 1, opening - 1)),
                known, parent, st)
EncodedText(name, notNull, known, parent, st) ==
    EncodedAt(name, notNull, SelectInSeq(name, LAMBDA token : token = "<"), known, parent, st)
EncodedTokens(tokens, known, parent, st) ==
    EncodedText(Stripped(tokens), NotNullSuffix(tokens), known, parent, st)
Encoded(tokens, known, parent, st) == EncodedTokens(Trimmed(tokens), known, parent, st)

Fresh(used) == [ok |-> TRUE, next |-> Max({-1} \cup used), used |-> used, id |-> 0, ids |-> <<>>]

\* EquivalentDataTypes: the text of what each means is the same.
CanonicalText(meant) == IF meant.st.ok THEN Rendered(meant.type) ELSE None
Canonical(tokens) == CanonicalText(Encoded(tokens, <<>>, <<>>, Fresh({})))
\* Mutant: the texts are compared as they are.
EquivalentVerbatim(left, right) == left = right
SameText(left, right) == left # None /\ left = right
Equivalent(left, right) == SameText(Canonical(left), Canonical(right))

\* Schema.MarshalJSON, of a new table whose columns have the type of the text.
\* Mutant: a column does not know the IDs given in the one before.
WithColumn(acc, next) == [st |-> next.st, ids |-> Append(acc.ids, next.st.ids)]
EncodedSchemaApart(tokens, columns) ==
    FoldLeft(LAMBDA acc, column : WithColumn(acc, Encoded(tokens, <<>>, <<>>, Fresh(Range(columns)))),
             [st |-> Fresh(Range(columns)), ids |-> <<>>], columns)
EncodedSchema(tokens, columns) ==
    FoldLeft(LAMBDA acc, column : WithColumn(acc, Encoded(tokens, <<>>, <<>>, [acc.st EXCEPT !.ids = <<>>])),
             [st |-> Fresh(Range(columns)), ids |-> <<>>], columns)

-----------------------------------------------------------------------------
(* What a user may write for a type.                                        *)
Spellings(type) ==
    {Rendered(type)}
      \cup (IF type.root = "ARRAY" /\ type.parts[1].root = "ATOMIC"
              THEN {Rendered(type.parts[1]) \o <<" ", "ARRAY">> \o Suffix(type)} ELSE {})
      \cup (IF type.root = "ATOMIC" /\ type.name = <<"INT">>
              THEN {<<"INTEGER">> \o Suffix(type), <<"INT">> \o (IF type.notNull THEN Suffix(type) ELSE <<" ", "NULL">>)}
              ELSE {})

Init ==
    /\ \E pair \in Pairs : remote = pair[1] /\ planned = pair[2]
    /\ spelling \in Spellings(planned)
    /\ top \in Columns
    /\ pc = "remote"
    /\ text = <<>>
    /\ ids = <<>>
    /\ sent = None
    /\ equivalent = FALSE
    /\ created = None

\* The type is read: Field.UnmarshalJSON.
ReadField ==
    /\ pc = "remote"
    /\ text' = Rendered(remote)
    /\ ids' = KnownIDs(Paths(remote, <<>>))
    /\ pc' = "read"
    /\ UNCHANGED <<input, sent, equivalent, created>>

\* The type that was read is part of a request: SchemaChangeDataType.MarshalJSON.
SendBack ==
    /\ pc = "read"
    /\ sent' = Encoded(text, ids, <<>>, Fresh({}))
    /\ pc' = "sent"
    /\ UNCHANGED <<input, text, ids, equivalent, created>>

\* The type that was read is compared with the configured text.
Compare ==
    /\ pc = "sent"
    /\ equivalent' = Equivalent(text, spelling)
    /\ pc' = "compared"
    /\ UNCHANGED <<input, text, ids, sent, created>>

\* A table with columns of the configured type is created.
CreateTable ==
    /\ pc = "compared"
    /\ created' = EncodedSchema(spelling, top)
    /\ pc' = "created"
    /\ UNCHANGED <<input, text, ids, sent, equivalent>>

Ended == pc = "created" /\ UNCHANGED vars

Next == ReadField \/ SendBack \/ Compare \/ CreateTable \/ Ended

Spec == Init /\ [][Next]_vars

-----------------------------------------------------------------------------
(* What the conversions promise.                                           *)

\* A default value is rendered as it is, so its text has to end where it ends:
\* no quote or parenthesis is left open, no comma or structural ">" is bare.
\* After the last field of a ROW nothing follows it, after the others a comma.
Bare(default, following, states) ==
    \E i \in DOMAIN default :
        /\ Outside(states[i])
        /\ default[i] = "," \/ (default[i] = ">" /\ Closes(default \o following, i))
ContainedIn(default, following, states) ==
    /\ default # <<>> /\ Trimmed(default) = default
    /\ Outside(Last(states)) /\ \A i \in DOMAIN states : states[i].paren >= 0
    /\ ~Bare(default, following, states)
Contained(default, following) == ContainedIn(default, following, States(default, 1, "keyword"))

\* A default value inside a type may look like a composite type that opens, which
\* hides a COMMENT or DEFAULT behind that type.
OpensBracket(default, states) ==
    \E i \in DOMAIN default : default[i] = "<" /\ Outside(states[i]) /\ Opens(default, i)
RECURSIVE OpensInside(_)
OpensInside(type) ==
    CASE type.root = "ATOMIC" -> FALSE
      [] type.root = "ROW" ->
           \E i \in DOMAIN type.fields :
              \/ OpensInside(type.fields[i].type)
              \/ LET default == type.fields[i].default
                 IN  default # None /\ OpensBracket(default, States(default, 1, "keyword"))
      [] OTHER -> \E i \in DOMAIN type.parts : OpensInside(type.parts[i])

\* A field named DEFAULT, or one with a default value inside another type, hides
\* the bracket of a composite type behind it.
Hides(fields, inside) ==
    \E i \in DOMAIN fields :
        \/ fields[i].name = <<"DEFAULT">> /\ fields[i].type.root # "ATOMIC"
        \/ /\ inside
           /\ fields[i].default # None \/ (i > 1 /\ fields[i].name = <<"DEFAULT">>)
           /\ \E k \in (i + 1)..Len(fields) : fields[k].type.root # "ATOMIC"

\* Whether the text of a field says what the field is: an empty comment is not
\* rendered, and a COMMENT in the default value is taken for the field's own.
Legible(field, following) ==
    /\ field.comment # <<>>
    /\ field.default # None =>
         /\ Contained(field.default, following)
         /\ field.comment = None => FindKeyword(field.default, "COMMENT") = 0
    /\ field.comment # None \/ field.default # None => ~OpensInside(field.type)

\* Whether the text of a type can be read back.
RECURSIVE Readable(_, _)
Readable(type, inside) ==
    CASE type.root = "ATOMIC" -> TRUE
      [] type.root = "ROW" ->
           /\ ~Hides(type.fields, inside)
           /\ \A i \in DOMAIN type.fields :
                /\ Legible(type.fields[i], IF i = Len(type.fields) THEN <<>> ELSE <<",">>)
                /\ Readable(type.fields[i].type, TRUE)
      [] OTHER -> \A i \in DOMAIN type.parts : Readable(type.parts[i], TRUE)

\* Reading a type and sending it back changes nothing, neither its shape, nor a
\* name, a comment or a default value inside it, nor the ID of any of its fields,
\* exactly when its text can be read back.  Every other type is refused, or sent
\* as another type: a comment is lost, a default value becomes a field.
ReadsBack ==
    sent # None =>
        LET same == sent.st.ok /\ sent.type = remote /\ sent.st.ids = ids
        IN  same <=> Readable(remote, FALSE)

\* Two texts that can be read are equivalent exactly when they mean the same
\* type, whichever way each is spelled: a plan asks for a change, and a
\* verification accepts the catalog's answer, neither too often nor too seldom.
EquivalenceIsExact ==
    pc \in {"compared", "created"} /\ Readable(remote, FALSE) /\ Readable(planned, FALSE) =>
        (equivalent <=> remote = planned)

\* A configured type that the catalog has is found to be equivalent, whatever is
\* inside it and however it is spelled: "spelling differences alone do not cause
\* perpetual plans" (docs/resources/table.md:112).
SpellingMakesNoDifference ==
    pc \in {"compared", "created"} /\ remote = planned => equivalent

\* The IDs of a new table: every field at every depth of every column has one
\* of its own, none above maxPaimonFieldID; a readable type is refused only
\* when the IDs above those of the columns run out.
NestedIsFresh ==
    created # None /\ Readable(planned, FALSE) =>
      LET highest == Max(Range(top))
          depths == Paths(planned, <<>>)
          given == [column \in DOMAIN top |-> Range(created.ids[column])]
      IN  /\ created.st.ok <=> highest + Len(top) * Cardinality(depths) <= MaxFieldID
          /\ created.st.ok =>
               \A column \in DOMAIN top :
                 /\ DOMAIN created.ids[column] = depths
                 /\ Cardinality(given[column]) = Cardinality(depths)
                 /\ given[column] \subseteq (0..MaxFieldID) \ Range(top)
                 /\ \A other \in DOMAIN top \ {column} : given[column] \cap given[other] = {}
=============================================================================
