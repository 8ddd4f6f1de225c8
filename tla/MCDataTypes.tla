---------------------------- MODULE MCDataTypes ----------------------------
(* Types up to four levels deep.  Names, comments and default values contain *)
(* the tokens the parser could trip over, and some of them cannot be read.   *)
EXTENDS DataTypes

Integer == Atomic(<<"INT">>, FALSE)
RequiredInt == Atomic(<<"INT">>, TRUE)
Decimal == Atomic(<<"DECIMAL", "(", "10", ",", " ", "2", ")">>, FALSE)

Field(name, type, comment, default) ==
    [name |-> name, type |-> type, comment |-> comment, default |-> default]
A(type) == Field(<<"a">>, type, None, None)
B(type) == Field(<<"b">>, type, None, None)

Names == {<<"a">>, <<"DEFAULT">>, <<"x", " ", ",", ">", "bq", "<">>}
Comments == {None, <<>>, <<"it", "'", "s", ",", ">", "DEFAULT">>}
Values == {None, <<"1">>, <<"'", ",", "'">>, <<"MAP", " ", ">", " ", "f", "(", "0", ",", ")">>, <<"MAP", "<", "2">>}

\* Empty, with a blank at an end, open, and closing what surrounds it.
Strays == {<<>>, <<"x", " ">>, <<"it", "'", "s">>, <<")", "(">>, <<"x", ",", "y", " ", "INT">>, <<"x", " ", ">">>,
           <<"x", ">", " ", "NOT">>, <<"x", " ", "COMMENT", " ", "'", "y", "'">>}

Array(type) == Collection("ARRAY", <<type>>, FALSE)
Map(key, value) == Collection("MAP", <<key, value>>, TRUE)

Simple == {Integer, RequiredInt, Decimal, Array(Integer), Array(RequiredInt), Map(Integer, Array(Decimal)), Row(<<>>, FALSE)}

Attributes == ({None} \X (Values \cup Strays)) \cup (Comments \X {None, <<"1">>})
                \cup {<< <<"c">>, <<"x", " ", "COMMENT", " ", "'", "y", "'">> >>}

\* One field with everything, before or after one that is plain.
Inner ==
    UNION {LET field == Field(name, type, attributes[1], attributes[2])
           IN  {Row(<<field>>, FALSE), Row(<<field, B(Integer)>>, TRUE), Row(<<field, B(Array(Integer))>>, FALSE),
                Row(<<B(Decimal), field>>, FALSE)} :
             name \in Names, type \in {RequiredInt, Array(Integer)},
             attributes \in Attributes}

Wrapped(type) ==
    {type, Array(type), Row(<<A(Integer), B(type)>>, TRUE),
     Row(<<A(Integer), Field(<<"b">>, Array(type), <<"c">>, None)>>, FALSE),
     Row(<<Field(<<"b">>, type, None, <<"1">>), A(Integer)>>, FALSE)}

Deep == Simple \cup UNION {Wrapped(type) : type \in Inner}

\* Types that differ a little.
Close == Simple \cup {Row(<<Field(name, type, comment, value)>>, FALSE) :
                       name \in Names \ {<<"DEFAULT">>}, type \in {Integer, Array(RequiredInt)},
                       comment \in Comments, value \in {None, <<"1">>}}
MCPairs == {<<type, type>> : type \in Deep} \cup (Close \X Close)

MCColumns == {<<1, 4>>}

\* Some order of the paths, counted down from the last ID.
MCKnownIDs(paths) ==
    LET order == SetToSeq(paths) IN [path \in paths |-> MaxFieldID - CHOOSE i \in DOMAIN order : order[i] = path]
=============================================================================
