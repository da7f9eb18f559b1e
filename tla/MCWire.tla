-------------------------------- MODULE MCWire --------------------------------
(***************************************************************************)
(* Every row that is ordinary in all columns but one, which holds any      *)
(* value, and every drift of one field, or of all optional text fields of  *)
(* a sidecar together.  Columns and fields are validated each on its own;  *)
(* WireProofs shows that nothing is lost by this.                          *)
(***************************************************************************)
EXTENDS Wire

Lists(types) == {ListOf(<<>>)} \cup {ListOf(<<t>>) : t \in types}
                \cup {ListOf(<<t, u>>) : t, u \in types}

Values(column) ==
  (IF column.type \in DOMAIN ItemTypes THEN Lists(ItemTypes[column.type])
                                      ELSE {Scalar(column.type)})
  \cup (IF column.null THEN {Null} ELSE {})

Ordinary(column) == CHOOSE v \in Values(column) \ {Null} : v # Empty

OneColumnOff ==
  [m \in DOMAIN Marts |->
     UNION {{[b \in DOMAIN Marts[m] |-> IF b = c THEN v ELSE Ordinary(Marts[m][b])] :
               v \in Values(Marts[m][c])} : c \in DOMAIN Marts[m]}]

Shapes == {Scalar(type) : type \in JsonTypes \ {"text"}} \cup {ListOf(<<"text", "bigint">>)}

FieldsDrift(s, fs, v) == {[sidecar |-> s, name |-> f, value |-> v] : f \in fs}

DriftsOfOneOrAll ==
  UNION {{FieldsDrift(s, fs, v) : v \in Shapes,
            fs \in {{f} : f \in DOMAIN Sidecars[s]} \cup
                   {{f \in DOMAIN Sidecars[s] : Sidecars[s][f] = Optional("str")}}} :
         s \in DOMAIN Sidecars}
=============================================================================
