---------------------------- MODULE MCRecordScan ----------------------------
EXTENDS RecordScan

Names == <<"A", "B">>

Chars == {"0", "2", "*", "x", " ", "'"}

(* All texts of up to four characters and a slash, those that go on after  *)
(* a repetition or within quotes, and some longer ones.                    *)
Short == BoundedSeq(Chars, 4) \union
  {begin \o s : begin \in {<<"2", "*">>, <<"'", " ">>}, s \in BoundedSeq(Chars, 3)}

Texts ==
  {Append(s, "/") : s \in Short} \union
  {<<"2", "*", " ", "2", "2", " ", "2", "*", "2", "/">>,
   <<"2", "*", "2", " ", "'", "x", "/", "x", "'", " ", "/", "2">>,
   <<"2", " ", "2", "2", "*", "x", " ", "/">>, <<"2", "*", "/", "'", "/">>,
   <<"2", " ", "1", "*", " ", "2", "/">>, <<"2", "x">>}

IntItem(name) == [name |-> name, value_type |-> "INT"]
StringItem(name) == [name |-> name, value_type |-> "STRING"]
DoubleItem(name, dim) == [name |-> name, value_type |-> "DOUBLE", dimension |-> <<dim>>]
All(item) == item @@ [size_type |-> "ALL"]
Preset(item, value) == item @@ [default |-> value]

Speed == <<"Length", "/", "Time">>
Table == [name |-> "T", value_type |-> "DOUBLE", size_type |-> "ALL",
          dimension |-> <<<<"Length", "*", "Length", "/", "Time">>, <<"Time">>>>]

Keyword(name, items) == [name |-> name, items |-> items]

(* Keywords whose records are read with all texts. *)
Readers ==
  {Keyword("A", <<IntItem("I"), Preset(StringItem("S"), <<"x">>), Preset(DoubleItem("D", <<"Length">>), 3)>>),
   Keyword("A", <<StringItem("S"), Preset(All([DoubleItem("F", Speed) EXCEPT !.value_type = "FLOAT"]), 5)>>),
   Keyword("A", <<DoubleItem("D", <<"Time">>), All(IntItem("I"))>>),
   Keyword("A", <<All(StringItem("S")), Preset(IntItem("I"), 1)>>),
   [name |-> "A", data |-> Table]}

(* Definitions that share names, and such as are refused. *)
Shared ==
  {[name |-> "A", size |-> [number |-> 0]],
   [name |-> "B", deck_names |-> <<"A", "B">>, data |-> Table],
   [name |-> "B", deck_name_regex |-> [wellFormed |-> TRUE, names |-> {"A", "C"}], items |-> <<IntItem("I")>>],
   [name |-> "A", deck_names |-> <<"C">>, items |-> <<StringItem("S")>>,
    deck_name_regex |-> [wellFormed |-> TRUE, names |-> {"B", "c"}]]}

Odd ==
  {[name |-> "B", size |-> [number |-> 2]], [name |-> "B", items |-> <<IntItem("I"), DoubleItem("I", Speed)>>],
   [name |-> "B", items |-> <<Preset(All(IntItem("I")), 2)>>], [name |-> "B", items |-> <<>>],
   [name |-> "B", items |-> <<[Table EXCEPT !.size_type = "SINGLE"]>>], [items |-> <<IntItem("I")>>],
   [name |-> "B", items |-> <<IntItem("I")>>, data |-> Table], [name |-> "B", items |-> <<[name |-> "I"]>>],
   [name |-> "B", data |-> [Table EXCEPT !.value_type = "RAW"]],
   [name |-> "B", size |-> [number |-> 2], action |-> "IGNORE"],
   [name |-> "B", size |-> [string |-> "UNKNOWN"], items |-> <<DoubleItem("D", <<"Other">>)>>],
   [name |-> "B", action |-> "THROW_EXCEPTION", deck_name_regex |-> [wellFormed |-> FALSE]],
   [name |-> "B", action |-> "THROW_EXCEPTION"],
   [name |-> "B", num_tables |-> [keyword |-> "DIMS", item |-> "N"], data |-> Table],
   [name |-> "B", size |-> [keyword |-> "DIMS", item |-> "N"], items |-> <<DoubleItem("D", <<"Context">>)>>],
   [name |-> "B", items |-> <<DoubleItem("D", <<"Context", "*", "Time">>)>>],
   [name |-> "B", items |-> <<DoubleItem("D", <<"Time", "/", "Time", "/", "Time">>)>>]}

Loading(config) == [op |-> "load", configs |-> <<config>>]

Steps == {Loading(config) : config \in Shared} \union {[op |-> "drop", name |-> n] : n \in {"A", "B"}}

OneRecord == <<"2", " ", "2", "*", "2", "/">>

Sessions ==
  [script : {<<Loading(config)>> : config \in Readers}, name : {"A"}, text : Texts]
    \union [script : BoundedSeq(Steps, 4), name : {"A", "C"}, text : {OneRecord}]
    \union [script : {<<[op |-> op, configs |-> <<first, odd, last>>]>> :
                        <<op, first, odd, last>> \in {"load", "directory"} \X Shared \X Odd \X Shared},
            name : {"B", "c"}, text : {OneRecord, <<"/">>}]

Scalings ==
  [METRIC |-> [Length |-> 6, Time |-> 2, Context |-> NaN],
   FIELD |-> [Length |-> 35, Time |-> 5, Context |-> NaN]]
=============================================================================
