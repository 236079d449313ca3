---------------------------- MODULE MCDocsVerify ----------------------------
(***************************************************************************)
(* A small doc tree for DocsVerify: two doc files, named after st_a and    *)
(* st_b, whose contents range over well-formed front matter (with and      *)
(* without an alias, with an id other than the file name, with a          *)
(* signature of the wrong arity), broken JSON, a missing opening --- and  *)
(* a missing closing ---; and a catalogue with a scalar, a table and an    *)
(* aggregate function, the last sharing its id with the table function.   *)
(***************************************************************************)
EXTENDS DocsVerify

MCBases == {"st_a", "st_b"}
MCIds == {"st_a", "st_b", "st_c"}
MCTypes == {"GEOMETRY", "DOUBLE"}
MCDocTypes == {"scalar_function", "aggregate_function", "table_function"}
MCTableType == "table_function"
MCMaxLines == 3

(* Signatures: unary to GEOMETRY, unary to DOUBLE, binary to GEOMETRY.    *)
SigG == [returns |-> "GEOMETRY", params |-> <<"GEOMETRY">>]
SigD == [returns |-> "DOUBLE", params |-> <<"GEOMETRY">>]
SigGD == [returns |-> "GEOMETRY", params |-> <<"GEOMETRY", "DOUBLE">>]

(* Front matter line layouts.                                              *)
Good == <<"delim", "body", "delim">>
LineChoices == {Good, <<"delim", "junk", "delim">>, <<"body">>, <<"delim", "body">>}

(* Decoded front matters.                                                  *)
MetaChoices ==
    { [id |-> "st_a", aliases |-> {}, sigs |-> {SigG}],
      [id |-> "st_b", aliases |-> {"st_c"}, sigs |-> {SigGD}],
      [id |-> "st_b", aliases |-> {}, sigs |-> {SigD, SigGD}],
      [id |-> NoId, aliases |-> {"st_c"}, sigs |-> {}] }

MCDocChoices ==
    {[lines |-> Good, meta |-> m] : m \in MetaChoices}
      \cup {[lines |-> l, meta |-> [id |-> "st_a", aliases |-> {}, sigs |-> {SigG}]] :
              l \in LineChoices \ {Good}}

MCCatalogue ==
    << [type |-> "scalar_function", id |-> "st_a", sigs |-> {SigG, SigD}],
       [type |-> "table_function", id |-> "st_b", sigs |-> {SigG}],
       [type |-> "aggregate_function", id |-> "st_c", sigs |-> {SigG}],
       [type |-> "aggregate_function", id |-> "st_b", sigs |-> {SigGD}] >>
=============================================================================
