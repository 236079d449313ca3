--------------------------- MODULE MCDocsGenerate ---------------------------
(***************************************************************************)
(* A small doc tree for DocsGenerate: three files whose contents range     *)
(* over well-formed front matters (three scalar items for st_a with no    *)
(* tag, one tag and two tags, an aggregate and a table item for st_b      *)
(* tagged t, and an item of unknown type) and three malformed layouts (no *)
(* opening ---, no closing ---, broken JSON).                             *)
(***************************************************************************)
EXTENDS DocsGenerate

MCNumFiles == 3
MCIds == {"st_a", "st_b"}
MCTags == {"t", "u"}
MCMaxLines == 3

Good == <<"delim", "body", "delim">>
BadLines == {<<"body">>, <<"delim", "body">>, <<"delim", "junk", "delim">>}

MetaChoices ==
    { [type |-> "scalar_function", id |-> "st_a", tags |-> <<"t">>],
      [type |-> "scalar_function", id |-> "st_a", tags |-> <<>>],
      [type |-> "scalar_function", id |-> "st_a", tags |-> <<"u", "t">>],
      [type |-> "aggregate_function", id |-> "st_b", tags |-> <<"t">>],
      [type |-> "table_function", id |-> "st_b", tags |-> <<"t">>],
      [type |-> "other", id |-> "st_b", tags |-> <<>>] }

MCDocChoices ==
    {[lines |-> Good, meta |-> m] : m \in MetaChoices}
      \cup {[lines |-> l, meta |-> [type |-> "scalar_function", id |-> "st_a",
                                     tags |-> <<"t">>]] : l \in BadLines}
=============================================================================
