-------------------------- MODULE DocsGenerateFiles --------------------------
(***************************************************************************)
(* What generate.py promises, one doc file at a time: the files are taken  *)
(* in path order; a file whose front matter is delimited by --- lines and  *)
(* decodes to an object of a known doc type has its item stored under its *)
(* id (replacing an earlier one) and its id recorded under each of its    *)
(* tags, and any other file stops the script; once every file is taken,   *)
(* docs.md is written from the dictionaries and the tags.  The index by   *)
(* tag is the set of ids recorded under each tag.                          *)
(***************************************************************************)
EXTENDS Integers, Sequences

CONSTANTS
    NumFiles,       \* number of doc files
    DocChoices      \* the doc file contents considered

VARIABLES
    docs,           \* path -> contents
    pc,             \* "run", "done", "crashed"
    n,              \* the next path to take
    funcs,          \* doc type -> (id -> path of the item stored)
    tags,           \* tag -> ids recorded under it
    sections,       \* docs.md: doc type -> (id -> path written)
    index           \* docs.md: tag -> ids listed

vars == <<docs, pc, n, funcs, tags, sections, index>>

DocTypes == {"scalar_function", "aggregate_function", "table_function"}

(* A front matter of body lines only decodes.                              *)
Decodes(b) == b # <<>> /\ \A j \in 1..Len(b) : b[j] = "body"

(* Line 1 is ---, and the lines up to the next --- decode.                 *)
WellFormed(f) ==
    LET ls == docs[f].lines IN
    /\ ls # <<>> /\ ls[1] = "delim"
    /\ \E p \in 2..Len(ls) :
          /\ ls[p] = "delim"
          /\ Decodes(SubSeq(ls, 2, p - 1))
          /\ \A m \in 2..p - 1 : ls[m] # "delim"

(* The file f is stored: its item under its id, its id under its tags.    *)
Store(f) ==
    LET m == docs[f].meta
        new == {m.tags[j] : j \in DOMAIN m.tags}
    IN  /\ funcs' = [funcs EXCEPT ![m.type] =
                        [x \in DOMAIN @ \cup {m.id} |-> IF x = m.id THEN f ELSE @[x]]]
        /\ tags' = [t \in DOMAIN tags \cup new |->
                      (IF t \in DOMAIN tags THEN tags[t] ELSE {})
                        \cup (IF t \in new THEN {m.id} ELSE {})]

Init ==
    /\ docs \in [1..NumFiles -> DocChoices]
    /\ pc = "run"
    /\ n = 1
    /\ funcs = [t \in DocTypes |-> << >>]
    /\ tags = << >>
    /\ sections = [t \in DocTypes |-> << >>]
    /\ index = << >>

(* The next file is stored, or stops the script.                           *)
TakeFile ==
    /\ pc = "run"
    /\ n <= NumFiles
    /\ IF WellFormed(n) /\ docs[n].meta.type \in DocTypes
          THEN Store(n) /\ n' = n + 1 /\ UNCHANGED pc
          ELSE pc' = "crashed" /\ UNCHANGED <<n, funcs, tags>>
    /\ UNCHANGED <<docs, sections, index>>

(* docs.md: the dictionaries, and under each tag its scalar and aggregate *)
(* functions.                                                              *)
Write ==
    /\ pc = "run"
    /\ n > NumFiles
    /\ sections' = funcs
    /\ index' = [t \in DOMAIN tags |->
                   {e \in tags[t] : e \in DOMAIN funcs["scalar_function"]
                                            \cup DOMAIN funcs["aggregate_function"]}]
    /\ pc' = "done"
    /\ UNCHANGED <<docs, n, funcs, tags>>

Next == TakeFile \/ Write

Spec == Init /\ [][Next]_vars
=============================================================================
