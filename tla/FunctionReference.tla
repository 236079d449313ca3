-------------------------- MODULE FunctionReference --------------------------
(***************************************************************************)
(* The function reference generator src/generate_function_reference.py.  *)
(*                                                                         *)
(* main() opens docs/functions.md for writing, runs the catalogue query    *)
(* once per function type through a shell (get_functions), writes the      *)
(* function index (one row per function, scalar, aggregate, then table)    *)
(* and then one section per function in the same order.  Both the index   *)
(* row and the section take the summary as the first line of the          *)
(* description, before the section's own test for a missing description.   *)
(*                                                                         *)
(* Data is abstracted: a function is its name, whether its description is *)
(* a text, the empty string or JSON null, and the markdown written is the *)
(* sequence of index rows and of section headings.                        *)
(***************************************************************************)
EXTENDS Integers, Sequences

CONSTANTS
    Catalogue,      \* type -> the names the query returns, in name order
    DescChoices     \* what a description can be

Kinds == {"scalar", "aggregate", "table"}

Descs == {"text", "empty", "null"}

ASSUME CatalogueAssumption == Catalogue \in [Kinds -> Seq(STRING)]
ASSUME DescChoicesAssumption == DescChoices \subseteq Descs

VARIABLES
    pc,         \* "start", "index", "sections", "done", "crashed"
    fns,        \* type -> list of functions get_functions returned
    ki,         \* position in the order of types of the current loop
    k,          \* position in the current list
    rows,       \* names of the index rows written
    heads       \* names of the section headings written

vars == <<pc, fns, ki, k, rows, heads>>

(* A function as json.loads returns it.                                    *)
Fn == [name : STRING, desc : Descs]

(* Lines 64, 67, 70: the index lists scalar, aggregate, then table.        *)
IndexOrder == <<"scalar", "aggregate", "table">>

(* Mutant: the two basic function sets written in the other order.         *)
SectionOrderSwapped == <<"aggregate", "scalar", "table">>

(* Lines 75 and 107-108: scalar and aggregate sections, then table ones.   *)
SectionOrder == <<"scalar", "aggregate", "table">>

(* function['description'].split('\n')[0]: fails on None.                  *)
SummaryOk(f) == f.desc # "null"

(* Lines 32-36 for one type: one function per line of the shell's output;  *)
(* when the shell cannot run the binary, readlines() returns nothing.      *)
QueryResults(t) ==
    {[j \in 1..Len(Catalogue[t]) |-> [name |-> Catalogue[t][j], desc |-> d[j]]] :
        d \in [1..Len(Catalogue[t]) -> DescChoices]} \cup {<<>>}

-----------------------------------------------------------------------------
Init ==
    /\ pc = "start"
    /\ fns = [t \in Kinds |-> <<>>]
    /\ ki = 1
    /\ k = 1
    /\ rows = <<>>
    /\ heads = <<>>

(* Lines 51-59: functions.md is truncated, then the three queries run.     *)
Collect ==
    /\ pc = "start"
    /\ fns' \in [Kinds -> UNION {QueryResults(t) : t \in Kinds}]
    /\ \A t \in Kinds : fns'[t] \in QueryResults(t)
    /\ pc' = "index"
    /\ UNCHANGED <<ki, k, rows, heads>>

(* The function at the current position of a loop over types in order o.   *)
Current(o) == fns[o[ki]][k]

(* Lines 41-44: one index row; the summary is taken first.                 *)
TocRow ==
    /\ pc = "index"
    /\ k <= Len(fns[IndexOrder[ki]])
    /\ IF SummaryOk(Current(IndexOrder))
          THEN rows' = Append(rows, Current(IndexOrder).name) /\ k' = k + 1
               /\ UNCHANGED pc
          ELSE pc' = "crashed" /\ UNCHANGED <<rows, k>>
    /\ UNCHANGED <<fns, ki, heads>>

(* Lines 78-104 and 108-134: one section; its summary line 80 or 110 is    *)
(* taken before the description test at line 90 or 120.                    *)
Section ==
    /\ pc = "sections"
    /\ k <= Len(fns[SectionOrder[ki]])
    /\ IF SummaryOk(Current(SectionOrder))
          THEN heads' = Append(heads, Current(SectionOrder).name) /\ k' = k + 1
               /\ UNCHANGED pc
          ELSE pc' = "crashed" /\ UNCHANGED <<heads, k>>
    /\ UNCHANGED <<fns, ki, rows>>

(* The end of one type's list: the next type, or the next loop.            *)
NextList ==
    /\ \/ pc = "index" /\ k > Len(fns[IndexOrder[ki]])
       \/ pc = "sections" /\ k > Len(fns[SectionOrder[ki]])
    /\ k' = 1
    /\ IF ki < 3
          THEN ki' = ki + 1 /\ UNCHANGED pc
          ELSE ki' = 1 /\ pc' = IF pc = "index" THEN "sections" ELSE "done"
    /\ UNCHANGED <<fns, rows, heads>>

Next == Collect \/ TocRow \/ Section \/ NextList

(* One thread, no input once started.                                      *)
Spec == Init /\ [][Next]_vars /\ WF_vars(Next)

-----------------------------------------------------------------------------
(* The index rows, in the order the index lists them.                      *)
Listed == fns["scalar"] \o fns["aggregate"] \o fns["table"]

(***************************************************************************)
(* Every link of the function index has its section: once functions.md is  *)
(* complete, the section headings are the index rows, in the same order,  *)
(* so reading the reference top to bottom follows the index.              *)
(***************************************************************************)
SectionsFollowIndex ==
    pc = "done" =>
        /\ heads = rows
        /\ rows = [j \in 1..Len(Listed) |-> Listed[j].name]

(***************************************************************************)
(* A function without a description is written with "No description for"  *)
(* printed instead (lines 90-95, 120-125): the script never aborts on one. *)
(***************************************************************************)
MissingDescriptionHandled == pc # "crashed"
=============================================================================
