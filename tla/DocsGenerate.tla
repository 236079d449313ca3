---------------------------- MODULE DocsGenerate ----------------------------
(***************************************************************************)
(* The documentation generator src/docs/src/generate.py.                   *)
(*                                                                         *)
(* main() collects the .md files under functions/ and sorts them by path   *)
(* (lines 39-45), reads each one's front matter line by line (48-64), puts *)
(* the item into the scalar, aggregate or table dictionary under its id    *)
(* (67-80) and appends the id to the list of each of its tags (83-87).     *)
(* Only when every file has been read is docs.md opened and written: one   *)
(* section per dictionary and the index by tag (90-149).  Any malformed    *)
(* file raises out of main() before docs.md is touched.                    *)
(*                                                                         *)
(* Data is abstracted as in DocsVerify: a file is its line kinds and the   *)
(* object its front matter decodes to; a file path is its rank in name     *)
(* order; the markdown written is the file each section entry comes from   *)
(* and the set of ids listed under each tag (the order and repetition of  *)
(* the entries under a tag are left out).                                  *)
(***************************************************************************)
EXTENDS Integers, Sequences, FiniteSets

CONSTANTS
    NumFiles,       \* number of .md files under functions/
    Ids,            \* function ids
    Tags,           \* tag names
    MaxLines,       \* longest doc file
    DocChoices      \* the doc file contents considered

(* Paths, by their rank in sorted order.                                   *)
Files == 1..NumFiles

DocTypes == {"scalar_function", "aggregate_function", "table_function"}

(* "other" stands for any other value of data['type'], or none.            *)
Meta == [type : DocTypes \cup {"other"}, id : Ids, tags : Seq(Tags)]

LineKinds == {"delim", "body", "junk"}

DocFile == [lines : Seq(LineKinds), meta : Meta]

ASSUME NumFilesAssumption == NumFiles \in Nat
ASSUME MaxLinesAssumption == MaxLines \in Nat
ASSUME DocChoicesAssumption ==
    /\ DocChoices \subseteq DocFile
    /\ \A d \in DocChoices : Len(d.lines) <= MaxLines

VARIABLES
    docs,       \* path -> contents
    pc,         \* "walk", "open", "frontmatter", "tags", "done", "crashed"
    items,      \* the sorted list of paths
    n,          \* index in items of the file being read
    pos,        \* index of the next line f.readline() returns
    ti,         \* index in data['tags'] of the next tag to record
    buf,        \* frontmatter: the lines accumulated so far
    funcs,      \* doc type -> (id -> path of the item stored)
    tagged,     \* tagged_items: tag -> list of ids
    sections,   \* docs.md: doc type -> (id -> path whose item is written)
    index       \* docs.md "Functions by tag": tag -> ids listed

vars == <<docs, pc, items, n, pos, ti, buf, funcs, tagged, sections, index>>

(* f.readline(): the line at pos, or "eof" (the empty string) past the end. *)
Line(f, p) == IF p <= Len(docs[f].lines) THEN docs[f].lines[p] ELSE "eof"

(* json.loads(frontmatter) succeeds: a non-empty, well-formed object.      *)
JsonOk(b) == b # <<>> /\ \A j \in 1..Len(b) : b[j] = "body"

(* The elements of a list.                                                 *)
Elems(s) == {s[j] : j \in DOMAIN s}

(* The lists os.walk can produce: every .md file exactly once.             *)
WalkOrders ==
    {w \in [1..NumFiles -> Files] : \A i, j \in 1..NumFiles : i # j => w[i] # w[j]}

(* Mutant: the list os.walk produced, not sorted.                          *)
UnsortedItems(w) == w

(* items.sort(): paths in name order, the path at position j being the    *)
(* one with j - 1 smaller paths in the list.                               *)
SortItems(w) ==
    [j \in 1..Len(w) |->
        CHOOSE f \in Elems(w) : Cardinality({g \in Elems(w) : g < f}) = j - 1]

(* d[key] = v on a dict d.                                                 *)
Put(f, key, v) == [x \in DOMAIN f \cup {key} |-> IF x = key THEN v ELSE f[x]]

(* Mutant: the id is only recorded for the first item with the tag.       *)
TagEntryFirstOnly(tg, t, id) ==
    IF t \in DOMAIN tg THEN tg ELSE Put(tg, t, <<id>>)

(* Mutant: a new tag's list created as the bare id, not [doc_id].          *)
TagEntryNoList(tg, t, id) ==
    IF t \in DOMAIN tg THEN [tg EXCEPT ![t] = Append(@, id)]
                       ELSE Put(tg, t, id)

(* Lines 85-87: create the tag's list if new, then append the id.          *)
TagEntry(tg, t, id) ==
    IF t \in DOMAIN tg THEN [tg EXCEPT ![t] = Append(@, id)]
                       ELSE Put(tg, t, <<id>>)

(* Lines 145-148: an entry is written only if it is a scalar or an        *)
(* aggregate function.                                                     *)
IndexEntries(ids, fs) ==
    {e \in Elems(ids) : e \in DOMAIN fs["scalar_function"] \cup DOMAIN fs["aggregate_function"]}

-----------------------------------------------------------------------------
Init ==
    /\ docs \in [Files -> DocChoices]
    /\ pc = "walk"
    /\ items = <<>>
    /\ n = 1
    /\ pos = 1
    /\ ti = 1
    /\ buf = <<>>
    /\ funcs = [t \in DocTypes |-> <<>>]
    /\ tagged = <<>>
    /\ sections = [t \in DocTypes |-> <<>>]
    /\ index = <<>>

(* Lines 39-45: os.walk lists the files in an order of its own; the list  *)
(* is then sorted.                                                         *)
Walk ==
    /\ pc = "walk"
    /\ \E w \in WalkOrders : items' = SortItems(w)
    /\ pc' = "open"
    /\ UNCHANGED <<docs, n, pos, ti, buf, funcs, tagged, sections, index>>

(* Mutant: the first line is not checked for the opening ---.              *)
OpenItemNoStartCheck ==
    /\ pc = "open"
    /\ n <= Len(items)
    /\ pc' = "frontmatter" /\ pos' = 2 /\ buf' = <<>>
    /\ UNCHANGED <<docs, items, n, ti, funcs, tagged, sections, index>>

(* Lines 49-55: the next item is opened; a first line that does not start *)
(* with --- raises ValueError, which nothing catches.                      *)
OpenItem ==
    /\ pc = "open"
    /\ n <= Len(items)
    /\ IF Line(items[n], 1) = "delim"
          THEN pc' = "frontmatter" /\ pos' = 2 /\ buf' = <<>>
          ELSE pc' = "crashed" /\ UNCHANGED <<pos, buf>>
    /\ UNCHANGED <<docs, items, n, ti, funcs, tagged, sections, index>>

(* Lines 56-58: append the line and read the next; at the end of the file *)
(* readline keeps returning the empty string and the step changes nothing. *)
ReadLine ==
    /\ pc = "frontmatter"
    /\ Line(items[n], pos) # "delim"
    /\ IF pos <= Len(docs[items[n]].lines)
          THEN buf' = Append(buf, Line(items[n], pos)) /\ pos' = pos + 1
          ELSE UNCHANGED <<buf, pos>>
    /\ UNCHANGED <<docs, pc, items, n, ti, funcs, tagged, sections, index>>

(* Mutant: a front matter that does not decode is stored all the same.    *)
EndFrontMatterNoJsonCheck ==
    /\ pc = "frontmatter"
    /\ Line(items[n], pos) = "delim"
    /\ LET f    == items[n]
           meta == docs[f].meta
       IN  IF meta.type = "other"
              THEN pc' = "crashed" /\ UNCHANGED <<funcs, ti>>
              ELSE /\ funcs' = [funcs EXCEPT ![meta.type] = Put(@, meta.id, f)]
                   /\ ti' = 1
                   /\ pc' = "tags"
    /\ UNCHANGED <<docs, items, n, pos, buf, tagged, sections, index>>

(***************************************************************************)
(* Lines 61-82: the closing --- is read.  A JSON error or an unknown doc   *)
(* type raises ValueError; otherwise the item is stored under its id in    *)
(* its type's dictionary, replacing an earlier item with that id, and the *)
(* loop over its tags starts.                                              *)
(***************************************************************************)
EndFrontMatter ==
    /\ pc = "frontmatter"
    /\ Line(items[n], pos) = "delim"
    /\ LET f    == items[n]
           meta == docs[f].meta
       IN  IF ~JsonOk(buf) \/ meta.type = "other"
              THEN pc' = "crashed" /\ UNCHANGED <<funcs, ti>>
              ELSE /\ funcs' = [funcs EXCEPT ![meta.type] = Put(@, meta.id, f)]
                   /\ ti' = 1
                   /\ pc' = "tags"
    /\ UNCHANGED <<docs, items, n, pos, buf, tagged, sections, index>>

(* data: the front matter of the item being read.                          *)
Data == docs[items[n]].meta

(* Lines 84-87: the next tag of data['tags'] gets the id appended.         *)
AddTag ==
    /\ pc = "tags"
    /\ ti <= Len(Data.tags)
    /\ tagged' = TagEntry(tagged, Data.tags[ti], Data.id)
    /\ ti' = ti + 1
    /\ UNCHANGED <<docs, pc, items, n, pos, buf, funcs, sections, index>>

(* Lines 83-84: the tags are done (or there are none); the next item.      *)
EndTags ==
    /\ pc = "tags"
    /\ ti > Len(Data.tags)
    /\ n' = n + 1
    /\ pc' = "open"
    /\ UNCHANGED <<docs, items, pos, ti, buf, funcs, tagged, sections, index>>

(***************************************************************************)
(* Lines 90-149: every item has been read; docs.md is written: each        *)
(* dictionary's items as a section, then each tag with its listed ids.    *)
(***************************************************************************)
WriteDocs ==
    /\ pc = "open"
    /\ n > Len(items)
    /\ sections' = funcs
    /\ index' = [t \in DOMAIN tagged |-> IndexEntries(tagged[t], funcs)]
    /\ pc' = "done"
    /\ UNCHANGED <<docs, items, n, pos, ti, buf, funcs, tagged>>

Next == Walk \/ OpenItem \/ ReadLine \/ EndFrontMatter \/ AddTag \/ EndTags \/ WriteDocs

(* One thread, no input: every enabled step eventually happens.            *)
Spec == Init /\ [][Next]_vars /\ WF_vars(Next)

-----------------------------------------------------------------------------
(* Type invariant.                                                         *)
TypeOK ==
    /\ docs \in [Files -> DocChoices]
    /\ pc \in {"walk", "open", "frontmatter", "tags", "done", "crashed"}
    /\ items \in Seq(Files)
    /\ n \in 1..NumFiles + 1
    /\ pos \in 1..MaxLines + 1
    /\ ti \in Nat \ {0}
    /\ buf \in Seq(LineKinds)
    /\ \A t \in DocTypes : DOMAIN funcs[t] \subseteq Ids
                           /\ \A id \in DOMAIN funcs[t] : funcs[t][id] \in Files
    /\ DOMAIN tagged \subseteq Tags /\ \A t \in DOMAIN tagged : tagged[t] \in Seq(Ids)

(* The doc file f opens and closes its front matter.                       *)
Delimited(f) ==
    Line(f, 1) = "delim" => \E p \in 2..Len(docs[f].lines) : docs[f].lines[p] = "delim"

(***************************************************************************)
(* generate.py ends (writes docs.md or raises) whenever every doc file     *)
(* that opens its front matter with --- also closes it.                    *)
(***************************************************************************)
TerminatesWhenDelimited ==
    (\A f \in Files : Delimited(f)) => <>(pc \in {"done", "crashed"})

(***************************************************************************)
(* When two doc files give the same id and type, docs.md shows the one     *)
(* whose path sorts last, whatever order os.walk listed them in: the sort  *)
(* at line 45 makes the dictionary overwrite at lines 74-78 deterministic. *)
(***************************************************************************)
LastFileWins ==
    pc = "done" =>
        \A f \in Files :
            LET m == docs[f].meta IN
            /\ m.id \in DOMAIN sections[m.type]
            /\ f <= sections[m.type][m.id]

(***************************************************************************)
(* Every scalar or aggregate function of docs.md is listed under every tag *)
(* its doc file carries, in the index by tag.                              *)
(***************************************************************************)
IndexComplete ==
    pc = "done" =>
        \A t \in {"scalar_function", "aggregate_function"} :
            \A id \in DOMAIN sections[t] :
                \A tag \in Elems(docs[sections[t][id]].meta.tags) :
                    tag \in DOMAIN index /\ id \in index[tag]

(***************************************************************************)
(* "Write all tagged items" (line 140): every function of docs.md, of any *)
(* type, is listed under every tag its doc file carries.                   *)
(***************************************************************************)
AllTaggedItemsIndexed ==
    pc = "done" =>
        \A t \in DocTypes :
            \A id \in DOMAIN sections[t] :
                \A tag \in Elems(docs[sections[t][id]].meta.tags) :
                    tag \in DOMAIN index /\ id \in index[tag]

-----------------------------------------------------------------------------
(* The tags the tag loop has still to record the current item's id under. *)
Pending == IF pc = "tags" THEN {Data.tags[j] : j \in ti..Len(Data.tags)} ELSE {}

(* The ids recorded under each tag, counting the tags still pending.       *)
TagSets ==
    [t \in DOMAIN tagged \cup Pending |->
        (IF t \in DOMAIN tagged THEN Elems(tagged[t]) ELSE {})
          \cup (IF t \in Pending THEN {Data.id} ELSE {})]

(* The file-at-a-time view: a file counts as taken once its item is        *)
(* stored, and the tag loop that follows is already done.                 *)
ByFile == INSTANCE DocsGenerateFiles
              WITH pc <- IF pc \in {"done", "crashed"} THEN pc ELSE "run",
                   n <- IF pc = "tags" THEN n + 1 ELSE n,
                   tags <- TagSets

(***************************************************************************)
(* The line-by-line reader of lines 49-64 and the tag loop of lines 83-87 *)
(* implement taking one doc file at a time, in path order: every          *)
(* behaviour of generate.py is one of DocsGenerateFiles, where a file is  *)
(* stored, or stops the script, exactly when its front matter is well     *)
(* formed and of a known type, and the reading of its lines, the steps of *)
(* its tag loop and the sort are stutters.                                 *)
(***************************************************************************)
FileRefinement == ByFile!Spec
=============================================================================
