----------------------------- MODULE DocsVerify -----------------------------
(***************************************************************************)
(* The documentation checker src/docs/src/verify.py.                       *)
(*                                                                         *)
(* Phase 1 walks the doc files under functions/, reads each file's front   *)
(* matter with try_parse_frontmatter (one readline per step, so the loop   *)
(* at line 23 is visible), and fills the item table (keyed by the file's   *)
(* base name) and the alias table.  Phase 2 goes through the function      *)
(* catalogue: a function whose id has no item is either skipped as an      *)
(* alias or reported missing and, if the user agrees, given a new doc      *)
(* item; a function with an item has each of its signatures looked up     *)
(* among the documented ones.                                              *)
(*                                                                         *)
(* Data is abstracted: a doc file is a sequence of line kinds ("delim"     *)
(* for a line starting with ---, "body" for a line of a well-formed JSON   *)
(* object, "junk" for a line that breaks the JSON) together with the       *)
(* object the front matter decodes to; a signature is its return type and  *)
(* its sequence of parameter types (parameter names are never compared).   *)
(***************************************************************************)
EXTENDS Integers, Sequences, FiniteSets

CONSTANTS
    Bases,          \* base names of the .md files under functions/
    Ids,            \* function ids
    Types,          \* parameter and return types
    NoId,           \* a front matter without an "id" key
    DocTypes,       \* scalar_function, aggregate_function, table_function
    TableType,      \* the member of DocTypes that is table_function
    MaxLines,       \* longest doc file
    DocChoices,     \* the doc file contents considered
    Catalogue       \* the lines of the three *_functions.json files, in order

Sig == [returns : Types, params : Seq(Types)]

Meta == [id : Ids \cup {NoId}, aliases : SUBSET Ids, sigs : SUBSET Sig]

LineKinds == {"delim", "body", "junk"}

DocFile == [lines : Seq(LineKinds), meta : Meta]

ASSUME CatalogueAssumption ==
    Catalogue \in Seq([type : DocTypes, id : Ids, sigs : SUBSET Sig])
ASSUME DocChoicesAssumption ==
    /\ DocChoices \subseteq DocFile
    /\ \A d \in DocChoices : Len(d.lines) <= MaxLines
ASSUME TableTypeAssumption == TableType \in DocTypes
ASSUME MaxLinesAssumption == MaxLines \in Nat \ {0}
ASSUME BasesAssumption == IsFiniteSet(Bases)

VARIABLES
    docs,       \* base name -> contents of functions/<base>.md
    pc,         \* "walk", "frontmatter", "catalogue", "prompt", "done", "crashed"
    walked,     \* files os.walk has produced so far
    cur,        \* the file being read (base)
    pos,        \* index of the next line f.readline() returns
    buf,        \* frontmatter: the lines accumulated so far
    items,      \* items: key -> decoded front matter
    aliases,    \* aliases: alias -> id
    k,          \* index of the catalogue line being processed
    missingDoc, \* catalogue lines reported "Missing doc item"
    missingSig, \* <<line, signature>> reported "Missing signature"
    written,    \* ids whose functions/<id>.md was written in phase 2
    dupAliases  \* <<alias, base>> reported "Duplicate alias"

vars == <<docs, pc, walked, cur, pos, buf, items, aliases, k, missingDoc,
          missingSig, written, dupAliases>>

(***************************************************************************)
(* f.readline(): the line at pos, or the empty string ("eof") at the end   *)
(* of the file, which does not start with ---.                             *)
(***************************************************************************)
Line(f, n) == IF n <= Len(docs[f].lines) THEN docs[f].lines[n] ELSE "eof"

(* json.loads(frontmatter) succeeds: a non-empty, well-formed object.      *)
JsonOk(b) == b # <<>> /\ \A n \in 1..Len(b) : b[n] = "body"

(***************************************************************************)
(* The match test of lines 132-145 for one documented signature ds and one *)
(* catalogue signature fs: return types are compared except for table      *)
(* functions, then the parameter counts, then each parameter type.         *)
(***************************************************************************)
SigMatchesNoLength(type, ds, fs) ==
    /\ type # TableType => ds.returns = fs.returns
    /\ Len(fs.params) <= Len(ds.params)
    /\ \A n \in 1..Len(fs.params) : ds.params[n] = fs.params[n]

SigMatches(type, ds, fs) ==
    /\ type # TableType => ds.returns = fs.returns
    /\ Len(ds.params) = Len(fs.params)
    /\ \A n \in 1..Len(fs.params) : ds.params[n] = fs.params[n]

(* The catalogue signatures of entry e that no documented one matches.     *)
Unmatched(e, item) == {fs \in e.sigs : ~\E ds \in item.sigs : SigMatches(e.type, ds, fs)}

(* The item written for a missing function (lines 84-109): one signature   *)
(* per catalogue signature, with its return type and parameter types.      *)
CreatedItem(e) == [id |-> e.id, aliases |-> {}, sigs |-> e.sigs]

(* Mutant: the duplicate test made after the alias is stored.             *)
AliasReportsAfterAssign(as, al) == as

(* Lines 52-53: the aliases of a file already in the alias table.         *)
AliasReports(as, al) == {a \in as : a \in DOMAIN al}

(* d @@ (key :> v) without the TLC module.                                 *)
Put(f, key, v) == [x \in DOMAIN f \cup {key} |-> IF x = key THEN v ELSE f[x]]

-----------------------------------------------------------------------------
Init ==
    /\ docs \in [Bases -> DocChoices]
    /\ pc = "walk"
    /\ walked = {}
    /\ cur = CHOOSE b \in Bases : TRUE
    /\ pos = 1
    /\ buf = <<>>
    /\ items = [x \in {} |-> CHOOSE m \in Meta : TRUE]
    /\ aliases = [x \in {} |-> NoId]
    /\ k = 1
    /\ missingDoc = {}
    /\ missingSig = {}
    /\ written = {}
    /\ dupAliases = {}

(* Mutant: the first line is not checked for the opening --- (line 19).   *)
OpenFileNoStartCheck ==
    /\ pc = "walk"
    /\ \E f \in Bases \ walked :
          /\ walked' = walked \cup {f}
          /\ cur' = f
          /\ pc' = "frontmatter" /\ pos' = 2 /\ buf' = <<>>
    /\ UNCHANGED <<docs, items, aliases, k, missingDoc, missingSig, written, dupAliases>>

(***************************************************************************)
(* Lines 39-48 and 17-20: os.walk yields the next .md file, which is       *)
(* opened and its first line read; without a leading --- the ValueError    *)
(* is caught at line 55 and the file ignored.                              *)
(***************************************************************************)
OpenFile ==
    /\ pc = "walk"
    /\ \E f \in Bases \ walked :
          /\ walked' = walked \cup {f}
          /\ cur' = f
          /\ IF Line(f, 1) = "delim"
                THEN pc' = "frontmatter" /\ pos' = 2 /\ buf' = <<>>
                ELSE UNCHANGED <<pc, pos, buf>>
    /\ UNCHANGED <<docs, items, aliases, k, missingDoc, missingSig, written, dupAliases>>

(* Mutant of the loop body: the empty string read at the end of the file *)
(* appended as a line.                                                     *)
ReadLineAppendingEof ==
    /\ pc = "frontmatter"
    /\ Line(cur, pos) # "delim"
    /\ buf' = Append(buf, Line(cur, pos))
    /\ pos' = IF pos <= Len(docs[cur].lines) THEN pos + 1 ELSE pos
    /\ UNCHANGED <<docs, pc, walked, cur, items, aliases, k, missingDoc,
                   missingSig, written, dupAliases>>

(***************************************************************************)
(* Lines 22-25: while the line read does not start with ---, append it and *)
(* read the next one.  At the end of the file readline keeps returning the *)
(* empty string: the step then changes nothing.                           *)
(***************************************************************************)
ReadLine ==
    /\ pc = "frontmatter"
    /\ Line(cur, pos) # "delim"
    /\ IF pos <= Len(docs[cur].lines)
          THEN buf' = Append(buf, Line(cur, pos)) /\ pos' = pos + 1
          ELSE UNCHANGED <<buf, pos>>
    /\ UNCHANGED <<docs, pc, walked, cur, items, aliases, k, missingDoc,
                   missingSig, written, dupAliases>>

(***************************************************************************)
(* Lines 28-31 and 48-56: the closing --- is read; the front matter is     *)
(* decoded, stored under the file's base name, and its aliases recorded    *)
(* (a duplicate is printed, then overwritten).  A JSON error is caught and *)
(* the file ignored; an alias list without an "id" key raises KeyError at  *)
(* line 54, which the except ValueError does not catch.                    *)
(***************************************************************************)
EndFrontMatter ==
    /\ pc = "frontmatter"
    /\ Line(cur, pos) = "delim"
    /\ LET meta == docs[cur].meta IN
       IF ~JsonOk(buf)
          THEN pc' = "walk" /\ UNCHANGED <<items, aliases, dupAliases>>
          ELSE /\ items' = Put(items, cur, meta)
               /\ IF meta.aliases # {} /\ meta.id = NoId
                     THEN /\ pc' = "crashed"
                          /\ UNCHANGED aliases
                          /\ \E a \in meta.aliases :
                                dupAliases' = dupAliases \cup
                                  {<<d, cur>> : d \in AliasReports({a}, aliases)}
                     ELSE /\ pc' = "walk"
                          /\ dupAliases' = dupAliases \cup
                               {<<d, cur>> : d \in AliasReports(meta.aliases, aliases)}
                          /\ aliases' = [a \in DOMAIN aliases \cup meta.aliases |->
                                           IF a \in meta.aliases THEN meta.id
                                                                 ELSE aliases[a]]
    /\ UNCHANGED <<docs, walked, cur, pos, buf, k, missingDoc, missingSig, written>>

(* The walk is over: phase 2 starts at the first catalogue line.           *)
EndWalk ==
    /\ pc = "walk"
    /\ walked = Bases
    /\ pc' = "catalogue"
    /\ UNCHANGED <<docs, walked, cur, pos, buf, items, aliases, k, missingDoc,
                   missingSig, written, dupAliases>>

Entry == Catalogue[k]

(* Lines 128-154: every catalogue signature no documented one matches is   *)
(* reported.                                                              *)
CheckSignatures ==
    /\ pc = "catalogue"
    /\ k <= Len(Catalogue)
    /\ Entry.id \in DOMAIN items
    /\ missingSig' = missingSig \cup {<<k, fs>> : fs \in Unmatched(Entry, items[Entry.id])}
    /\ k' = k + 1
    /\ UNCHANGED <<docs, pc, walked, cur, pos, buf, items, aliases, missingDoc, written, dupAliases>>

(* Lines 74-77: no item, but an alias of that name: skipped.               *)
SkipAlias ==
    /\ pc = "catalogue"
    /\ k <= Len(Catalogue)
    /\ Entry.id \notin DOMAIN items
    /\ Entry.id \in DOMAIN aliases
    /\ k' = k + 1
    /\ UNCHANGED <<docs, pc, walked, cur, pos, buf, items, aliases, missingDoc,
                   missingSig, written, dupAliases>>

(* Mutant: the alias test at line 75 dropped.                             *)
ReportMissingIgnoringAliases ==
    /\ pc = "catalogue"
    /\ k <= Len(Catalogue)
    /\ Entry.id \notin DOMAIN items
    /\ missingDoc' = missingDoc \cup {k}
    /\ pc' = "prompt"
    /\ UNCHANGED <<docs, walked, cur, pos, buf, items, aliases, k, missingSig, written, dupAliases>>

(* Lines 79-80: reported missing, and the user is asked.                   *)
ReportMissing ==
    /\ pc = "catalogue"
    /\ k <= Len(Catalogue)
    /\ Entry.id \notin DOMAIN items
    /\ Entry.id \notin DOMAIN aliases
    /\ missingDoc' = missingDoc \cup {k}
    /\ pc' = "prompt"
    /\ UNCHANGED <<docs, walked, cur, pos, buf, items, aliases, k, missingSig, written, dupAliases>>

(* Lines 80-123: the user answers y (the item is built from the catalogue  *)
(* signatures, stored and written to functions/<id>.md) or n.              *)
CreateDocItem ==
    /\ pc = "prompt"
    /\ items' = Put(items, Entry.id, CreatedItem(Entry))
    /\ written' = written \cup {Entry.id}
    /\ pc' = "catalogue"
    /\ k' = k + 1
    /\ UNCHANGED <<docs, walked, cur, pos, buf, aliases, missingDoc, missingSig, dupAliases>>

Decline ==
    /\ pc = "prompt"
    /\ pc' = "catalogue"
    /\ k' = k + 1
    /\ UNCHANGED <<docs, walked, cur, pos, buf, items, aliases, missingDoc,
                   missingSig, written, dupAliases>>

(* The last catalogue line is done: main() returns.                        *)
Finish ==
    /\ pc = "catalogue"
    /\ k > Len(Catalogue)
    /\ pc' = "done"
    /\ UNCHANGED <<docs, walked, cur, pos, buf, items, aliases, k, missingDoc,
                   missingSig, written, dupAliases>>

Next ==
    \/ OpenFile \/ ReadLine \/ EndFrontMatter \/ EndWalk
    \/ CheckSignatures \/ SkipAlias \/ ReportMissing
    \/ CreateDocItem \/ Decline \/ Finish

(***************************************************************************)
(* The script runs on one thread and the user answers every prompt, so     *)
(* every enabled step eventually happens.                                  *)
(***************************************************************************)
Spec == Init /\ [][Next]_vars /\ WF_vars(Next)

-----------------------------------------------------------------------------
(* Type invariant.                                                         *)
TypeOK ==
    /\ docs \in [Bases -> DocChoices]
    /\ pc \in {"walk", "frontmatter", "catalogue", "prompt", "done", "crashed"}
    /\ walked \subseteq Bases
    /\ walked # {} => cur \in walked
    /\ pos \in 1..MaxLines + 1
    /\ buf \in Seq(LineKinds) /\ Len(buf) < MaxLines
    /\ DOMAIN items \subseteq Bases \cup Ids /\ \A x \in DOMAIN items : items[x] \in Meta
    /\ DOMAIN aliases \subseteq Ids /\ \A a \in DOMAIN aliases : aliases[a] \in Ids
    /\ k \in 1..Len(Catalogue) + 1
    /\ missingDoc \subseteq 1..Len(Catalogue)
    /\ written \subseteq Ids

(* The doc file f opens and closes its front matter.                       *)
Delimited(f) ==
    docs[f].lines # <<>> /\ docs[f].lines[1] = "delim" =>
        \E n \in 2..Len(docs[f].lines) : docs[f].lines[n] = "delim"

(***************************************************************************)
(* verify.py terminates (returns or raises) whenever every doc file that   *)
(* opens its front matter with --- also closes it: the readline loop of    *)
(* try_parse_frontmatter advances through the file and phase 2 through    *)
(* the catalogue.                                                          *)
(***************************************************************************)
TerminatesWhenDelimited ==
    (\A f \in Bases : Delimited(f)) => <>(pc \in {"done", "crashed"})

(***************************************************************************)
(* verify.py terminates on every set of doc files: an invalid front matter *)
(* is ignored, as the comment at line 56 says.                            *)
(***************************************************************************)
Terminates == <>(pc \in {"done", "crashed"})

(***************************************************************************)
(* A "Missing signature" is printed for exactly the catalogue signatures   *)
(* of a documented function that no documented signature matches, where    *)
(* matching means the same parameter types in the same order and, except  *)
(* for table functions, the same return type.                             *)
(***************************************************************************)
ReferenceMatch(type, ds, fs) ==
    ds.params = fs.params /\ (type = TableType \/ ds.returns = fs.returns)

SignatureReportsMatchReference ==
    [][ pc = "catalogue" /\ k <= Len(Catalogue) /\ Entry.id \in DOMAIN items =>
          missingSig' \ missingSig =
            {<<k, fs>> : fs \in {s \in Entry.sigs :
                                   ~\E ds \in items[Entry.id].sigs :
                                       ReferenceMatch(Entry.type, ds, s)}} ]_vars

(***************************************************************************)
(* A function is reported "Missing doc item" only when no well-formed doc  *)
(* file documents it, under its id or as an alias.                         *)
(***************************************************************************)
FrontMatterOk(f) ==
    /\ Line(f, 1) = "delim"
    /\ \E n \in 2..Len(docs[f].lines) :
          /\ docs[f].lines[n] = "delim"
          /\ JsonOk(SubSeq(docs[f].lines, 2, n - 1))
          /\ \A m \in 2..n - 1 : docs[f].lines[m] # "delim"

Documents(f, id) ==
    FrontMatterOk(f) /\ id \in {docs[f].meta.id} \cup docs[f].meta.aliases

NoSpuriousMissingDoc ==
    \A n \in missingDoc : ~\E f \in Bases : Documents(f, Catalogue[n].id)

(***************************************************************************)
(* What verify.py really checks a catalogue id against: a well-formed doc  *)
(* file stored under that base name (line 49) or claiming it as an alias   *)
(* (line 54).  "Missing doc item" is printed for a catalogue line exactly  *)
(* when no such file exists: every report is for an id without one, and   *)
(* every line passed over without a report has one, or its id was created *)
(* at the prompt of an earlier line.  This ties the lookups of lines 73-77 *)
(* to what the walk of lines 39-56 stored from the files.                 *)
(***************************************************************************)
HasDocFile(id) ==
    \E f \in Bases : FrontMatterOk(f) /\ (f = id \/ id \in docs[f].meta.aliases)

MissingDocMatchesFiles ==
    pc \in {"catalogue", "prompt", "done"} =>
        \A n \in 1..Len(Catalogue) :
            /\ n \in missingDoc => n <= k /\ ~HasDocFile(Catalogue[n].id)
            /\ n < k /\ n \notin missingDoc =>
                  HasDocFile(Catalogue[n].id) \/ Catalogue[n].id \in written

(***************************************************************************)
(* Between two doc files, "Duplicate alias" has been printed for an alias  *)
(* once for every well-formed file walked so far that claims it, but the   *)
(* first: the test at line 52 comes before the store at line 54, which     *)
(* then silently moves the alias to the later file's id.                   *)
(***************************************************************************)
Claimants(a) == {f \in walked : FrontMatterOk(f) /\ a \in docs[f].meta.aliases}

DuplicateAliasesReported ==
    pc \in {"walk", "catalogue", "prompt", "done"} =>
        \A a \in Ids :
            Cardinality({f \in Bases : <<a, f>> \in dupAliases})
              = IF Claimants(a) = {} THEN 0 ELSE Cardinality(Claimants(a)) - 1
=============================================================================
