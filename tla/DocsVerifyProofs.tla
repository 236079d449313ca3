--------------------------- MODULE DocsVerifyProofs ---------------------------
(***************************************************************************)
(* Proofs about verify.py for every doc tree and catalogue.                *)
(*                                                                         *)
(* TypeOK is not inductive by itself: the bound on the front matter read   *)
(* so far (Len(buf) < MaxLines) holds because buf grows with pos, one      *)
(* line per readline, inside a file of at most MaxLines lines, and the     *)
(* prompt step moves k on only because the report before it was made at  *)
(* a catalogue line.  SignatureReportsMatchReference also needs that the  *)
(* "Missing signature" reports made so far all belong to earlier lines of *)
(* the catalogue, so that those of line k are new.                         *)
(***************************************************************************)
EXTENDS DocsVerify, SequenceTheorems, TLAPS

(* Where try_parse_frontmatter stands: after the opening --- and one line *)
(* of buf per line read, inside the file.                                  *)
Reading ==
    pc = "frontmatter" =>
        /\ walked # {}
        /\ pos \in 2 .. Len(docs[cur].lines) + 1
        /\ Len(buf) = pos - 2

(* The prompt is about a line of the catalogue.                            *)
Prompting == pc = "prompt" => k <= Len(Catalogue)

(* Every "Missing signature" printed so far is about an earlier line.      *)
ReportsBefore == \A p \in missingSig : p[1] \in 1 .. k - 1

(***************************************************************************)
(* Lemmas on the operators and the constants.                              *)
(***************************************************************************)

\* The match test of lines 132-145 is the reference comparison: equal
\* parameter counts and equal types position by position make the two
\* parameter lists equal.
LEMMA SigMatchesIsReference ==
    ASSUME NEW type, NEW ds \in Sig, NEW fs \in Sig
    PROVE  SigMatches(type, ds, fs) <=> ReferenceMatch(type, ds, fs)
<1>1. ds.params \in Seq(Types) /\ fs.params \in Seq(Types)
  BY DEF Sig
<1>2. ds.params = fs.params
        <=> /\ Len(ds.params) = Len(fs.params)
            /\ \A n \in 1 .. Len(fs.params) : ds.params[n] = fs.params[n]
  BY <1>1, SeqEqual
<1>3. QED BY <1>2 DEF SigMatches, ReferenceMatch

\* A doc file the walk can yield.
LEMMA DocFacts ==
    ASSUME TypeOK, NEW f \in Bases
    PROVE  /\ docs[f].lines \in Seq(LineKinds)
           /\ Len(docs[f].lines) <= MaxLines
           /\ docs[f].meta \in Meta
  BY DocChoicesAssumption DEF TypeOK, DocFile

\* A line of the function catalogue.
LEMMA EntryFacts ==
    ASSUME NEW j \in 1 .. Len(Catalogue)
    PROVE  /\ Catalogue[j].id \in Ids
           /\ Catalogue[j].sigs \subseteq Sig
           /\ Catalogue[j].type \in DocTypes
<1>1. Catalogue[j] \in [type : DocTypes, id : Ids, sigs : SUBSET Sig]
  BY CatalogueAssumption, ElementOfSeq
<1>2. QED BY <1>1, Zenon

\* readline returns a line of the file, or the empty string past its end.
LEMMA LineFacts ==
    ASSUME TypeOK, NEW f \in Bases, NEW n \in Nat \ {0}
    PROVE  /\ n <= Len(docs[f].lines) => Line(f, n) = docs[f].lines[n]
                                         /\ Line(f, n) \in LineKinds
           /\ Line(f, n) = "delim" => n <= Len(docs[f].lines)
  BY DocFacts DEF Line, LineKinds

(* The inductive invariant.                                                *)
DVInv == TypeOK /\ Reading /\ Prompting /\ ReportsBefore

LEMMA DVStep == DVInv /\ [Next]_vars => DVInv'
<1> SUFFICES ASSUME TypeOK, Reading, Prompting, ReportsBefore, [Next]_vars
             PROVE  TypeOK' /\ Reading' /\ Prompting' /\ ReportsBefore'
  BY DEF DVInv
<1>0. /\ MaxLines \in Nat \ {0}
      /\ k \in 1 .. Len(Catalogue) + 1 /\ Len(Catalogue) \in Nat
  BY MaxLinesAssumption, CatalogueAssumption, LenProperties DEF TypeOK
\* Steps of phase 2 leave everything of phase 1 alone; k goes up by one
\* from a line of the catalogue, or stays.
<1>1. ASSUME UNCHANGED <<docs, walked, cur, pos, buf, aliases>>,
             pc \in {"catalogue", "prompt"}, pc' \in {"catalogue", "prompt", "done"},
             \/ k' = k + 1 /\ k <= Len(Catalogue) /\ pc' = "catalogue"
             \/ k' = k /\ (pc' = "prompt" => k <= Len(Catalogue)),
             \A p \in missingSig' \ missingSig : k' = k + 1 /\ p[1] = k,
             missingDoc' \subseteq missingDoc \cup {k}, k <= Len(Catalogue) \/ missingDoc' = missingDoc,
             written' \subseteq written \cup Ids,
             DOMAIN items' \subseteq DOMAIN items \cup Ids,
             \A x \in DOMAIN items' : items'[x] \in Meta
      PROVE  TypeOK' /\ Reading' /\ Prompting' /\ ReportsBefore'
  <2>1. TypeOK'
    BY <1>0, <1>1 DEF TypeOK
  <2>2. ReportsBefore'
    BY <1>0, <1>1 DEF ReportsBefore
  <2>3. QED BY <1>1, <2>1, <2>2 DEF Reading, Prompting
<1>2. CASE OpenFile
  <2>1. PICK f \in Bases \ walked :
          /\ walked' = walked \cup {f}
          /\ cur' = f
          /\ IF Line(f, 1) = "delim"
                THEN pc' = "frontmatter" /\ pos' = 2 /\ buf' = <<>>
                ELSE UNCHANGED <<pc, pos, buf>>
    BY <1>2 DEF OpenFile
  <2>2. pc = "walk" /\ UNCHANGED <<docs, items, aliases, k, missingDoc, missingSig, written>>
    BY <1>2 DEF OpenFile
  <2>3. CASE Line(f, 1) = "delim"
    <3>1. 1 <= Len(docs[f].lines)
      BY <2>3, LineFacts
    <3>2. QED BY <1>0, <2>1, <2>2, <2>3, <3>1
             DEF TypeOK, Reading, Prompting, ReportsBefore
  <2>4. CASE Line(f, 1) # "delim"
    BY <2>1, <2>2, <2>4 DEF TypeOK, Reading, Prompting, ReportsBefore
  <2>5. QED BY <2>3, <2>4
<1>3. CASE ReadLine
  <2>1. pc = "frontmatter" /\ UNCHANGED <<docs, pc, walked, cur, items, aliases, k,
                                         missingDoc, missingSig, written>>
    BY <1>3 DEF ReadLine
  <2>2. cur \in Bases /\ pos \in 2 .. Len(docs[cur].lines) + 1 /\ Len(buf) = pos - 2
    BY <2>1 DEF Reading, TypeOK
  <2>3. CASE pos <= Len(docs[cur].lines)
    <3>1. buf' = Append(buf, Line(cur, pos)) /\ pos' = pos + 1
      BY <1>3, <2>3 DEF ReadLine
    <3>2. Line(cur, pos) \in LineKinds /\ Len(docs[cur].lines) <= MaxLines
      BY <2>2, <2>3, LineFacts, DocFacts
    <3>3. buf' \in Seq(LineKinds) /\ Len(buf') = pos' - 2
      BY <2>2, <3>1, <3>2 DEF TypeOK
    <3>4. QED BY <1>0, <2>1, <2>2, <2>3, <3>1, <3>2, <3>3
             DEF TypeOK, Reading, Prompting, ReportsBefore
  <2>4. CASE ~(pos <= Len(docs[cur].lines))
    <3>1. UNCHANGED <<buf, pos>>
      BY <1>3, <2>4 DEF ReadLine
    <3>2. QED BY <2>1, <3>1 DEF TypeOK, Reading, Prompting, ReportsBefore
  <2>5. QED BY <2>3, <2>4
<1>4. CASE EndFrontMatter
  <2> DEFINE meta == docs[cur].meta
  <2>1. pc = "frontmatter" /\ UNCHANGED <<docs, walked, cur, pos, buf, k, missingDoc,
                                         missingSig, written>>
    BY <1>4 DEF EndFrontMatter
  <2>2. cur \in Bases /\ meta \in Meta
    BY <2>1, DocFacts DEF Reading, TypeOK
  <2>3. CASE ~JsonOk(buf)
    <3>1. pc' = "walk" /\ UNCHANGED <<items, aliases>>
      BY <1>4, <2>3 DEF EndFrontMatter
    <3>2. QED BY <2>1, <3>1 DEF TypeOK, Reading, Prompting, ReportsBefore
  <2>4. CASE JsonOk(buf)
    <3>1. items' = Put(items, cur, meta)
      BY <1>4, <2>4 DEF EndFrontMatter
    <3>2. DOMAIN items' \subseteq Bases \cup Ids /\ \A x \in DOMAIN items' : items'[x] \in Meta
      <4>1. /\ DOMAIN Put(items, cur, meta) = DOMAIN items \cup {cur}
            /\ Put(items, cur, meta)[cur] = meta
            /\ \A x \in DOMAIN items \ {cur} : Put(items, cur, meta)[x] = items[x]
        BY DEF Put
      <4>2. QED BY <2>2, <3>1, <4>1 DEF TypeOK
    <3>3. \/ pc' = "crashed" /\ UNCHANGED aliases
          \/ /\ pc' = "walk"
             /\ ~(meta.aliases # {} /\ meta.id = NoId)
             /\ aliases' = [a \in DOMAIN aliases \cup meta.aliases |->
                              IF a \in meta.aliases THEN meta.id ELSE aliases[a]]
      BY <1>4, <2>4 DEF EndFrontMatter
    <3>4. DOMAIN aliases' \subseteq Ids /\ \A a \in DOMAIN aliases' : aliases'[a] \in Ids
      BY <2>2, <3>3 DEF TypeOK, Meta
    <3>5. pc' \in {"crashed", "walk"}
      BY <3>3
    <3>6. QED BY <2>1, <3>2, <3>4, <3>5 DEF TypeOK, Reading, Prompting, ReportsBefore
  <2>5. QED BY <2>3, <2>4
<1>5. CASE EndWalk
  BY <1>5 DEF EndWalk, TypeOK, Reading, Prompting, ReportsBefore
<1>6. CASE CheckSignatures
  <2>1. Catalogue[k].sigs \subseteq Sig
    BY <1>0, <1>6, EntryFacts DEF CheckSignatures
  <2>2. QED BY <1>1, <1>6, <2>1 DEF CheckSignatures, Entry, Unmatched, TypeOK
<1>7. CASE SkipAlias
  BY <1>1, <1>7 DEF SkipAlias, TypeOK
<1>8. CASE ReportMissing
  BY <1>1, <1>8 DEF ReportMissing, TypeOK
<1>9. CASE CreateDocItem
  <2>1. k <= Len(Catalogue)
    BY <1>9 DEF CreateDocItem, Prompting
  <2>2. Entry.id \in Ids /\ CreatedItem(Entry) \in Meta
    BY <1>0, <2>1, EntryFacts DEF Entry, CreatedItem, Meta
  <2>3. items' = Put(items, Entry.id, CreatedItem(Entry))
    BY <1>9 DEF CreateDocItem
  <2>4. DOMAIN items' \subseteq DOMAIN items \cup Ids /\ \A x \in DOMAIN items' : items'[x] \in Meta
    <3>1. /\ DOMAIN Put(items, Entry.id, CreatedItem(Entry)) = DOMAIN items \cup {Entry.id}
          /\ Put(items, Entry.id, CreatedItem(Entry))[Entry.id] = CreatedItem(Entry)
          /\ \A x \in DOMAIN items \ {Entry.id} :
                Put(items, Entry.id, CreatedItem(Entry))[x] = items[x]
      BY DEF Put
    <3>2. QED BY <2>2, <2>3, <3>1 DEF TypeOK
  <2>5. QED BY <1>1, <1>9, <2>1, <2>2, <2>4 DEF CreateDocItem
<1>10. CASE Decline
  <2>1. k <= Len(Catalogue)
    BY <1>10 DEF Decline, Prompting
  <2>2. QED BY <1>1, <1>10, <2>1 DEF Decline, TypeOK
<1>11. CASE Finish
  BY <1>11 DEF Finish, TypeOK, Reading, Prompting, ReportsBefore
<1>12. CASE UNCHANGED vars
  BY <1>12 DEF vars, TypeOK, Reading, Prompting, ReportsBefore
<1>13. QED BY <1>2, <1>3, <1>4, <1>5, <1>6, <1>7, <1>8, <1>9, <1>10, <1>11, <1>12
         DEF Next

LEMMA InitDVInv == Init => DVInv
  BY MaxLinesAssumption DEF Init, DVInv, TypeOK, Reading, Prompting, ReportsBefore

\* verify.py's state stays well typed for every doc tree and catalogue: in
\* particular the front matter read never holds more lines than a doc file
\* has, and every key of the item and alias tables is a base name or an id.
THEOREM DocsTypeCorrect == Spec => []TypeOK
  BY InitDVInv, DVStep, PTL DEF Spec, DVInv


\* The guard of SignatureReportsMatchReference: line k of the catalogue is
\* a documented function.
LEMMA SigReportStep ==
    DVInv /\ [Next]_vars =>
      [ pc = "catalogue" /\ k <= Len(Catalogue) /\ Entry.id \in DOMAIN items =>
          missingSig' \ missingSig =
            {<<k, fs>> : fs \in {s \in Entry.sigs :
                                   ~\E ds \in items[Entry.id].sigs :
                                       ReferenceMatch(Entry.type, ds, s)}} ]_vars
<1> SUFFICES ASSUME TypeOK, ReportsBefore, [Next]_vars,
                    pc = "catalogue", k <= Len(Catalogue), Entry.id \in DOMAIN items
             PROVE  \/ missingSig' \ missingSig =
                         {<<k, fs>> : fs \in {s \in Entry.sigs :
                                                ~\E ds \in items[Entry.id].sigs :
                                                    ReferenceMatch(Entry.type, ds, s)}}
                    \/ UNCHANGED vars
  BY DEF DVInv
<1>1. CASE UNCHANGED vars
  BY <1>1
\* Under the guard the only step is the signature check of line k.
<1>2. CASE Next /\ ~UNCHANGED vars
  <2>a. ~OpenFile /\ ~ReadLine /\ ~EndFrontMatter /\ ~EndWalk
    BY DEF OpenFile, ReadLine, EndFrontMatter, EndWalk
  <2>b. ~CreateDocItem /\ ~Decline
    BY DEF CreateDocItem, Decline
  <2>d. ~Finish
    <3>1. k \in Nat /\ Len(Catalogue) \in Nat
      BY CatalogueAssumption, LenProperties DEF TypeOK
    <3>2. QED BY <3>1 DEF Finish
  <2>c. ~SkipAlias /\ ~ReportMissing
    BY DEF SkipAlias, ReportMissing
  <2>1. CheckSignatures
    BY <1>2, <2>a, <2>b, <2>c, <2>d DEF Next
  <2>2. k \in 1 .. Len(Catalogue)
    BY DEF TypeOK
  <2>3. Unmatched(Entry, items[Entry.id])
          = {s \in Entry.sigs : ~\E ds \in items[Entry.id].sigs :
                                   ReferenceMatch(Entry.type, ds, s)}
    <3>1. Entry.sigs \subseteq Sig
      BY <2>2, EntryFacts DEF Entry
    <3>2. items[Entry.id].sigs \subseteq Sig
      BY DEF TypeOK, Meta
    <3>3. \A fs \in Entry.sigs : \A ds \in items[Entry.id].sigs :
            SigMatches(Entry.type, ds, fs) <=> ReferenceMatch(Entry.type, ds, fs)
      BY <3>1, <3>2, SigMatchesIsReference
    <3>4. QED BY <3>3 DEF Unmatched
  <2>4. \A fs \in Unmatched(Entry, items[Entry.id]) : <<k, fs>> \notin missingSig
    BY <2>2 DEF ReportsBefore
  <2>5. missingSig' = missingSig \cup {<<k, fs>> : fs \in Unmatched(Entry, items[Entry.id])}
    BY <2>1 DEF CheckSignatures
  <2>6. QED BY <2>3, <2>4, <2>5
<1>3. QED BY <1>1, <1>2

\* Every "Missing signature" verify.py prints for a documented function is
\* a catalogue signature that no documented signature has the same
\* parameter types as (and, except for a table function, the same return
\* type), and every such signature is printed, for every doc tree and
\* catalogue: the length test and the loop over positions at lines 136-145
\* compare the two parameter lists as a whole.
THEOREM SignatureReportsCorrect == Spec => SignatureReportsMatchReference
<1>1. Spec => []DVInv
  BY InitDVInv, DVStep, PTL DEF Spec
<1>2. QED BY <1>1, SigReportStep, PTL DEF Spec, SignatureReportsMatchReference

=============================================================================
