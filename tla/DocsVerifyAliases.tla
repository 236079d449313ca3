-------------------------- MODULE DocsVerifyAliases --------------------------
(***************************************************************************)
(* Proofs that verify.py reports "Duplicate alias" once per well-formed   *)
(* doc file claiming an alias, but the first, and "Missing doc item"      *)
(* exactly for the ids no well-formed doc file documents, for every doc    *)
(* tree: both rest on what the walk has stored from the files parsed.     *)
(***************************************************************************)
EXTENDS DocsVerifyProofs, FiniteSetTheorems

(* The files whose front matter has been decoded or skipped: all those    *)
(* walked, but the one try_parse_frontmatter is still reading.             *)
Parsed == IF pc = "frontmatter" THEN walked \ {cur} ELSE walked

(* The parsed well-formed files that claim alias a.                        *)
ParsedClaimants(a) ==
    {f \in Parsed : FrontMatterOk(f) /\ a \in docs[f].meta.aliases}

(* The files a "Duplicate alias" for a has been printed for.               *)
Reported(a) == {f \in Bases : <<a, f>> \in dupAliases}

(* Inside the front matter: the opening --- was read, buf holds lines 2 to *)
(* pos - 1 of the file, and none of them starts with ---.                  *)
ReadPrefix ==
    pc = "frontmatter" =>
        /\ Line(cur, 1) = "delim"
        /\ buf = SubSeq(docs[cur].lines, 2, pos - 1)
        /\ \A m \in 2 .. pos - 1 : docs[cur].lines[m] # "delim"

(* The alias table holds exactly the aliases a parsed well-formed file     *)
(* claims.                                                                 *)
AliasTable ==
    pc # "crashed" =>
        DOMAIN aliases = {a \in Ids : ParsedClaimants(a) # {}}

(* One report per parsed claimant of an alias, but the first.              *)
DupCount ==
    pc # "crashed" =>
        \A a \in Ids :
            /\ Reported(a) \subseteq ParsedClaimants(a)
            /\ ParsedClaimants(a) # {} =>
                  Cardinality(Reported(a)) + 1 = Cardinality(ParsedClaimants(a))

(* The inductive invariant.                                                *)
AliasInv == DVInv /\ ReadPrefix /\ AliasTable /\ DupCount

(***************************************************************************)
(* Lemmas.                                                                 *)
(***************************************************************************)

\* One more line read: the lines from m to n + 1 are those from m to n and
\* then line n + 1.
LEMMA SubSeqAppend ==
    ASSUME NEW S, NEW s \in Seq(S), NEW m \in Nat \ {0}, NEW n \in Nat,
           m - 1 <= n, n + 1 <= Len(s)
    PROVE  SubSeq(s, m, n + 1) = Append(SubSeq(s, m, n), s[n + 1])
<1>1. /\ SubSeq(s, m, n) \in Seq(S)
      /\ Len(SubSeq(s, m, n)) = n - m + 1
      /\ \A i \in 1 .. n - m + 1 : SubSeq(s, m, n)[i] = s[m + i - 1]
  BY SubSeqProperties
<1>2. /\ SubSeq(s, m, n + 1) \in Seq(S)
      /\ Len(SubSeq(s, m, n + 1)) = n - m + 2
      /\ \A i \in 1 .. n - m + 2 : SubSeq(s, m, n + 1)[i] = s[m + i - 1]
  BY SubSeqProperties
<1>3. s[n + 1] \in S
  BY ElementOfSeq
<1>4. /\ Append(SubSeq(s, m, n), s[n + 1]) \in Seq(S)
      /\ Len(Append(SubSeq(s, m, n), s[n + 1])) = n - m + 2
      /\ \A i \in 1 .. n - m + 1 : Append(SubSeq(s, m, n), s[n + 1])[i] = s[m + i - 1]
      /\ Append(SubSeq(s, m, n), s[n + 1])[n - m + 2] = s[n + 1]
  BY <1>1, <1>3, AppendProperties
<1>5. QED BY <1>2, <1>4, SeqEqual

\* At the closing ---, the front matter is well formed exactly when the
\* lines read decode: the closing --- of FrontMatterOk is the first one
\* after line 1, and that is the line at pos.
LEMMA FrontMatterClosed ==
    ASSUME TypeOK, Reading, ReadPrefix, pc = "frontmatter", Line(cur, pos) = "delim"
    PROVE  FrontMatterOk(cur) <=> JsonOk(buf)
<1> DEFINE lines == docs[cur].lines
<1>1. /\ cur \in Bases
      /\ pos \in 2 .. Len(lines) + 1
      /\ Line(cur, 1) = "delim"
      /\ buf = SubSeq(lines, 2, pos - 1)
      /\ \A m \in 2 .. pos - 1 : lines[m] # "delim"
  BY DEF TypeOK, Reading, ReadPrefix
<1>2. pos <= Len(lines) /\ lines[pos] = "delim"
  BY <1>1, LineFacts
<1>3. ASSUME JsonOk(buf) PROVE FrontMatterOk(cur)
  BY <1>1, <1>2, <1>3 DEF FrontMatterOk
<1>4. ASSUME FrontMatterOk(cur) PROVE JsonOk(buf)
  <2>1. PICK n \in 2 .. Len(lines) :
           /\ lines[n] = "delim"
           /\ JsonOk(SubSeq(lines, 2, n - 1))
           /\ \A m \in 2 .. n - 1 : lines[m] # "delim"
    BY <1>4 DEF FrontMatterOk
  <2>2. ~(n < pos)
    BY <1>1, <2>1
  <2>3. ~(pos < n)
    BY <1>1, <1>2, <2>1
  <2>4. n = pos
    BY <1>1, <2>2, <2>3
  <2>5. QED BY <1>1, <2>1, <2>4
<1>5. QED BY <1>3, <1>4

\* A file whose first line is not --- has no front matter.
LEMMA NoOpening ==
    ASSUME NEW f, Line(f, 1) # "delim"
    PROVE  ~FrontMatterOk(f)
  BY DEF FrontMatterOk

\* The claimants of an alias are a finite set of files.
LEMMA ClaimantsFinite ==
    ASSUME TypeOK, NEW a
    PROVE  /\ IsFiniteSet(ParsedClaimants(a))
           /\ Cardinality(ParsedClaimants(a)) \in Nat
<1>1. ParsedClaimants(a) \subseteq Bases
  BY DEF TypeOK, ParsedClaimants, Parsed
<1>2. QED BY <1>1, BasesAssumption, FS_Subset, FS_CardinalityType

\* A step that moves neither the walk nor the reader in or out of a front
\* matter leaves the claimants of every alias as they were.
LEMMA ClaimantsUnchanged ==
    ASSUME docs' = docs, walked' = walked, cur' = cur,
           pc' = "frontmatter" <=> pc = "frontmatter",
           NEW a
    PROVE  ParsedClaimants(a)' = ParsedClaimants(a)
<1>1. Parsed' = Parsed
  BY DEF Parsed
<1>2. \A f : FrontMatterOk(f)' <=> FrontMatterOk(f)
  BY DEF FrontMatterOk, Line, JsonOk
<1>3. QED BY <1>1, <1>2 DEF ParsedClaimants

\* A step that prints no "Duplicate alias", touches no alias and keeps the
\* claimants keeps the alias table and the report count.
LEMMA AliasesUnchanged ==
    ASSUME AliasTable, DupCount,
           UNCHANGED <<docs, walked, cur, aliases, dupAliases>>,
           pc' = "frontmatter" <=> pc = "frontmatter",
           pc' # "crashed" => pc # "crashed"
    PROVE  AliasTable' /\ DupCount'
<1>1. \A a : ParsedClaimants(a)' = ParsedClaimants(a)
  BY ClaimantsUnchanged
<1>2. \A a : Reported(a)' = Reported(a)
  BY DEF Reported
<1>3. QED BY <1>1, <1>2 DEF AliasTable, DupCount

\* The step of the inductive invariant, one case per action of verify.py.
LEMMA AliasStep == AliasInv /\ [Next]_vars => (ReadPrefix /\ AliasTable /\ DupCount)'
<1> SUFFICES ASSUME DVInv, ReadPrefix, AliasTable, DupCount, [Next]_vars
             PROVE  ReadPrefix' /\ AliasTable' /\ DupCount'
  BY DEF AliasInv
<1> USE DEF DVInv
<1>1. ASSUME UNCHANGED <<docs, walked, cur, aliases, dupAliases>>,
             pc \in {"walk", "catalogue", "prompt"},
             pc' \in {"catalogue", "prompt", "done"}
      PROVE  ReadPrefix' /\ AliasTable' /\ DupCount'
  BY <1>1, AliasesUnchanged DEF ReadPrefix
<1>2. CASE OpenFile
  <2>1. PICK f \in Bases \ walked :
           /\ walked' = walked \cup {f}
           /\ cur' = f
           /\ IF Line(f, 1) = "delim"
                 THEN pc' = "frontmatter" /\ pos' = 2 /\ buf' = <<>>
                 ELSE UNCHANGED <<pc, pos, buf>>
    BY <1>2 DEF OpenFile
  <2>2. pc = "walk" /\ UNCHANGED <<docs, aliases, dupAliases>>
    BY <1>2 DEF OpenFile
  <2>3. \A a : Reported(a)' = Reported(a)
    BY <2>2 DEF Reported
  <2>4. CASE Line(f, 1) = "delim"
    <3>1. pc' = "frontmatter" /\ pos' = 2 /\ buf' = <<>>
      BY <2>1, <2>4
    <3>2. Parsed' = Parsed
      BY <2>1, <2>2, <3>1 DEF Parsed
    <3>3. \A a : ParsedClaimants(a)' = ParsedClaimants(a)
      <4>1. \A g : FrontMatterOk(g)' <=> FrontMatterOk(g)
        BY <2>2 DEF FrontMatterOk, Line, JsonOk
      <4>2. QED BY <2>2, <3>2, <4>1 DEF ParsedClaimants
    <3>4. SubSeq(docs[f].lines, 2, 1) = <<>>
      BY SubSeqEmpty
    <3>5. ReadPrefix'
      BY <2>1, <2>2, <2>4, <3>1, <3>4 DEF ReadPrefix, Line
    <3>6. QED BY <2>2, <2>3, <3>1, <3>3, <3>5 DEF AliasTable, DupCount
  <2>5. CASE Line(f, 1) # "delim"
    <3>1. pc' = "walk"
      BY <2>1, <2>2, <2>5
    <3>2. Parsed' = Parsed \cup {f}
      BY <2>1, <2>2, <3>1 DEF Parsed
    <3>3. ~FrontMatterOk(f)
      BY <2>5, NoOpening
    <3>4. \A a : ParsedClaimants(a)' = ParsedClaimants(a)
      <4>1. \A g : FrontMatterOk(g)' <=> FrontMatterOk(g)
        BY <2>2 DEF FrontMatterOk, Line, JsonOk
      <4>2. QED BY <2>2, <3>2, <3>3, <4>1 DEF ParsedClaimants
    <3>5. QED BY <2>2, <2>3, <3>1, <3>4 DEF ReadPrefix, AliasTable, DupCount
  <2>6. QED BY <2>4, <2>5
<1>3. CASE ReadLine
  <2> DEFINE lines == docs[cur].lines
  <2>1. /\ pc = "frontmatter" /\ Line(cur, pos) # "delim"
        /\ UNCHANGED <<docs, pc, walked, cur, aliases, dupAliases>>
    BY <1>3 DEF ReadLine
  <2>2. AliasTable' /\ DupCount'
    BY <2>1, AliasesUnchanged
  <2>3. /\ cur \in Bases /\ lines \in Seq(LineKinds)
        /\ pos \in 2 .. Len(lines) + 1
        /\ Line(cur, 1) = "delim"
        /\ buf = SubSeq(lines, 2, pos - 1)
        /\ \A m \in 2 .. pos - 1 : lines[m] # "delim"
    BY <2>1, DocFacts DEF TypeOK, Reading, ReadPrefix
  <2>4. CASE pos <= Len(lines)
    <3>1. buf' = Append(buf, lines[pos]) /\ pos' = pos + 1
      BY <1>3, <2>3, <2>4 DEF ReadLine, Line
    <3>2. lines[pos] # "delim"
      BY <2>1, <2>4 DEF Line
    <3>3. SubSeq(lines, 2, pos) = Append(SubSeq(lines, 2, pos - 1), lines[pos])
      BY <2>3, <2>4, SubSeqAppend
    <3>4. \A m \in 2 .. pos : lines[m] # "delim"
      BY <2>3, <3>2
    <3>5. /\ Line(cur, 1)' = "delim"
          /\ buf' = SubSeq(lines, 2, pos' - 1)
          /\ \A m \in 2 .. pos' - 1 : lines[m] # "delim"
      BY <2>1, <2>3, <3>1, <3>3, <3>4 DEF Line
    <3>6. QED BY <2>1, <2>2, <3>5 DEF ReadPrefix
  <2>5. CASE ~(pos <= Len(lines))
    <3>1. UNCHANGED <<buf, pos>>
      BY <1>3, <2>5 DEF ReadLine
    <3>2. QED BY <2>1, <2>2, <3>1 DEF ReadPrefix, Line
  <2>6. QED BY <2>2, <2>4, <2>5
<1>4. CASE EndFrontMatter
  <2> DEFINE meta == docs[cur].meta
  <2>1. /\ pc = "frontmatter" /\ Line(cur, pos) = "delim"
        /\ UNCHANGED <<docs, walked, cur>>
    BY <1>4 DEF EndFrontMatter
  <2>2. /\ cur \in walked /\ cur \in Bases
        /\ meta.aliases \subseteq Ids
    BY <2>1, DocFacts DEF TypeOK, Reading, Meta
  <2>3. pc' \in {"walk", "crashed"}
    BY <1>4 DEF EndFrontMatter
  <2>4. ReadPrefix'
    BY <2>3 DEF ReadPrefix
  <2>5. Parsed' = Parsed \cup {cur} /\ cur \notin Parsed
    BY <2>1, <2>2, <2>3 DEF Parsed
  <2>6. \A g : FrontMatterOk(g)' <=> FrontMatterOk(g)
    BY <2>1 DEF FrontMatterOk, Line, JsonOk
  <2>7. CASE ~JsonOk(buf)
    <3>1. pc' = "walk" /\ UNCHANGED <<aliases, dupAliases>>
      BY <1>4, <2>7 DEF EndFrontMatter
    <3>2. ~FrontMatterOk(cur)
      BY <2>1, <2>7, FrontMatterClosed DEF DVInv
    <3>3. \A a : ParsedClaimants(a)' = ParsedClaimants(a)
      BY <2>1, <2>5, <2>6, <3>2 DEF ParsedClaimants
    <3>4. \A a : Reported(a)' = Reported(a)
      BY <3>1 DEF Reported
    <3>5. QED BY <2>1, <2>4, <3>1, <3>3, <3>4 DEF AliasTable, DupCount
  <2>8. CASE JsonOk(buf) /\ meta.aliases # {} /\ meta.id = NoId
    <3>1. pc' = "crashed"
      BY <1>4, <2>8 DEF EndFrontMatter
    <3>2. QED BY <2>4, <3>1 DEF AliasTable, DupCount
  <2>9. CASE JsonOk(buf) /\ ~(meta.aliases # {} /\ meta.id = NoId)
    <3>1. /\ pc' = "walk"
          /\ dupAliases' = dupAliases \cup
                {<<d, cur>> : d \in AliasReports(meta.aliases, aliases)}
          /\ DOMAIN aliases' = DOMAIN aliases \cup meta.aliases
      BY <1>4, <2>9 DEF EndFrontMatter
    <3>2. FrontMatterOk(cur)
      BY <2>1, <2>9, FrontMatterClosed DEF DVInv
    <3>3. \A a : ParsedClaimants(a)' =
                   IF a \in meta.aliases THEN ParsedClaimants(a) \cup {cur}
                                         ELSE ParsedClaimants(a)
      BY <2>1, <2>5, <2>6, <3>2 DEF ParsedClaimants
    <3>4. \A a : Reported(a)' =
                   IF a \in meta.aliases /\ a \in DOMAIN aliases
                      THEN Reported(a) \cup {cur} ELSE Reported(a)
      BY <2>1, <2>2, <3>1 DEF Reported, AliasReports
    <3>5. \A a : cur \notin ParsedClaimants(a)
      BY <2>5 DEF ParsedClaimants
    <3>6. AliasTable'
      BY <2>1, <2>2, <3>1, <3>3 DEF AliasTable
    <3>7. DupCount'
      <4> SUFFICES ASSUME NEW a \in Ids
                   PROVE  /\ Reported(a)' \subseteq ParsedClaimants(a)'
                          /\ ParsedClaimants(a)' # {} =>
                               Cardinality(Reported(a)') + 1
                                 = Cardinality(ParsedClaimants(a)')
        BY DEF DupCount
      <4>1. /\ Reported(a) \subseteq ParsedClaimants(a)
            /\ ParsedClaimants(a) # {} =>
                 Cardinality(Reported(a)) + 1 = Cardinality(ParsedClaimants(a))
        BY <2>1 DEF DupCount
      <4>2. /\ IsFiniteSet(ParsedClaimants(a))
            /\ Cardinality(ParsedClaimants(a)) \in Nat
            /\ IsFiniteSet(Reported(a))
            /\ Cardinality(Reported(a)) \in Nat
        BY <4>1, ClaimantsFinite, FS_Subset, FS_CardinalityType
      <4>3. CASE a \notin meta.aliases
        BY <3>3, <3>4, <4>1, <4>3
      <4>4. CASE a \in meta.aliases /\ ParsedClaimants(a) = {}
        <5>1. a \notin DOMAIN aliases
          BY <2>1, <4>4 DEF AliasTable
        <5>2. Reported(a)' = {} /\ ParsedClaimants(a)' = {cur}
          BY <3>3, <3>4, <4>1, <4>4, <5>1
        <5>3. Cardinality({}) = 0 /\ Cardinality({cur}) = 1
          BY FS_EmptySet, FS_Singleton
        <5>4. QED BY <5>2, <5>3
      <4>5. CASE a \in meta.aliases /\ ParsedClaimants(a) # {}
        <5>1. a \in DOMAIN aliases
          BY <2>1, <2>2, <4>5 DEF AliasTable
        <5>2. /\ Reported(a)' = Reported(a) \cup {cur}
              /\ ParsedClaimants(a)' = ParsedClaimants(a) \cup {cur}
              /\ cur \notin Reported(a) /\ cur \notin ParsedClaimants(a)
          BY <3>3, <3>4, <3>5, <4>1, <4>5, <5>1
        <5>3. /\ Cardinality(Reported(a)') = Cardinality(Reported(a)) + 1
              /\ Cardinality(ParsedClaimants(a)') = Cardinality(ParsedClaimants(a)) + 1
          BY <4>2, <5>2, FS_AddElement
        <5>4. QED BY <4>1, <4>2, <4>5, <5>2, <5>3
      <4>6. QED BY <4>3, <4>4, <4>5
    <3>8. QED BY <2>4, <3>6, <3>7
  <2>10. QED BY <2>7, <2>8, <2>9
<1>5. CASE EndWalk
  BY <1>1, <1>5 DEF EndWalk
<1>6. CASE CheckSignatures
  BY <1>1, <1>6 DEF CheckSignatures
<1>7. CASE SkipAlias
  BY <1>1, <1>7 DEF SkipAlias
<1>8. CASE ReportMissing
  BY <1>1, <1>8 DEF ReportMissing
<1>9. CASE CreateDocItem
  BY <1>1, <1>9 DEF CreateDocItem
<1>10. CASE Decline
  BY <1>1, <1>10 DEF Decline
<1>11. CASE Finish
  BY <1>1, <1>11 DEF Finish
<1>12. CASE UNCHANGED vars
  <2>1. AliasTable' /\ DupCount'
    BY <1>12, AliasesUnchanged DEF vars
  <2>2. ReadPrefix'
    BY <1>12 DEF vars, ReadPrefix, Line
  <2>3. QED BY <2>1, <2>2
<1>13. QED BY <1>2, <1>3, <1>4, <1>5, <1>6, <1>7, <1>8, <1>9, <1>10, <1>11, <1>12 DEF Next

LEMMA InitAliasInv == Init => AliasInv
<1> SUFFICES ASSUME Init PROVE AliasInv
  OBVIOUS
<1>1. DVInv
  BY InitDVInv
<1>2. Parsed = {} /\ pc = "walk"
  BY DEF Init, Parsed
<1>3. \A a : ParsedClaimants(a) = {} /\ Reported(a) = {}
  BY <1>2 DEF Init, ParsedClaimants, Reported
<1>4. QED BY <1>1, <1>2, <1>3 DEF Init, AliasInv, ReadPrefix, AliasTable, DupCount

\* Once the walk is between files, every claimant has been parsed.
LEMMA AliasInvImpliesReported == AliasInv => DuplicateAliasesReported
<1> SUFFICES ASSUME AliasInv, pc \in {"walk", "catalogue", "prompt", "done"},
                    NEW a \in Ids
             PROVE  Cardinality({f \in Bases : <<a, f>> \in dupAliases})
                      = IF Claimants(a) = {} THEN 0 ELSE Cardinality(Claimants(a)) - 1
  BY DEF DuplicateAliasesReported
<1>1. ParsedClaimants(a) = Claimants(a) /\ Reported(a) = {f \in Bases : <<a, f>> \in dupAliases}
  BY DEF Parsed, ParsedClaimants, Claimants, Reported
<1>2. /\ Reported(a) \subseteq ParsedClaimants(a)
      /\ ParsedClaimants(a) # {} =>
           Cardinality(Reported(a)) + 1 = Cardinality(ParsedClaimants(a))
  BY DEF AliasInv, DupCount
<1>3. /\ Cardinality(ParsedClaimants(a)) \in Nat
      /\ Cardinality(Reported(a)) \in Nat
  BY <1>2, ClaimantsFinite, FS_Subset, FS_CardinalityType, BasesAssumption DEF AliasInv, DVInv
<1>4. CASE Claimants(a) = {}
  <2>1. Reported(a) = {}
    BY <1>1, <1>2, <1>4
  <2>2. QED BY <1>1, <1>4, <2>1, FS_EmptySet
<1>5. CASE Claimants(a) # {}
  BY <1>1, <1>2, <1>3, <1>5
<1>6. QED BY <1>4, <1>5

\* verify.py prints "Duplicate alias" once for every well-formed doc file
\* claiming an alias, but the first, whatever the order os.walk yields the
\* files in and whichever files are malformed: the test at line 52 is made
\* against the aliases of the files parsed before, and a file is counted
\* exactly when try_parse_frontmatter decodes it.
THEOREM DuplicateAliasesCounted == Spec => []DuplicateAliasesReported
<1>1. Spec => []AliasInv
  <2>1. AliasInv /\ [Next]_vars => AliasInv'
    BY AliasStep, DVStep DEF AliasInv
  <2>2. QED BY InitAliasInv, <2>1, PTL DEF Spec
<1>2. QED BY <1>1, AliasInvImpliesReported, PTL

-----------------------------------------------------------------------------
(***************************************************************************)
(* The "Missing doc item" reports of the catalogue loop.  The loop looks   *)
(* an id up in the item table and in the alias table that the walk built. *)
(* The walk stores under its base name exactly the well-formed files, and  *)
(* the alias table holds the aliases they claim (AliasTable); the prompt   *)
(* adds the items created.  So a report is made exactly for an id no      *)
(* well-formed file is named after or claims.                              *)
(***************************************************************************)

(* The parsed files whose front matter decoded.                            *)
ParsedOk == {f \in Parsed : FrontMatterOk(f)}

(* What each phase of main() has done: nothing of the catalogue loop      *)
(* during the walk, the whole walk before the loop, and line k reported    *)
(* while its prompt is open.                                               *)
Phases ==
    /\ pc \in {"walk", "frontmatter"} => k = 1 /\ written = {} /\ missingDoc = {}
    /\ pc \in {"catalogue", "prompt", "done"} => walked = Bases
    /\ pc \in {"catalogue", "done"} => missingDoc \subseteq 1 .. k - 1
    /\ pc = "prompt" => k \in missingDoc /\ missingDoc \subseteq 1 .. k

(* The item table holds the well-formed files parsed and the items created. *)
ItemTable ==
    pc # "crashed" => DOMAIN items = ParsedOk \cup written

(* The inductive invariant of the reports.                                 *)
ReportInv == AliasInv /\ Phases /\ ItemTable /\ MissingDocMatchesFiles

\* A step that moves neither the walk nor the reader in or out of a front
\* matter leaves the well-formed parsed files, and what a file documents,
\* as they were.
LEMMA ParsedOkUnchanged ==
    ASSUME docs' = docs, walked' = walked, cur' = cur,
           pc' = "frontmatter" <=> pc = "frontmatter"
    PROVE  /\ ParsedOk' = ParsedOk
           /\ \A id : HasDocFile(id)' <=> HasDocFile(id)
<1>1. Parsed' = Parsed
  BY DEF Parsed
<1>2. \A f : FrontMatterOk(f)' <=> FrontMatterOk(f)
  BY DEF FrontMatterOk, Line, JsonOk
<1>3. QED BY <1>1, <1>2 DEF ParsedOk, HasDocFile

\* In the catalogue loop, the two lookups of lines 73-75 fail exactly for
\* an id that no well-formed file is named after or claims as an alias,
\* and that was not created at an earlier prompt.
LEMMA LookupMeansFile ==
    ASSUME ReportInv, pc = "catalogue", NEW id \in Ids
    PROVE  /\ id \in DOMAIN items => HasDocFile(id) \/ id \in written
           /\ id \in DOMAIN aliases => HasDocFile(id)
           /\ id \notin DOMAIN items /\ id \notin DOMAIN aliases => ~HasDocFile(id)
<1>1. Parsed = Bases
  BY DEF ReportInv, Phases, Parsed
<1>2. DOMAIN items = {f \in Bases : FrontMatterOk(f)} \cup written
  BY <1>1 DEF ReportInv, ItemTable, ParsedOk
<1>3. DOMAIN aliases = {a \in Ids : ParsedClaimants(a) # {}}
  BY DEF ReportInv, AliasInv, AliasTable
<1>4. ParsedClaimants(id) = {f \in Bases : FrontMatterOk(f) /\ id \in docs[f].meta.aliases}
  BY <1>1 DEF ParsedClaimants
<1>5. QED BY <1>2, <1>3, <1>4 DEF HasDocFile

\* The step of the inductive invariant of the reports.
LEMMA ReportStep ==
    ReportInv /\ [Next]_vars => (Phases /\ ItemTable /\ MissingDocMatchesFiles)'
<1> SUFFICES ASSUME ReportInv, [Next]_vars
             PROVE  Phases' /\ ItemTable' /\ MissingDocMatchesFiles'
  OBVIOUS
<1>0. /\ TypeOK /\ Reading /\ ReadPrefix
      /\ Phases /\ ItemTable /\ MissingDocMatchesFiles
      /\ k \in 1 .. Len(Catalogue) + 1 /\ Len(Catalogue) \in Nat
  BY CatalogueAssumption, LenProperties DEF ReportInv, AliasInv, DVInv, TypeOK
\* The steps of the walk: phase 2 has not started and does not start.
<1>1. ASSUME pc \in {"walk", "frontmatter"}, pc' \in {"walk", "frontmatter", "crashed"},
             UNCHANGED <<k, written, missingDoc>>, ItemTable'
      PROVE  Phases' /\ ItemTable' /\ MissingDocMatchesFiles'
  BY <1>0, <1>1 DEF Phases, MissingDocMatchesFiles
<1>2. CASE OpenFile
  <2>1. PICK f \in Bases \ walked :
           /\ walked' = walked \cup {f}
           /\ cur' = f
           /\ IF Line(f, 1) = "delim"
                 THEN pc' = "frontmatter" /\ pos' = 2 /\ buf' = <<>>
                 ELSE UNCHANGED <<pc, pos, buf>>
    BY <1>2 DEF OpenFile
  <2>2. pc = "walk" /\ UNCHANGED <<docs, items, k, written, missingDoc>>
    BY <1>2 DEF OpenFile
  <2>3. \A g : FrontMatterOk(g)' <=> FrontMatterOk(g)
    BY <2>2 DEF FrontMatterOk, Line, JsonOk
  <2>4. ParsedOk' = ParsedOk
    <3>1. CASE Line(f, 1) = "delim"
      <4>1. pc' = "frontmatter" /\ Parsed' = Parsed
        BY <2>1, <2>2, <3>1 DEF Parsed
      <4>2. QED BY <2>3, <4>1 DEF ParsedOk
    <3>2. CASE Line(f, 1) # "delim"
      <4>1. pc' = "walk" /\ Parsed' = Parsed \cup {f}
        BY <2>1, <2>2, <3>2 DEF Parsed
      <4>2. ~FrontMatterOk(f)
        BY <3>2, NoOpening
      <4>3. QED BY <2>3, <4>1, <4>2 DEF ParsedOk
    <3>3. QED BY <3>1, <3>2
  <2>5. pc' \in {"walk", "frontmatter"}
    BY <2>1, <2>2
  <2>6. ItemTable'
    BY <1>0, <2>2, <2>4, <2>5 DEF ItemTable
  <2>7. QED BY <1>1, <2>2, <2>5, <2>6
<1>3. CASE ReadLine
  <2>1. /\ pc = "frontmatter"
        /\ UNCHANGED <<docs, pc, walked, cur, items, k, written, missingDoc>>
    BY <1>3 DEF ReadLine
  <2>2. ParsedOk' = ParsedOk
    BY <2>1, ParsedOkUnchanged
  <2>3. ItemTable'
    BY <1>0, <2>1, <2>2 DEF ItemTable
  <2>4. QED BY <1>1, <2>1, <2>3
<1>4. CASE EndFrontMatter
  <2> DEFINE meta == docs[cur].meta
  <2>1. /\ pc = "frontmatter" /\ Line(cur, pos) = "delim"
        /\ UNCHANGED <<docs, walked, cur, k, written, missingDoc>>
    BY <1>4 DEF EndFrontMatter
  <2>2. cur \in walked /\ pc' \in {"walk", "crashed"}
    BY <1>0, <1>4, <2>1 DEF TypeOK, Reading, EndFrontMatter
  <2>3. Parsed' = Parsed \cup {cur} /\ written = {}
    BY <1>0, <2>1, <2>2 DEF Parsed, Phases
  <2>4. \A g : FrontMatterOk(g)' <=> FrontMatterOk(g)
    BY <2>1 DEF FrontMatterOk, Line, JsonOk
  <2>5. CASE ~JsonOk(buf)
    <3>1. pc' = "walk" /\ UNCHANGED items
      BY <1>4, <2>5 DEF EndFrontMatter
    <3>2. ~FrontMatterOk(cur)
      BY <1>0, <2>1, <2>5, FrontMatterClosed
    <3>3. ParsedOk' = ParsedOk
      BY <2>3, <2>4, <3>2 DEF ParsedOk
    <3>4. ItemTable'
      BY <1>0, <2>1, <3>1, <3>3 DEF ItemTable
    <3>5. QED BY <1>1, <2>1, <3>1, <3>4
  <2>6. CASE JsonOk(buf)
    <3>1. items' = Put(items, cur, meta)
      BY <1>4, <2>6 DEF EndFrontMatter
    <3>2. DOMAIN items' = DOMAIN items \cup {cur}
      BY <3>1 DEF Put
    <3>3. FrontMatterOk(cur)
      BY <1>0, <2>1, <2>6, FrontMatterClosed
    <3>4. ParsedOk' = ParsedOk \cup {cur}
      BY <2>3, <2>4, <3>3 DEF ParsedOk
    <3>5. pc' = "walk" => DOMAIN items = ParsedOk \cup written
      BY <1>0, <2>1 DEF ItemTable
    <3>6. ItemTable'
      BY <2>1, <2>2, <3>2, <3>4, <3>5 DEF ItemTable
    <3>7. QED BY <1>1, <2>1, <2>2, <3>6
  <2>7. QED BY <2>5, <2>6
\* The steps of phase 2 change nothing the walk built but the items.
<1>5. ASSUME pc \in {"walk", "catalogue", "prompt"}, pc' \in {"catalogue", "prompt", "done"},
             UNCHANGED <<docs, walked, cur, aliases>>
      PROVE  /\ ParsedOk' = ParsedOk
             /\ \A id : HasDocFile(id)' <=> HasDocFile(id)
             /\ DOMAIN aliases' = DOMAIN aliases
  BY <1>5, ParsedOkUnchanged
<1>6. CASE EndWalk
  <2>1. /\ pc = "walk" /\ walked = Bases /\ pc' = "catalogue"
        /\ UNCHANGED <<docs, walked, cur, items, aliases, k, written, missingDoc>>
    BY <1>6 DEF EndWalk
  <2>2. k = 1 /\ written = {} /\ missingDoc = {}
    BY <1>0, <2>1 DEF Phases
  <2>3. Phases'
    BY <2>1, <2>2 DEF Phases
  <2>4. ItemTable'
    BY <1>0, <1>5, <2>1 DEF ItemTable
  <2>5. MissingDocMatchesFiles'
    BY <2>1, <2>2 DEF MissingDocMatchesFiles
  <2>6. QED BY <2>3, <2>4, <2>5
<1>7. CASE CheckSignatures \/ SkipAlias
  <2>1. /\ pc = "catalogue" /\ k <= Len(Catalogue) /\ k' = k + 1
        /\ UNCHANGED <<docs, pc, walked, cur, items, aliases, written, missingDoc>>
    BY <1>7 DEF CheckSignatures, SkipAlias
  <2>2. Entry.id \in Ids
    BY <1>0, <2>1, EntryFacts DEF Entry
  <2>3. HasDocFile(Entry.id) \/ Entry.id \in written
    <3>1. Entry.id \in DOMAIN items \/ Entry.id \in DOMAIN aliases
      BY <1>7 DEF CheckSignatures, SkipAlias
    <3>2. QED BY <2>1, <2>2, <3>1, LookupMeansFile
  <2>4. /\ ParsedOk' = ParsedOk
        /\ \A id : HasDocFile(id)' <=> HasDocFile(id)
    BY <1>5, <2>1
  <2>5. missingDoc \subseteq 1 .. k - 1 /\ walked = Bases
    BY <1>0, <2>1 DEF Phases
  <2>6. Phases'
    BY <1>0, <2>1, <2>5 DEF Phases
  <2>7. ItemTable'
    BY <1>0, <2>1, <2>4 DEF ItemTable
  <2>8. MissingDocMatchesFiles'
    <3> SUFFICES ASSUME NEW n \in 1 .. Len(Catalogue)
                 PROVE  /\ n \in missingDoc => n <= k' /\ ~HasDocFile(Catalogue[n].id)
                        /\ n < k' /\ n \notin missingDoc =>
                             HasDocFile(Catalogue[n].id) \/ Catalogue[n].id \in written
      BY <2>1, <2>4 DEF MissingDocMatchesFiles
    <3>1. CASE n = k
      BY <1>0, <2>1, <2>3, <2>5, <3>1 DEF Entry
    <3>2. CASE n # k
      BY <1>0, <2>1, <3>2 DEF MissingDocMatchesFiles
    <3>3. QED BY <3>1, <3>2
  <2>9. QED BY <2>6, <2>7, <2>8
<1>8. CASE ReportMissing
  <2>1. /\ pc = "catalogue" /\ k <= Len(Catalogue) /\ pc' = "prompt"
        /\ Entry.id \notin DOMAIN items /\ Entry.id \notin DOMAIN aliases
        /\ missingDoc' = missingDoc \cup {k}
        /\ UNCHANGED <<docs, walked, cur, items, aliases, k, written>>
    BY <1>8 DEF ReportMissing
  <2>2. Entry.id \in Ids
    BY <1>0, <2>1, EntryFacts DEF Entry
  <2>3. ~HasDocFile(Entry.id)
    BY <2>1, <2>2, LookupMeansFile
  <2>4. /\ ParsedOk' = ParsedOk
        /\ \A id : HasDocFile(id)' <=> HasDocFile(id)
    BY <1>5, <2>1
  <2>5. missingDoc \subseteq 1 .. k - 1 /\ walked = Bases
    BY <1>0, <2>1 DEF Phases
  <2>6. Phases'
    BY <1>0, <2>1, <2>5 DEF Phases
  <2>7. ItemTable'
    BY <1>0, <2>1, <2>4 DEF ItemTable
  <2>8. MissingDocMatchesFiles'
    <3> SUFFICES ASSUME NEW n \in 1 .. Len(Catalogue)
                 PROVE  /\ n \in missingDoc' => n <= k /\ ~HasDocFile(Catalogue[n].id)
                        /\ n < k /\ n \notin missingDoc' =>
                             HasDocFile(Catalogue[n].id) \/ Catalogue[n].id \in written
      BY <2>1, <2>4 DEF MissingDocMatchesFiles
    <3>1. CASE n = k
      BY <2>1, <2>3, <3>1 DEF Entry
    <3>2. CASE n # k
      BY <1>0, <2>1, <3>2 DEF MissingDocMatchesFiles
    <3>3. QED BY <3>1, <3>2
  <2>9. QED BY <2>6, <2>7, <2>8
<1>9. CASE CreateDocItem \/ Decline
  <2>1. /\ pc = "prompt" /\ pc' = "catalogue" /\ k' = k + 1
        /\ UNCHANGED <<docs, walked, cur, aliases, missingDoc>>
        /\ written \subseteq written'
        /\ \/ UNCHANGED <<items, written>>
           \/ \E x : DOMAIN items' = DOMAIN items \cup {x} /\ written' = written \cup {x}
    <3>1. CASE CreateDocItem
      BY <3>1 DEF CreateDocItem, Put
    <3>2. CASE Decline
      BY <3>2 DEF Decline
    <3>3. QED BY <1>9, <3>1, <3>2
  <2>2. /\ ParsedOk' = ParsedOk
        /\ \A id : HasDocFile(id)' <=> HasDocFile(id)
    BY <1>5, <2>1
  <2>3. k \in missingDoc /\ missingDoc \subseteq 1 .. k /\ walked = Bases
    BY <1>0, <2>1 DEF Phases
  <2>4. Phases'
    BY <1>0, <2>1, <2>3 DEF Phases
  <2>5. ItemTable'
    BY <1>0, <2>1, <2>2 DEF ItemTable
  <2>6. MissingDocMatchesFiles'
    <3> SUFFICES ASSUME NEW n \in 1 .. Len(Catalogue)
                 PROVE  /\ n \in missingDoc => n <= k' /\ ~HasDocFile(Catalogue[n].id)
                        /\ n < k' /\ n \notin missingDoc =>
                             HasDocFile(Catalogue[n].id) \/ Catalogue[n].id \in written'
      BY <2>1, <2>2 DEF MissingDocMatchesFiles
    <3>1. /\ n \in missingDoc => n <= k /\ ~HasDocFile(Catalogue[n].id)
          /\ n < k /\ n \notin missingDoc =>
               HasDocFile(Catalogue[n].id) \/ Catalogue[n].id \in written
      BY <1>0, <2>1 DEF MissingDocMatchesFiles
    <3>2. QED BY <1>0, <2>1, <2>3, <3>1
  <2>7. QED BY <2>4, <2>5, <2>6
<1>10. CASE Finish
  <2>1. /\ pc = "catalogue" /\ pc' = "done"
        /\ UNCHANGED <<docs, walked, cur, items, aliases, k, written, missingDoc>>
    BY <1>10 DEF Finish
  <2>2. /\ ParsedOk' = ParsedOk
        /\ \A id : HasDocFile(id)' <=> HasDocFile(id)
    BY <1>5, <2>1
  <2>3. QED BY <1>0, <2>1, <2>2 DEF Phases, ItemTable, MissingDocMatchesFiles
<1>11. CASE UNCHANGED vars
  <2>1. UNCHANGED <<docs, pc, walked, cur, items, k, written, missingDoc>>
    BY <1>11 DEF vars
  <2>2. /\ ParsedOk' = ParsedOk
        /\ \A id : HasDocFile(id)' <=> HasDocFile(id)
    BY <2>1, ParsedOkUnchanged
  <2>3. QED BY <1>0, <2>1, <2>2 DEF Phases, ItemTable, MissingDocMatchesFiles
<1>12. QED BY <1>2, <1>3, <1>4, <1>6, <1>7, <1>8, <1>9, <1>10, <1>11 DEF Next

LEMMA InitReportInv == Init => ReportInv
<1> SUFFICES ASSUME Init PROVE ReportInv
  OBVIOUS
<1>1. AliasInv
  BY InitAliasInv
<1>2. Parsed = {} /\ pc = "walk"
  BY DEF Init, Parsed
<1>3. QED BY <1>1, <1>2 DEF Init, ReportInv, Phases, ItemTable, ParsedOk,
                            MissingDocMatchesFiles

\* verify.py prints "Missing doc item" for a catalogue line exactly when no
\* well-formed doc file is named after its id or claims it as an alias
\* (apart from items created at an earlier prompt), for every doc tree,
\* every catalogue and every os.walk order: the lookups of lines 73-75 see
\* exactly what the walk of lines 39-56 stored from the files.
THEOREM MissingDocReportsExact == Spec => []MissingDocMatchesFiles
<1>1. ReportInv /\ [Next]_vars => ReportInv'
  BY AliasStep, DVStep, ReportStep DEF ReportInv, AliasInv
<1>2. QED BY InitReportInv, <1>1, PTL DEF Spec, ReportInv
=============================================================================
