-------------------------- MODULE DocsGenerateProofs --------------------------
(***************************************************************************)
(* Proofs about generate.py for every doc tree.                            *)
(*                                                                         *)
(* LastFileWins and IndexComplete speak only of the end of main(), so they *)
(* are not inductive.  What makes them hold is what main() has done at     *)
(* every point of its loop over the sorted items: items.sort() has put the *)
(* paths in the order 1..NumFiles, each dictionary entry comes from the    *)
(* largest path stored so far with that type and id, and every tag of an  *)
(* item whose tag loop is over lists the item's id.                        *)
(***************************************************************************)
EXTENDS DocsGenerate, FiniteSetTheorems, SequenceTheorems, TLAPS

(* The sorted list of all paths.                                           *)
SortedFiles == [j \in 1..NumFiles |-> j]

(* The paths whose item has been stored in its dictionary.                 *)
Stored == IF pc = "tags" THEN 1..n ELSE 1..n - 1

(* The tag tag lists the id id.                                            *)
Recorded(tag, id) == tag \in DOMAIN tagged /\ id \in Elems(tagged[tag])

(* The walk is sorted and the loop stands inside it.                       *)
Walked ==
    /\ DOMAIN funcs = DocTypes
    /\ pc = "walk" => items = <<>> /\ n = 1
    /\ pc # "walk" => items = SortedFiles
    /\ pc \in {"frontmatter", "tags"} => n <= NumFiles
    /\ pc = "frontmatter" => pos \in 2..Len(docs[n].lines) + 1

(* Each dictionary entry is the largest stored path with its type and id.  *)
LastSoFar ==
    /\ \A f \in Stored :
          LET m == docs[f].meta IN
          /\ m.type \in DocTypes
          /\ m.id \in DOMAIN funcs[m.type]
          /\ f <= funcs[m.type][m.id]
    /\ \A t \in DocTypes : \A id \in DOMAIN funcs[t] :
          funcs[t][id] \in Stored /\ docs[funcs[t][id]].meta.id = id

(* Every tag of an item whose tag loop is over, and every tag the current *)
(* loop has passed, lists the item's id.                                   *)
TagsRecorded ==
    /\ \A f \in 1..n - 1 : \A tag \in Elems(docs[f].meta.tags) :
          Recorded(tag, docs[f].meta.id)
    /\ pc = "tags" => \A i \in 1..ti - 1 : Recorded(Data.tags[i], Data.id)

(* docs.md is written from the dictionaries and the tag lists.             *)
WrittenOut ==
    pc = "done" =>
        /\ n = NumFiles + 1
        /\ sections = funcs
        /\ index = [t \in DOMAIN tagged |-> IndexEntries(tagged[t], funcs)]

(* The inductive invariant.                                                *)
GInv == TypeOK /\ Walked /\ LastSoFar /\ TagsRecorded /\ WrittenOut

(* While the front matter is read, line 1 of the item was --- and buf     *)
(* holds lines 2..pos-1, none of them ---: the loop of lines 56-58 stops   *)
(* at the first closing ---.                                               *)
ReadPrefix ==
    pc = "frontmatter" =>
        /\ Line(n, 1) = "delim"
        /\ Len(buf) = pos - 2
        /\ \A j \in 1..pos - 2 :
              buf[j] = docs[n].lines[j + 1] /\ docs[n].lines[j + 1] # "delim"

(* The invariant the file-at-a-time refinement rests on.                   *)
FInv == GInv /\ ReadPrefix

(***************************************************************************)
(* Lemmas on the operators and the constants.                              *)
(***************************************************************************)

\* os.walk lists every path once, so whatever its order, items.sort()
\* yields the paths in name order.
LEMMA SortWalk ==
    ASSUME NEW w \in WalkOrders
    PROVE  SortItems(w) = SortedFiles
<1> DEFINE N == NumFiles
<1>1. N \in Nat /\ IsFiniteSet(1..N) /\ Cardinality(1..N) = N
  BY NumFilesAssumption, FS_Interval
<1>2. w \in Injection(1..N, 1..N)
  BY DEF WalkOrders, Files, Injection, IsInjective
<1>3. w \in Surjection(1..N, 1..N)
  BY <1>1, <1>2, FS_Injection
<1>4. Elems(w) = 1..N
  BY <1>3 DEF Surjection, Elems, WalkOrders
<1>5. Len(w) = N
  <2>1. w \in Seq(Files)
    BY <1>1 DEF WalkOrders, Files
  <2>2. DOMAIN w = 1..N
    BY DEF WalkOrders
  <2>3. QED BY <1>1, <2>1, <2>2, LenProperties
<1>6. \A f \in 1..N : Cardinality({g \in 1..N : g < f}) = f - 1
  <2> SUFFICES ASSUME NEW f \in 1..N
               PROVE  Cardinality({g \in 1..N : g < f}) = f - 1
    OBVIOUS
  <2>1. {g \in 1..N : g < f} = 1..f - 1
    BY <1>1
  <2>2. f - 1 \in Int /\ 1 \in Int
    BY <1>1
  <2>3. Cardinality(1..f - 1) = IF 1 > f - 1 THEN 0 ELSE f - 1
    BY <2>2, FS_Interval
  <2>4. Cardinality(1..f - 1) = f - 1
    BY <1>1, <2>3
  <2>5. QED BY <2>1, <2>4, Zenon
<1>7. \A j \in 1..N : SortItems(w)[j] = j
  <2> SUFFICES ASSUME NEW j \in 1..N PROVE SortItems(w)[j] = j
    OBVIOUS
  <2>1. \E f \in Elems(w) : Cardinality({g \in Elems(w) : g < f}) = j - 1
    BY <1>4, <1>6
  <2>2. \A f \in Elems(w) : Cardinality({g \in Elems(w) : g < f}) = j - 1 => f = j
    BY <1>1, <1>4, <1>6
  <2>3. QED BY <1>5, <2>1, <2>2 DEF SortItems
<1>8. QED BY <1>1, <1>5, <1>7 DEF SortItems, SortedFiles

\* A doc file the walk can list.
LEMMA DocFacts ==
    ASSUME TypeOK, NEW f \in Files
    PROVE  /\ docs[f].lines \in Seq(LineKinds)
           /\ Len(docs[f].lines) <= MaxLines
           /\ docs[f].meta.type \in DocTypes \cup {"other"}
           /\ docs[f].meta.id \in Ids
           /\ docs[f].meta.tags \in Seq(Tags)
<1>1. docs[f] \in DocChoices
  BY DEF TypeOK
<1>2. QED BY <1>1, DocChoicesAssumption DEF DocFile, Meta

\* Appending to a list adds one element.
LEMMA ElemsAppend ==
    ASSUME NEW S, NEW s \in Seq(S), NEW e \in S
    PROVE  Elems(Append(s, e)) = Elems(s) \cup {e}
<1>1. /\ Len(Append(s, e)) = Len(s) + 1
      /\ \A i \in 1..Len(s) : Append(s, e)[i] = s[i]
      /\ Append(s, e)[Len(s) + 1] = e
  BY AppendProperties
<1>2. DOMAIN Append(s, e) = 1..Len(s) + 1 /\ DOMAIN s = 1..Len(s)
  BY AppendProperties, LenProperties
<1>3. QED BY <1>1, <1>2 DEF Elems

\* The lists of tags: a key is a tag and each list holds ids.
TagsTyped(tg) ==
    DOMAIN tg \subseteq Tags /\ \A x \in DOMAIN tg : tg[x] \in Seq(Ids)

\* Lines 85-87 keep every list typed, lose no id of any list, and put the
\* id in the tag's list.
LEMMA TagEntryFacts ==
    ASSUME NEW tg, TagsTyped(tg), NEW t \in Tags, NEW id \in Ids
    PROVE  /\ TagsTyped(TagEntry(tg, t, id))
           /\ DOMAIN TagEntry(tg, t, id) = DOMAIN tg \cup {t}
           /\ \A x \in DOMAIN tg : Elems(tg[x]) \subseteq Elems(TagEntry(tg, t, id)[x])
           /\ id \in Elems(TagEntry(tg, t, id)[t])
<1>1. CASE t \in DOMAIN tg
  <2>1. tg[t] \in Seq(Ids)
    BY <1>1 DEF TagsTyped
  <2>2. /\ Append(tg[t], id) \in Seq(Ids)
        /\ Elems(Append(tg[t], id)) = Elems(tg[t]) \cup {id}
    BY <2>1, AppendProperties, ElemsAppend
  <2>3. TagEntry(tg, t, id) = [tg EXCEPT ![t] = Append(tg[t], id)]
    BY <1>1 DEF TagEntry
  <2> DEFINE tg2 == [tg EXCEPT ![t] = Append(tg[t], id)]
  <2>4. DOMAIN tg2 = DOMAIN tg /\ tg2[t] = Append(tg[t], id)
    BY <1>1
  <2>5. \A x \in DOMAIN tg \ {t} : tg2[x] = tg[x]
    OBVIOUS
  <2>6. TagsTyped(tg2)
    BY <1>1, <2>2, <2>4, <2>5 DEF TagsTyped
  <2>7. \A x \in DOMAIN tg : Elems(tg[x]) \subseteq Elems(tg2[x])
    BY <2>2, <2>4, <2>5
  <2>8. QED BY <1>1, <2>2, <2>3, <2>4, <2>6, <2>7
<1>2. CASE t \notin DOMAIN tg
  <2>1. TagEntry(tg, t, id) = Put(tg, t, <<id>>)
    BY <1>2 DEF TagEntry
  <2>2. <<id>> \in Seq(Ids) /\ Elems(<<id>>) = {id}
    BY DEF Elems
  <2>3. QED BY <1>2, <2>1, <2>2 DEF Put, TagsTyped
<1>3. QED BY <1>1, <1>2

\* A step that stores no item, records no tag and stays in or out of the
\* tag loop keeps what has been stored and recorded.
LEMMA FrameStep ==
    ASSUME LastSoFar, TagsRecorded,
           UNCHANGED <<docs, n, ti, funcs, tagged>>,
           pc' = "tags" <=> pc = "tags",
           pc = "tags" => items' = items
    PROVE  LastSoFar' /\ TagsRecorded'
<1>1. Stored' = Stored
  BY DEF Stored
<1>2. \A tag, id : Recorded(tag, id)' <=> Recorded(tag, id)
  BY DEF Recorded
<1>3. pc = "tags" => Data' = Data
  BY DEF Data
<1>4. QED BY <1>1, <1>2, <1>3 DEF LastSoFar, TagsRecorded

\* The step of the inductive invariant, one case per action of main().
LEMMA GStep == GInv /\ [Next]_vars => GInv'
<1> SUFFICES ASSUME TypeOK, Walked, LastSoFar, TagsRecorded, WrittenOut, [Next]_vars
             PROVE  TypeOK' /\ Walked' /\ LastSoFar' /\ TagsRecorded' /\ WrittenOut'
  BY DEF GInv
<1>0. /\ NumFiles \in Nat /\ MaxLines \in Nat
      /\ n \in 1..NumFiles + 1 /\ ti \in Nat \ {0}
      /\ TagsTyped(tagged)
      /\ SortedFiles \in Seq(Files) /\ Len(SortedFiles) = NumFiles
  BY NumFilesAssumption, MaxLinesAssumption DEF TypeOK, TagsTyped, SortedFiles, Files
<1>1. CASE Walk
  <2>1. PICK w \in WalkOrders : items' = SortItems(w)
    BY <1>1 DEF Walk
  <2>2. items' = SortedFiles
    BY <2>1, SortWalk
  <2>3. pc = "walk" /\ pc' = "open" /\ n = 1
        /\ UNCHANGED <<docs, n, pos, ti, buf, funcs, tagged, sections, index>>
    BY <1>1 DEF Walk, Walked
  <2>5. LastSoFar' /\ TagsRecorded'
    BY <2>3, FrameStep
  <2>6. QED BY <1>0, <2>2, <2>3, <2>5 DEF TypeOK, Walked, WrittenOut
<1>2. CASE OpenItem
  <2>1. /\ pc = "open" /\ n <= Len(items) /\ items = SortedFiles /\ items[n] = n
        /\ UNCHANGED <<docs, items, n, ti, funcs, tagged, sections, index>>
    BY <1>0, <1>2 DEF OpenItem, Walked, SortedFiles
  <2>2. /\ docs[n].lines \in Seq(LineKinds) /\ Len(docs[n].lines) <= MaxLines
    BY <1>0, <2>1, DocFacts DEF Files
  <2>4. CASE Line(n, 1) = "delim"
    <3>1. pc' = "frontmatter" /\ pos' = 2 /\ buf' = <<>>
      BY <1>2, <2>1, <2>4 DEF OpenItem
    <3>2. 1 <= Len(docs[n].lines)
      BY <2>4 DEF Line
    <3>3. LastSoFar' /\ TagsRecorded'
      BY <2>1, <3>1, FrameStep
    <3>4. QED BY <1>0, <2>1, <2>2, <3>1, <3>2, <3>3 DEF TypeOK, Walked, WrittenOut
  <2>5. CASE Line(n, 1) # "delim"
    <3>1. pc' = "crashed" /\ UNCHANGED <<pos, buf>>
      BY <1>2, <2>1, <2>5 DEF OpenItem
    <3>2. LastSoFar' /\ TagsRecorded'
      BY <2>1, <3>1, FrameStep
    <3>3. QED BY <1>0, <2>1, <3>1, <3>2 DEF TypeOK, Walked, WrittenOut
  <2>6. QED BY <2>4, <2>5
<1>3. CASE ReadLine
  <2>1. /\ pc = "frontmatter" /\ n <= NumFiles /\ items[n] = n
        /\ pos \in 2..Len(docs[n].lines) + 1
        /\ UNCHANGED <<docs, pc, items, n, ti, funcs, tagged, sections, index>>
    BY <1>0, <1>3 DEF ReadLine, Walked, SortedFiles
  <2>2. /\ docs[n].lines \in Seq(LineKinds) /\ Len(docs[n].lines) <= MaxLines
    BY <1>0, <2>1, DocFacts DEF Files
  <2>4. CASE pos <= Len(docs[n].lines)
    <3>1. buf' = Append(buf, docs[n].lines[pos]) /\ pos' = pos + 1
      BY <1>3, <2>1, <2>4 DEF ReadLine, Line
    <3>2. buf' \in Seq(LineKinds)
      BY <2>1, <2>2, <2>4, <3>1, ElementOfSeq, AppendProperties DEF TypeOK
    <3>3. LastSoFar' /\ TagsRecorded'
      BY <2>1, FrameStep
    <3>4. QED BY <1>0, <2>1, <2>2, <2>4, <3>1, <3>2, <3>3 DEF TypeOK, Walked, WrittenOut
  <2>5. CASE ~(pos <= Len(docs[n].lines))
    <3>1. UNCHANGED <<buf, pos>>
      BY <1>3, <2>1, <2>5 DEF ReadLine
    <3>2. LastSoFar' /\ TagsRecorded'
      BY <2>1, FrameStep
    <3>3. QED BY <1>0, <2>1, <3>1, <3>2 DEF TypeOK, Walked, WrittenOut
  <2>6. QED BY <2>4, <2>5
<1>4. CASE EndFrontMatter
  <2> DEFINE meta == docs[n].meta
  <2>1. /\ pc = "frontmatter" /\ n <= NumFiles /\ items[n] = n
        /\ UNCHANGED <<docs, items, n, pos, buf, tagged, sections, index>>
    BY <1>0, <1>4 DEF EndFrontMatter, Walked, SortedFiles
  <2>2. /\ meta.type \in DocTypes \cup {"other"} /\ meta.id \in Ids
        /\ n \in Files
    BY <1>0, <2>1, DocFacts DEF Files
  <2>3. CASE ~JsonOk(buf) \/ meta.type = "other"
    <3>1. pc' = "crashed" /\ UNCHANGED <<funcs, ti>>
      BY <1>4, <2>1, <2>3 DEF EndFrontMatter
    <3>2. LastSoFar' /\ TagsRecorded'
      BY <2>1, <3>1, FrameStep
    <3>3. QED BY <1>0, <2>1, <3>1, <3>2 DEF TypeOK, Walked, WrittenOut
  <2>4. CASE ~(~JsonOk(buf) \/ meta.type = "other")
    <3>1. /\ funcs' = [funcs EXCEPT ![meta.type] = Put(@, meta.id, n)]
          /\ ti' = 1 /\ pc' = "tags"
      BY <1>4, <2>1, <2>4 DEF EndFrontMatter
    <3>2. meta.type \in DocTypes
      BY <2>2, <2>4
    <3>3. /\ DOMAIN funcs' = DocTypes
          /\ funcs'[meta.type] = Put(funcs[meta.type], meta.id, n)
          /\ \A t \in DocTypes \ {meta.type} : funcs'[t] = funcs[t]
      BY <3>1, <3>2 DEF Walked
    <3>4. /\ DOMAIN funcs'[meta.type] = DOMAIN funcs[meta.type] \cup {meta.id}
          /\ funcs'[meta.type][meta.id] = n
          /\ \A id \in DOMAIN funcs[meta.type] \ {meta.id} :
                funcs'[meta.type][id] = funcs[meta.type][id]
      BY <3>3 DEF Put
    <3>5. \A t \in DocTypes : DOMAIN funcs[t] \subseteq DOMAIN funcs'[t]
      BY <3>3, <3>4
    <3>6. TypeOK'
      BY <1>0, <2>1, <2>2, <3>1, <3>3, <3>4 DEF TypeOK
    <3>7. Walked'
      BY <2>1, <3>1, <3>3 DEF Walked
    <3>8. Stored = 1..n - 1 /\ Stored' = 1..n
      BY <2>1, <3>1 DEF Stored
    <3>9. LastSoFar'
      <4>1. ASSUME NEW f \in 1..n
            PROVE  LET m == docs[f].meta IN
                   /\ m.type \in DocTypes
                   /\ m.id \in DOMAIN funcs'[m.type]
                   /\ f <= funcs'[m.type][m.id]
        <5>1. CASE f = n
          BY <3>2, <3>4, <5>1
        <5>2. CASE f # n
          <6> DEFINE m == docs[f].meta
          <6>1. f \in 1..n - 1
            BY <5>2, <1>0
          <6>2. /\ m.type \in DocTypes
                /\ m.id \in DOMAIN funcs[m.type]
                /\ f <= funcs[m.type][m.id]
            BY <3>8, <6>1 DEF LastSoFar
          <6>3. funcs'[m.type][m.id] = funcs[m.type][m.id]
                  \/ funcs'[m.type][m.id] = n
            BY <3>3, <3>4, <6>2
          <6>4. QED BY <3>5, <6>1, <6>2, <6>3
        <5>3. QED BY <5>1, <5>2
      <4>2. ASSUME NEW t \in DocTypes, NEW id \in DOMAIN funcs'[t]
            PROVE  funcs'[t][id] \in 1..n /\ docs[funcs'[t][id]].meta.id = id
        <5>1. CASE t = meta.type /\ id = meta.id
          <6>1. funcs'[t][id] = n
            BY <3>4, <5>1
          <6>2. n \in 1..n
            BY <1>0
          <6>3. QED BY <5>1, <6>1, <6>2
        <5>2. CASE ~(t = meta.type /\ id = meta.id)
          <6>1. id \in DOMAIN funcs[t] /\ funcs'[t][id] = funcs[t][id]
            <7>1. CASE t = meta.type
              BY <3>4, <5>2, <7>1
            <7>2. CASE t # meta.type
              <8>1. funcs'[t] = funcs[t]
                BY <3>3, <7>2
              <8>2. QED BY <8>1, Zenon
            <7>3. QED BY <7>1, <7>2
          <6>2. QED BY <1>0, <3>8, <6>1 DEF LastSoFar
        <5>3. QED BY <5>1, <5>2
      <4>3. QED BY <2>1, <3>8, <4>1, <4>2 DEF LastSoFar
    <3>10. TagsRecorded'
      <4>1. \A tag, id : Recorded(tag, id)' <=> Recorded(tag, id)
        BY <2>1 DEF Recorded
      <4>2. QED BY <2>1, <3>1, <4>1 DEF TagsRecorded
    <3>11. WrittenOut'
      BY <3>1 DEF WrittenOut
    <3>12. QED BY <3>6, <3>7, <3>9, <3>10, <3>11
  <2>5. QED BY <2>3, <2>4
<1>5. CASE AddTag
  <2>1. /\ pc = "tags" /\ n <= NumFiles /\ items[n] = n
        /\ ti <= Len(Data.tags)
        /\ tagged' = TagEntry(tagged, Data.tags[ti], Data.id)
        /\ ti' = ti + 1
        /\ UNCHANGED <<docs, pc, items, n, pos, buf, funcs, sections, index>>
    BY <1>0, <1>5 DEF AddTag, Walked, SortedFiles
  <2>2. Data = docs[n].meta /\ Data.id \in Ids /\ Data.tags \in Seq(Tags)
    BY <1>0, <2>1, DocFacts DEF Data, Files
  <2>3. Data.tags[ti] \in Tags
    BY <1>0, <2>1, <2>2, ElementOfSeq
  <2>4. /\ TagsTyped(tagged')
        /\ \A x \in DOMAIN tagged : Elems(tagged[x]) \subseteq Elems(tagged'[x])
        /\ DOMAIN tagged \subseteq DOMAIN tagged'
        /\ Data.id \in Elems(tagged'[Data.tags[ti]])
        /\ Data.tags[ti] \in DOMAIN tagged'
    <3> DEFINE tg2 == TagEntry(tagged, Data.tags[ti], Data.id)
    <3>1. /\ TagsTyped(tg2)
          /\ DOMAIN tg2 = DOMAIN tagged \cup {Data.tags[ti]}
          /\ \A x \in DOMAIN tagged : Elems(tagged[x]) \subseteq Elems(tg2[x])
          /\ Data.id \in Elems(tg2[Data.tags[ti]])
      BY <1>0, <2>2, <2>3, TagEntryFacts
    <3>2. tagged' = tg2
      BY <2>1
    <3>3. QED BY <3>1, <3>2, Zenon
  <2>5. \A tag, id : tag \in DOMAIN tagged /\ id \in Elems(tagged[tag])
                     => tag \in DOMAIN tagged' /\ id \in Elems(tagged'[tag])
    BY <2>4
  <2>6. Data' = Data
    BY <2>1 DEF Data
  <2>7. TagsRecorded'
    <3>1. \A f \in 1..n - 1 : \A tag \in Elems(docs[f].meta.tags) :
             tag \in DOMAIN tagged' /\ docs[f].meta.id \in Elems(tagged'[tag])
      BY <2>5 DEF TagsRecorded, Recorded
    <3>2. \A i \in 1..ti :
             Data.tags[i] \in DOMAIN tagged' /\ Data.id \in Elems(tagged'[Data.tags[i]])
      <4> SUFFICES ASSUME NEW i \in 1..ti
                   PROVE  Data.tags[i] \in DOMAIN tagged'
                          /\ Data.id \in Elems(tagged'[Data.tags[i]])
        OBVIOUS
      <4>1. CASE i = ti
        BY <2>4, <4>1
      <4>2. CASE i # ti
        <5>1. i \in 1..ti - 1
          BY <1>0, <4>2
        <5>2. Data.tags[i] \in DOMAIN tagged /\ Data.id \in Elems(tagged[Data.tags[i]])
          BY <2>1, <5>1 DEF TagsRecorded, Recorded
        <5>3. QED BY <2>5, <5>2
      <4>3. QED BY <4>1, <4>2
    <3>3. 1..ti' - 1 = 1..ti /\ 1..n' - 1 = 1..n - 1 /\ pc' = "tags"
      BY <1>0, <2>1
    <3>4. QED BY <2>1, <2>6, <3>1, <3>2, <3>3 DEF TagsRecorded, Recorded
  <2>8. LastSoFar'
    BY <2>1 DEF LastSoFar, Stored
  <2>9. QED BY <1>0, <2>1, <2>4, <2>7, <2>8 DEF TypeOK, TagsTyped, Walked, WrittenOut
<1>6. CASE EndTags
  <2>1. /\ pc = "tags" /\ n <= NumFiles /\ items[n] = n
        /\ ti > Len(Data.tags)
        /\ n' = n + 1 /\ pc' = "open"
        /\ UNCHANGED <<docs, items, pos, ti, buf, funcs, tagged, sections, index>>
    BY <1>0, <1>6 DEF EndTags, Walked, SortedFiles
  <2>2. Data = docs[n].meta /\ Data.tags \in Seq(Tags)
    BY <1>0, <2>1, DocFacts DEF Data, Files
  <2>3. Stored' = Stored
    BY <1>0, <2>1 DEF Stored
  <2>5. \A tag \in Elems(docs[n].meta.tags) : Recorded(tag, docs[n].meta.id)
    <3> SUFFICES ASSUME NEW tag \in Elems(Data.tags) PROVE Recorded(tag, Data.id)
      BY <2>2
    <3>1. PICK i \in 1..Len(Data.tags) : Data.tags[i] = tag
      BY <2>2, LenProperties DEF Elems
    <3>2. i \in 1..ti - 1
      BY <1>0, <2>1, <2>2, <3>1, LenProperties
    <3>3. QED BY <2>1, <3>1, <3>2 DEF TagsRecorded
  <2>6. TagsRecorded'
    <3>1. \A f \in 1..n : \A tag \in Elems(docs[f].meta.tags) : Recorded(tag, docs[f].meta.id)
      <4> SUFFICES ASSUME NEW f \in 1..n, NEW tag \in Elems(docs[f].meta.tags)
                   PROVE  Recorded(tag, docs[f].meta.id)
        OBVIOUS
      <4>1. CASE f = n
        BY <2>5, <4>1
      <4>2. CASE f # n
        <5>1. f \in 1..n - 1
          BY <1>0, <4>2
        <5>2. QED BY <5>1 DEF TagsRecorded
      <4>3. QED BY <4>1, <4>2
    <3>2. 1..n' - 1 = 1..n
      BY <1>0, <2>1
    <3>3. QED BY <2>1, <3>1, <3>2 DEF TagsRecorded, Recorded
  <2>7. LastSoFar'
    BY <2>1, <2>3 DEF LastSoFar
  <2>8. QED BY <1>0, <2>1, <2>6, <2>7 DEF TypeOK, Walked, WrittenOut
<1>7. CASE WriteDocs
  <2>1. /\ pc = "open" /\ n > Len(items) /\ items = SortedFiles
        /\ pc' = "done" /\ sections' = funcs
        /\ index' = [t \in DOMAIN tagged |-> IndexEntries(tagged[t], funcs)]
        /\ UNCHANGED <<docs, items, n, pos, ti, buf, funcs, tagged>>
    BY <1>7 DEF WriteDocs, Walked
  <2>2. n = NumFiles + 1
    BY <1>0, <2>1
  <2>3. LastSoFar' /\ TagsRecorded'
    BY <2>1, FrameStep
  <2>4. QED BY <1>0, <2>1, <2>2, <2>3 DEF TypeOK, Walked, WrittenOut
<1>8. CASE UNCHANGED vars
  <2>1. LastSoFar' /\ TagsRecorded'
    BY <1>8, FrameStep DEF vars
  <2>2. QED BY <1>8, <2>1 DEF vars, TypeOK, Walked, WrittenOut
<1>9. QED BY <1>1, <1>2, <1>3, <1>4, <1>5, <1>6, <1>7, <1>8 DEF Next

LEMMA InitGInv == Init => GInv
<1> SUFFICES ASSUME Init PROVE GInv
  OBVIOUS
<1>1. NumFiles \in Nat /\ MaxLines \in Nat
  BY NumFilesAssumption, MaxLinesAssumption
<1>2. Stored = {} /\ DOMAIN tagged = {}
  BY DEF Init, Stored
<1>3. \A t \in DocTypes : DOMAIN funcs[t] = {}
  BY DEF Init
<1>4. QED BY <1>1, <1>2, <1>3
          DEF Init, GInv, TypeOK, Walked, LastSoFar, TagsRecorded, WrittenOut, Files

\* generate.py's state stays well typed for every doc tree: in particular
\* the dictionaries map ids to paths and the tag lists hold ids.
THEOREM DocsGenerateTypeCorrect == Spec => []TypeOK
  BY InitGInv, GStep, PTL DEF Spec, GInv

\* At the end of main() every path is stored, so each path's type and id
\* name an entry of docs.md that comes from that path or a later one.
LEMMA GInvLastFileWins == GInv => LastFileWins
<1> SUFFICES ASSUME GInv, pc = "done" PROVE LastFileWins
  BY DEF LastFileWins
<1>1. n = NumFiles + 1 /\ sections = funcs /\ NumFiles \in Nat
  BY NumFilesAssumption DEF GInv, WrittenOut
<1>2. Stored = Files
  BY <1>1 DEF Stored, Files
<1>3. QED BY <1>1, <1>2 DEF GInv, LastSoFar, LastFileWins

\* When two doc files give the same id and type, docs.md shows the one
\* whose path sorts last, for every doc tree and whatever order os.walk
\* lists the files in: items.sort() at line 45 puts the paths in name
\* order, and the dictionary store at lines 74-78 overwrites.
THEOREM LastFileWinsHolds == Spec => []LastFileWins
<1>1. Spec => []GInv
  BY InitGInv, GStep, PTL DEF Spec
<1>2. QED BY <1>1, GInvLastFileWins, PTL

\* At the end of main() the tag loop of every path is over, so each tag of
\* the doc file an entry of docs.md comes from lists the entry's id.
LEMMA GInvIndexComplete == GInv => IndexComplete
<1> SUFFICES ASSUME GInv, pc = "done",
                    NEW t \in {"scalar_function", "aggregate_function"},
                    NEW id \in DOMAIN sections[t],
                    NEW tag \in Elems(docs[sections[t][id]].meta.tags)
             PROVE  tag \in DOMAIN index /\ id \in index[tag]
  BY DEF IndexComplete
<1>1. /\ n = NumFiles + 1 /\ sections = funcs /\ NumFiles \in Nat
      /\ index = [x \in DOMAIN tagged |-> IndexEntries(tagged[x], funcs)]
  BY NumFilesAssumption DEF GInv, WrittenOut
<1>2. t \in DocTypes /\ id \in DOMAIN funcs[t]
  BY <1>1 DEF DocTypes
<1>3. funcs[t][id] \in 1..n - 1 /\ docs[funcs[t][id]].meta.id = id
  BY <1>1, <1>2 DEF GInv, LastSoFar, Stored
<1>4. tag \in DOMAIN tagged /\ id \in Elems(tagged[tag])
  BY <1>1, <1>3 DEF GInv, TagsRecorded, Recorded
<1>5. id \in DOMAIN funcs["scalar_function"] \cup DOMAIN funcs["aggregate_function"]
  BY <1>2
<1>6. QED BY <1>1, <1>4, <1>5 DEF IndexEntries

\* Every scalar or aggregate function of docs.md is listed, for every doc
\* tree, under every tag its doc file carries: the loop at lines 84-87 has
\* appended its id for each tag before the next item is read.
THEOREM IndexCompleteHolds == Spec => []IndexComplete
<1>1. Spec => []GInv
  BY InitGInv, GStep, PTL DEF Spec
<1>2. QED BY <1>1, GInvIndexComplete, PTL

(***************************************************************************)
(* The file-at-a-time refinement.  ReadPrefix ties the front matter read  *)
(* so far to the file's lines, so that the closing --- decides exactly    *)
(* what WellFormed decides; the ids recorded under the tags, counting the *)
(* tags still pending, are what the abstract Store records at once.       *)
(***************************************************************************)

\* ReadPrefix is kept by every step: only ReadLine extends buf, and only
\* with a line that is not ---.
LEMMA PrefixStep == FInv /\ [Next]_vars => ReadPrefix'
<1> SUFFICES ASSUME GInv, ReadPrefix, [Next]_vars PROVE ReadPrefix'
  BY DEF FInv
<1>0. /\ TypeOK /\ Walked /\ NumFiles \in Nat /\ n \in 1..NumFiles + 1
      /\ SortedFiles \in Seq(Files) /\ Len(SortedFiles) = NumFiles
  BY NumFilesAssumption DEF GInv, TypeOK, SortedFiles, Files
<1>1. CASE pc' # "frontmatter"
  BY <1>1 DEF ReadPrefix
<1>2. CASE pc' = "frontmatter" /\ pc = "frontmatter"
  <2>1. ReadLine \/ UNCHANGED vars
    BY <1>2 DEF Next, Walk, OpenItem, EndFrontMatter, AddTag, EndTags, WriteDocs
  <2>2. CASE UNCHANGED vars
    BY <2>2 DEF vars, ReadPrefix, Line
  <2>3. CASE ReadLine
    <3>0. /\ n <= NumFiles /\ items[n] = n /\ n \in Files
          /\ pos \in 2..Len(docs[n].lines) + 1
          /\ UNCHANGED <<docs, n>>
          /\ Line(n, pos) # "delim"
      BY <1>0, <1>2, <2>3 DEF ReadLine, Walked, SortedFiles, Files
    <3>1. docs[n].lines \in Seq(LineKinds)
      BY <1>0, <3>0, DocFacts
    <3>2. buf \in Seq(LineKinds) /\ pos \in Nat
      BY <1>0, <3>0, MaxLinesAssumption DEF TypeOK
    <3>6. /\ Line(n, 1)' = Line(n, 1)
          /\ Line(n, 1) = "delim"
          /\ \A j \in 1..pos - 2 :
                buf[j] = docs[n].lines[j + 1] /\ docs[n].lines[j + 1] # "delim"
      BY <1>2, <3>0 DEF ReadPrefix, Line
    <3>3. CASE pos <= Len(docs[n].lines)
      <4>1. buf' = Append(buf, docs[n].lines[pos]) /\ pos' = pos + 1
        BY <2>3, <3>0, <3>3 DEF ReadLine, Line
      <4>2. docs[n].lines[pos] # "delim" /\ docs[n].lines[pos] \in LineKinds
        BY <3>0, <3>1, <3>3 DEF Line
      <4>3. /\ Len(buf') = pos - 1
            /\ \A j \in 1..pos - 2 : buf'[j] = buf[j]
            /\ buf'[pos - 1] = docs[n].lines[pos]
        BY <1>2, <3>2, <4>1, <4>2, AppendProperties DEF ReadPrefix
      <4>4. \A j \in 1..pos' - 2 :
               buf'[j] = docs[n].lines[j + 1] /\ docs[n].lines[j + 1] # "delim"
        BY <3>2, <3>6, <4>1, <4>2, <4>3
      <4>5. QED BY <1>2, <3>0, <3>6, <4>1, <4>3, <4>4 DEF ReadPrefix
    <3>4. CASE ~(pos <= Len(docs[n].lines))
      <4>1. UNCHANGED <<buf, pos>>
        BY <2>3, <3>0, <3>4 DEF ReadLine
      <4>2. QED BY <1>2, <3>0, <3>6, <4>1, <3>2 DEF ReadPrefix
    <3>5. QED BY <3>3, <3>4
  <2>4. QED BY <2>1, <2>2, <2>3
<1>3. CASE pc' = "frontmatter" /\ pc # "frontmatter"
  <2>1. OpenItem
    BY <1>3 DEF Next, Walk, ReadLine, EndFrontMatter, AddTag, EndTags, WriteDocs, vars
  <2>2. /\ items[n] = n /\ Line(n, 1) = "delim"
        /\ pos' = 2 /\ buf' = <<>> /\ UNCHANGED <<docs, n>>
    BY <1>0, <1>3, <2>1 DEF OpenItem, Walked, SortedFiles
  <2>3. Line(n, 1)' = Line(n, 1)
    BY <2>2 DEF Line
  <2>4. Len(buf') = pos' - 2 /\ 1..pos' - 2 = {}
    BY <2>2
  <2>5. QED BY <1>3, <2>2, <2>3, <2>4 DEF ReadPrefix
<1>4. QED BY <1>1, <1>2, <1>3

LEMMA InitFInv == Init => FInv
BY InitGInv DEF FInv, ReadPrefix, Init

LEMMA FInvStep == FInv /\ [Next]_vars => FInv'
BY GStep, PrefixStep DEF FInv

\* At the closing --- of lines 59-60, json.loads(frontmatter) succeeds
\* exactly when the file's front matter is well formed.
LEMMA FrontMatterClosed ==
    ASSUME TypeOK, Walked, ReadPrefix, pc = "frontmatter", items[n] = n,
           Line(n, pos) = "delim"
    PROVE  ByFile!WellFormed(n) <=> JsonOk(buf)
<1> DEFINE ls == docs[n].lines
<1>1. /\ NumFiles \in Nat /\ n \in Files /\ ls \in Seq(LineKinds)
      /\ buf \in Seq(LineKinds)
  BY NumFilesAssumption, DocFacts DEF TypeOK, Walked, Files
<1>2. pos \in 2..Len(ls) /\ ls[pos] = "delim"
  BY <1>1 DEF Walked, Line
<1>3. ls # <<>> /\ ls[1] = "delim"
  BY <1>1 DEF ReadPrefix, Line
<1>4. buf = SubSeq(ls, 2, pos - 1)
  BY <1>1, <1>2 DEF ReadPrefix
<1>5. \A m \in 2..pos - 1 : ls[m] # "delim"
  <2> SUFFICES ASSUME NEW m \in 2..pos - 1 PROVE ls[m] # "delim"
    OBVIOUS
  <2>1. m - 1 \in 1..pos - 2 /\ (m - 1) + 1 = m
    BY <1>2
  <2>2. QED BY <2>1 DEF ReadPrefix
<1>6. \A p \in 2..Len(ls) :
         ls[p] = "delim" /\ (\A m \in 2..p - 1 : ls[m] # "delim") => p = pos
  BY <1>1, <1>2, <1>5
<1>7. ByFile!WellFormed(n) <=> ByFile!Decodes(SubSeq(ls, 2, pos - 1))
  BY <1>2, <1>3, <1>5, <1>6 DEF ByFile!WellFormed
<1>8. QED BY <1>4, <1>7 DEF ByFile!Decodes, JsonOk

(* The tag lists as sets, with the id id added under the tags of Q.        *)
TagView(g, Q, id) ==
    [t \in DOMAIN g \cup Q |->
        (IF t \in DOMAIN g THEN Elems(g[t]) ELSE {}) \cup (IF t \in Q THEN {id} ELSE {})]

\* Lines 85-87 add the id to the tag's list and touch no other list.
LEMMA TagEntryElems ==
    ASSUME NEW tg, TagsTyped(tg), NEW t \in Tags, NEW id \in Ids
    PROVE  /\ DOMAIN TagEntry(tg, t, id) = DOMAIN tg \cup {t}
           /\ \A x \in DOMAIN tg \ {t} : TagEntry(tg, t, id)[x] = tg[x]
           /\ Elems(TagEntry(tg, t, id)[t])
                = (IF t \in DOMAIN tg THEN Elems(tg[t]) ELSE {}) \cup {id}
<1>1. CASE t \in DOMAIN tg
  <2>1. tg[t] \in Seq(Ids)
    BY <1>1 DEF TagsTyped
  <2>2. Elems(Append(tg[t], id)) = Elems(tg[t]) \cup {id}
    BY <2>1, ElemsAppend
  <2>3. TagEntry(tg, t, id) = [tg EXCEPT ![t] = Append(tg[t], id)]
    BY <1>1 DEF TagEntry
  <2>4. QED BY <1>1, <2>2, <2>3
<1>2. CASE t \notin DOMAIN tg
  <2>1. TagEntry(tg, t, id) = Put(tg, t, <<id>>)
    BY <1>2 DEF TagEntry
  <2>2. Elems(<<id>>) = {id}
    BY DEF Elems
  <2>3. QED BY <1>2, <2>1, <2>2 DEF Put
<1>3. QED BY <1>1, <1>2

\* One step of the tag loop moves the tag t from the pending tags to the
\* recorded lists, and the sets seen by tag stay the same.
LEMMA TagViewShift ==
    ASSUME NEW tg, TagsTyped(tg), NEW t \in Tags, NEW id \in Ids,
           NEW P, NEW P2, P = P2 \cup {t}
    PROVE  TagView(TagEntry(tg, t, id), P2, id) = TagView(tg, P, id)
<1> DEFINE tg2 == TagEntry(tg, t, id)
<1>1. /\ DOMAIN tg2 = DOMAIN tg \cup {t}
      /\ \A x \in DOMAIN tg \ {t} : tg2[x] = tg[x]
      /\ Elems(tg2[t]) = (IF t \in DOMAIN tg THEN Elems(tg[t]) ELSE {}) \cup {id}
  BY TagEntryElems
<1>2. DOMAIN tg2 \cup P2 = DOMAIN tg \cup P
  BY <1>1
<1>3. ASSUME NEW x \in DOMAIN tg \cup P
      PROVE  TagView(tg2, P2, id)[x] = TagView(tg, P, id)[x]
  <2>1. CASE x = t
    BY <1>1, <1>2, <2>1 DEF TagView
  <2>2. CASE x # t
    <3>1. (x \in DOMAIN tg2 <=> x \in DOMAIN tg) /\ (x \in P2 <=> x \in P)
      BY <1>1, <2>2
    <3>2. x \in DOMAIN tg => tg2[x] = tg[x]
      BY <1>1, <2>2
    <3>3. QED BY <1>2, <3>1, <3>2 DEF TagView
  <2>3. QED BY <2>1, <2>2
<1>4. QED BY <1>2, <1>3 DEF TagView

\* Outside the tag loop no tag is pending.
LEMMA NoPending ==
    ASSUME pc # "tags"
    PROVE  TagSets = [t \in DOMAIN tagged |-> Elems(tagged[t])]
BY DEF TagSets, Pending

\* A step that stores nothing, records nothing and neither enters nor
\* leaves the tag loop or the end is a stutter of the file-at-a-time view.
LEMMA QuietStep ==
    ASSUME UNCHANGED <<docs, n, funcs, tagged, sections, index>>,
           pc \in {"walk", "open", "frontmatter"},
           pc' \in {"walk", "open", "frontmatter"}
    PROVE  UNCHANGED ByFile!vars
<1>1. TagSets' = TagSets
  BY NoPending DEF TagSets, Pending
<1>2. QED BY <1>1 DEF ByFile!vars

\* Every step of main() is a step of the file-at-a-time specification or
\* leaves its view unchanged.
LEMMA RefineStep == FInv /\ [Next]_vars => [ByFile!Next]_ByFile!vars
<1> SUFFICES ASSUME TypeOK, Walked, ReadPrefix, [Next]_vars
             PROVE  [ByFile!Next]_ByFile!vars
  BY DEF FInv, GInv
<1>0. /\ NumFiles \in Nat /\ n \in 1..NumFiles + 1 /\ TagsTyped(tagged)
      /\ pc # "walk" => items = SortedFiles /\ Len(items) = NumFiles
      /\ pc # "walk" /\ n <= NumFiles => items[n] = n /\ n \in Files
  BY NumFilesAssumption DEF TypeOK, TagsTyped, Walked, SortedFiles, Files
<1>1. CASE Walk
  BY <1>1, QuietStep DEF Walk
<1>2. CASE OpenItem
  <2>1. /\ pc = "open" /\ n <= NumFiles /\ items[n] = n /\ n \in Files
        /\ UNCHANGED <<docs, items, n, ti, funcs, tagged, sections, index>>
    BY <1>0, <1>2 DEF OpenItem
  <2>2. CASE Line(n, 1) = "delim"
    <3>1. pc' = "frontmatter"
      BY <1>2, <2>1, <2>2 DEF OpenItem
    <3>2. QED BY <2>1, <3>1, QuietStep
  <2>3. CASE Line(n, 1) # "delim"
    <3>1. pc' = "crashed"
      BY <1>2, <2>1, <2>3 DEF OpenItem
    <3>2. docs[n].lines \in Seq(LineKinds)
      BY <2>1, DocFacts
    <3>3. ~ByFile!WellFormed(n)
      BY <2>3, <3>2 DEF ByFile!WellFormed, Line
    <3>4. TagSets' = TagSets
      BY <2>1, <3>1, NoPending DEF TagSets, Pending
    <3>5. ByFile!TakeFile
      BY <2>1, <3>1, <3>3, <3>4 DEF ByFile!TakeFile
    <3>6. QED BY <3>5 DEF ByFile!Next
  <2>4. QED BY <2>2, <2>3
<1>3. CASE ReadLine
  BY <1>3, QuietStep DEF ReadLine
<1>4. CASE EndFrontMatter
  <2> DEFINE m == docs[n].meta
             new == {m.tags[j] : j \in DOMAIN m.tags}
  <2>1. /\ pc = "frontmatter" /\ n <= NumFiles /\ items[n] = n /\ n \in Files
        /\ Line(n, pos) = "delim"
        /\ UNCHANGED <<docs, items, n, pos, buf, tagged, sections, index>>
    BY <1>0, <1>4 DEF EndFrontMatter, Walked
  <2>2. ByFile!WellFormed(n) <=> JsonOk(buf)
    BY <2>1, FrontMatterClosed
  <2>3. /\ m.type \in DocTypes \cup {"other"} /\ m.id \in Ids
        /\ m.tags \in Seq(Tags)
    BY <2>1, DocFacts
  <2>4. TagSets = [t \in DOMAIN tagged |-> Elems(tagged[t])]
    BY <2>1, NoPending
  <2>5. CASE ~JsonOk(buf) \/ m.type = "other"
    <3>1. pc' = "crashed" /\ UNCHANGED funcs
      BY <1>4, <2>1, <2>5 DEF EndFrontMatter
    <3>2. TagSets' = TagSets
      BY <2>1, <3>1, NoPending DEF TagSets, Pending
    <3>3. ~(ByFile!WellFormed(n) /\ m.type \in ByFile!DocTypes)
      BY <2>2, <2>5 DEF ByFile!DocTypes
    <3>4. ByFile!TakeFile
      BY <2>1, <3>1, <3>2, <3>3 DEF ByFile!TakeFile
    <3>5. QED BY <3>4 DEF ByFile!Next
  <2>6. CASE ~(~JsonOk(buf) \/ m.type = "other")
    <3>1. /\ funcs' = [funcs EXCEPT ![m.type] = Put(@, m.id, n)]
          /\ pc' = "tags" /\ ti' = 1
      BY <1>4, <2>1, <2>6 DEF EndFrontMatter
    <3>2. ByFile!WellFormed(n) /\ m.type \in ByFile!DocTypes
      <4>1. m.type \in DocTypes /\ ByFile!DocTypes = DocTypes
        BY <2>3, <2>6 DEF ByFile!DocTypes, DocTypes
      <4>2. QED BY <2>2, <2>6, <4>1
    <3>3. Data' = m
      BY <2>1 DEF Data
    <3>4. Pending' = new
      BY <2>3, <3>1, <3>3 DEF Pending
    <3>5. TagSets' = [t \in DOMAIN tagged \cup new |->
                         (IF t \in DOMAIN tagged THEN Elems(tagged[t]) ELSE {})
                           \cup (IF t \in new THEN {m.id} ELSE {})]
      BY <2>1, <3>3, <3>4 DEF TagSets
    <3>6. TagSets' = [t \in DOMAIN TagSets \cup new |->
                         (IF t \in DOMAIN TagSets THEN TagSets[t] ELSE {})
                           \cup (IF t \in new THEN {m.id} ELSE {})]
      BY <2>4, <3>5
    <3>7. funcs' = [funcs EXCEPT ![m.type] =
                      [x \in DOMAIN @ \cup {m.id} |-> IF x = m.id THEN n ELSE @[x]]]
      BY <3>1 DEF Put
    <3>8. ByFile!Store(n)
      BY <3>6, <3>7 DEF ByFile!Store
    <3>9. ByFile!TakeFile
      BY <2>1, <3>1, <3>2, <3>8 DEF ByFile!TakeFile
    <3>10. QED BY <3>9 DEF ByFile!Next
  <2>7. QED BY <2>5, <2>6
<1>5. CASE AddTag
  <2>1. /\ pc = "tags" /\ n <= NumFiles /\ items[n] = n /\ n \in Files
        /\ ti <= Len(Data.tags)
        /\ tagged' = TagEntry(tagged, Data.tags[ti], Data.id)
        /\ ti' = ti + 1
        /\ UNCHANGED <<docs, pc, items, n, pos, buf, funcs, sections, index>>
    BY <1>0, <1>5 DEF AddTag, Walked
  <2>2. /\ Data' = Data /\ Data = docs[n].meta
        /\ Data.id \in Ids /\ Data.tags \in Seq(Tags)
    BY <2>1, DocFacts DEF Data
  <2>3. /\ ti \in 1..Len(Data.tags)
        /\ Data.tags[ti] \in Tags
    BY <2>1, <2>2, ElementOfSeq DEF TypeOK
  <2>4. Pending = {Data.tags[j] : j \in ti + 1..Len(Data.tags)} \cup {Data.tags[ti]}
    BY <2>1, <2>3 DEF Pending
  <2>5. Pending' = {Data.tags[j] : j \in ti + 1..Len(Data.tags)}
    BY <2>1, <2>2 DEF Pending
  <2>6. /\ TagSets = TagView(tagged, Pending, Data.id)
        /\ TagSets' = TagView(tagged', Pending', Data.id)
    BY <2>2 DEF TagSets, TagView
  <2>7. TagSets' = TagSets
    BY <1>0, <2>1, <2>2, <2>3, <2>4, <2>5, <2>6, TagViewShift
  <2>8. QED BY <2>1, <2>7 DEF ByFile!vars
<1>6. CASE EndTags
  <2>1. /\ pc = "tags" /\ n <= NumFiles /\ items[n] = n
        /\ ti > Len(Data.tags) /\ n' = n + 1 /\ pc' = "open"
        /\ UNCHANGED <<docs, items, funcs, tagged, sections, index>>
    BY <1>0, <1>6 DEF EndTags, Walked
  <2>2. ti \in Nat /\ Data.tags \in Seq(Tags)
    BY <1>0, <2>1, DocFacts DEF TypeOK, Data
  <2>3. Pending = {} /\ Pending' = {}
    BY <2>1, <2>2 DEF Pending
  <2>4. TagSets' = TagSets
    BY <2>1, <2>3 DEF TagSets
  <2>5. QED BY <2>1, <2>4 DEF ByFile!vars
<1>7. CASE WriteDocs
  <2>1. /\ pc = "open" /\ n > NumFiles /\ pc' = "done" /\ sections' = funcs
        /\ index' = [t \in DOMAIN tagged |-> IndexEntries(tagged[t], funcs)]
        /\ UNCHANGED <<docs, items, n, funcs, tagged>>
    BY <1>0, <1>7 DEF WriteDocs
  <2>2. TagSets' = TagSets /\ TagSets = [t \in DOMAIN tagged |-> Elems(tagged[t])]
    BY <2>1, NoPending DEF TagSets, Pending
  <2>3. index' = [t \in DOMAIN TagSets |->
                    {e \in TagSets[t] : e \in DOMAIN funcs["scalar_function"]
                                               \cup DOMAIN funcs["aggregate_function"]}]
    BY <2>1, <2>2 DEF IndexEntries
  <2>4. ByFile!Write
    BY <2>1, <2>2, <2>3 DEF ByFile!Write
  <2>5. QED BY <2>4 DEF ByFile!Next
<1>8. CASE UNCHANGED vars
  BY <1>8 DEF vars, ByFile!vars, TagSets, Pending, Data
<1>9. QED BY <1>1, <1>2, <1>3, <1>4, <1>5, <1>6, <1>7, <1>8 DEF Next

\* The initial state of main() is an initial state of the file-at-a-time
\* specification.
LEMMA InitRefine == Init => ByFile!Init
<1> SUFFICES ASSUME Init PROVE ByFile!Init
  OBVIOUS
<1>1. TagSets = << >>
  BY DEF Init, TagSets, Pending
<1>2. /\ docs \in [1..NumFiles -> DocChoices]
      /\ (IF pc \in {"done", "crashed"} THEN pc ELSE "run") = "run"
      /\ (IF pc = "tags" THEN n + 1 ELSE n) = 1
  BY DEF Init, Files
<1>3. /\ funcs = [t \in ByFile!DocTypes |-> << >>]
      /\ sections = [t \in ByFile!DocTypes |-> << >>]
      /\ index = << >>
  BY DEF Init, ByFile!DocTypes, DocTypes
<1>4. QED BY <1>1, <1>2, <1>3 DEF ByFile!Init

(***************************************************************************)
(* Every behaviour of generate.py, for every doc tree, is one of           *)
(* DocsGenerateFiles: reading the front matter line by line (lines 49-64)  *)
(* stores a file exactly when its front matter is delimited, decodes and   *)
(* names a known type, and the tag loop of lines 83-87 records the id      *)
(* under exactly the file's tags.                                          *)
(***************************************************************************)
THEOREM FileRefines == Spec => FileRefinement
<1>1. Spec => []FInv
  BY InitFInv, FInvStep, PTL DEF Spec
<1>2. QED BY <1>1, InitRefine, RefineStep, PTL DEF Spec, FileRefinement, ByFile!Spec
=============================================================================
