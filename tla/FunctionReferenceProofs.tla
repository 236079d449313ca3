----------------------- MODULE FunctionReferenceProofs -----------------------
(***************************************************************************)
(* Proofs about generate_function_reference.py for every catalogue.       *)
(*                                                                         *)
(* The index loop and the section loop walk the three function lists in   *)
(* the same order, one position (ki, k) at a time.  At every position the *)
(* lines written so far are the names of the lists before ki followed by  *)
(* the first k - 1 functions of list ki; when the section loop has ended  *)
(* the index loop had long ended at the same point, so the headings and   *)
(* the rows are the same names.  SectionsFollowIndex is not inductive by  *)
(* itself (it says nothing until pc = "done"): FRInv carries this         *)
(* description of the prefix written through both loops.                  *)
(***************************************************************************)
EXTENDS FunctionReference, SequenceTheorems, TLAPS

(* The names of a list of functions, as the markdown shows them.           *)
Names(s) == [j \in 1 .. Len(s) |-> s[j].name]

(* The first two lists of the loop over types o, one after the other.    *)
FirstTwo(o) == fns[o[1]] \o fns[o[2]]

(* The functions of the lists that the loop over types o has finished     *)
(* when it stands at list j.                                               *)
Before(o, j) ==
    CASE j = 1 -> << >>
      [] j = 2 -> fns[o[1]]
      [] j = 3 -> FirstTwo(o)

(* The functions a loop over types o has written at position (ki, k).      *)
WrittenBy(o) == Before(o, ki) \o SubSeq(fns[o[ki]], 1, k - 1)

(* Where the loop over types o stands in list ki.                          *)
InList(o) == k \in 1 .. Len(fns[o[ki]]) + 1

(* Types of the variables.                                                 *)
FRTypeOK ==
    /\ pc \in {"start", "index", "sections", "done", "crashed"}
    /\ fns \in [Kinds -> Seq(Fn)]
    /\ ki \in 1 .. 3
    /\ k \in Nat \ {0}
    /\ rows \in Seq(STRING)
    /\ heads \in Seq(STRING)

(* The lines written in each phase of main().                             *)
Written ==
    /\ pc = "start" => rows = << >> /\ heads = << >> /\ ki = 1 /\ k = 1
    /\ pc = "index" => InList(IndexOrder) /\ rows = Names(WrittenBy(IndexOrder))
                       /\ heads = << >>
    /\ pc = "sections" => InList(SectionOrder)
                          /\ heads = Names(WrittenBy(SectionOrder))
                          /\ rows = Names(Listed)
    /\ pc = "done" => heads = rows /\ rows = Names(Listed)

(***************************************************************************)
(* Lemmas on the operators.                                                *)
(***************************************************************************)

\* Writing one more function writes one more name.
LEMMA NamesAppend ==
    ASSUME NEW s \in Seq(Fn), NEW f \in Fn
    PROVE  Names(Append(s, f)) = Append(Names(s), f.name)
  BY DEF Names

\* The names of no functions are no lines.
LEMMA NamesEmpty == Names(<< >>) = << >>
  BY DEF Names

\* Advancing k by one in list s appends s[k] to what has been written.
LEMMA PrefixStep ==
    ASSUME NEW S, NEW b \in Seq(S), NEW s \in Seq(S), NEW j \in 1 .. Len(s)
    PROVE  b \o SubSeq(s, 1, j) = Append(b \o SubSeq(s, 1, j - 1), s[j])
<1>1. SubSeq(s, 1, j) = Append(SubSeq(s, 1, j - 1), s[j])
  OBVIOUS
<1>2. SubSeq(s, 1, j - 1) \in Seq(S)
  BY SubSeqProperties
<1>3. QED BY <1>1, <1>2

\* At the end of list s the prefix written is all of s.
LEMMA PrefixFull ==
    ASSUME NEW S, NEW b \in Seq(S), NEW s \in Seq(S)
    PROVE  b \o SubSeq(s, 1, Len(s)) = b \o s
  BY SubSeqFull

\* At the start of a list nothing of it is written.
LEMMA PrefixEmpty ==
    ASSUME NEW S, NEW b \in Seq(S), NEW s
    PROVE  b \o SubSeq(s, 1, 0) = b
  BY SubSeqEmpty, ConcatEmptySeq

\* A function on 1 .. n is a sequence.
LEMMA FunIsSeq ==
    ASSUME NEW S, NEW n \in Nat, NEW f \in [1 .. n -> S]
    PROVE  f \in Seq(S)
  OBVIOUS

\* Every answer of a catalogue query is a list of functions.
LEMMA QueryResultsTyped ==
    ASSUME NEW t \in Kinds
    PROVE  QueryResults(t) \subseteq Seq(Fn)
<1>1. Catalogue[t] \in Seq(STRING)
  BY CatalogueAssumption
<1>2. ASSUME NEW d \in [1 .. Len(Catalogue[t]) -> DescChoices]
      PROVE  [j \in 1 .. Len(Catalogue[t]) |-> [name |-> Catalogue[t][j], desc |-> d[j]]]
               \in Seq(Fn)
  <2>1. ASSUME NEW j \in 1 .. Len(Catalogue[t])
        PROVE  [name |-> Catalogue[t][j], desc |-> d[j]] \in Fn
    <3>1. Catalogue[t][j] \in STRING
      BY <1>1, ElementOfSeq
    <3>2. d[j] \in Descs
      BY DescChoicesAssumption
    <3>3. QED BY <3>1, <3>2, Zenon DEF Fn
  <2>2. Len(Catalogue[t]) \in Nat
    BY <1>1, LenProperties
  <2>3. [j \in 1 .. Len(Catalogue[t]) |-> [name |-> Catalogue[t][j], desc |-> d[j]]]
          \in [1 .. Len(Catalogue[t]) -> Fn]
    BY <2>1, Zenon
  <2>4. QED BY <2>2, <2>3, FunIsSeq
<1>3. \A d \in [1 .. Len(Catalogue[t]) -> DescChoices] :
        [j \in 1 .. Len(Catalogue[t]) |-> [name |-> Catalogue[t][j], desc |-> d[j]]]
          \in Seq(Fn)
  BY <1>2
<1>4. << >> \in Seq(Fn)
  OBVIOUS
<1>5. QED BY <1>3, <1>4, Zenon DEF QueryResults

\* The two loops walk the lists in one of the two orders of main().
Orders == {IndexOrder, SectionOrder}

\* What the loops have finished is a list of functions, and finishing list
\* j adds it to what lies before list j + 1; after the third list the loop
\* has finished all of Listed.
LEMMA BeforeLists ==
    ASSUME NEW o \in Orders, fns \in [Kinds -> Seq(Fn)]
    PROVE  /\ \A j \in 1 .. 3 : Before(o, j) \in Seq(Fn) /\ fns[o[j]] \in Seq(Fn)
           /\ \A j \in 1 .. 2 : Before(o, j + 1) = Before(o, j) \o fns[o[j]]
           /\ Before(o, 3) \o fns[o[3]] = Listed
<1>1. \A j \in 1 .. 3 : o[j] \in Kinds
  BY DEF Orders, IndexOrder, SectionOrder, Kinds
<1>2. \A j \in 1 .. 3 : fns[o[j]] \in Seq(Fn)
  BY <1>1
<1>7. FirstTwo(o) \in Seq(Fn)
  BY <1>2, ConcatProperties DEF FirstTwo
<1>8. \A j \in 1 .. 3 : Before(o, j) \in Seq(Fn)
  BY <1>2, <1>7 DEF Before
<1>3. Before(o, 2) = Before(o, 1) \o fns[o[1]]
  <2>1. fns[o[1]] \in Seq(Fn)
    BY <1>2
  <2>2. QED BY <2>1, ConcatEmptySeq DEF Before
<1>4. Before(o, 3) = Before(o, 2) \o fns[o[2]]
  <2>1. Before(o, 3) = FirstTwo(o)
    BY DEF Before
  <2>2. Before(o, 2) = fns[o[1]]
    BY DEF Before
  <2>3. QED BY <2>1, <2>2, Zenon DEF FirstTwo
<1>5. Before(o, 3) \o fns[o[3]] = Listed
  <2>1. o = <<"scalar", "aggregate", "table">>
    BY DEF Orders, IndexOrder, SectionOrder
  <2>2. Before(o, 3) = fns["scalar"] \o fns["aggregate"]
    <3>1. Before(o, 3) = FirstTwo(o)
      BY DEF Before
    <3>2. QED BY <2>1, <3>1, Zenon DEF FirstTwo
  <2>3. fns[o[3]] = fns["table"]
    BY <2>1
  <2>4. QED BY <2>2, <2>3, Zenon DEF Listed
<1>6. QED BY <1>2, <1>8, <1>3, <1>4, <1>5

\* One more function of list ki written: its name is appended.
LEMMA WriteOne ==
    ASSUME FRTypeOK, NEW o \in Orders, k <= Len(fns[o[ki]])
    PROVE  Append(Names(WrittenBy(o)), Current(o).name)
             = Names(Before(o, ki) \o SubSeq(fns[o[ki]], 1, k))
<1>1. Before(o, ki) \in Seq(Fn) /\ fns[o[ki]] \in Seq(Fn)
  BY BeforeLists DEF FRTypeOK
<1>2. k \in 1 .. Len(fns[o[ki]])
  BY DEF FRTypeOK
<1>3. Before(o, ki) \o SubSeq(fns[o[ki]], 1, k)
        = Append(WrittenBy(o), fns[o[ki]][k])
  BY <1>1, <1>2, PrefixStep DEF WrittenBy
<1>4. WrittenBy(o) \in Seq(Fn) /\ fns[o[ki]][k] \in Fn
  BY <1>1, <1>2, SubSeqProperties, ConcatProperties DEF WrittenBy
<1>5. QED BY <1>3, <1>4, NamesAppend DEF Current

\* At the end of list ki, what has been written is everything before
\* list ki + 1, or all of Listed after the third list.
LEMMA EndOfList ==
    ASSUME FRTypeOK, NEW o \in Orders, k = Len(fns[o[ki]]) + 1
    PROVE  /\ ki < 3 => WrittenBy(o) = Before(o, ki + 1) \o SubSeq(fns[o[ki + 1]], 1, 0)
           /\ ki = 3 => WrittenBy(o) = Listed
<1>1. Before(o, ki) \in Seq(Fn) /\ fns[o[ki]] \in Seq(Fn)
  BY BeforeLists DEF FRTypeOK
<1>2. WrittenBy(o) = Before(o, ki) \o fns[o[ki]]
  BY <1>1, PrefixFull DEF WrittenBy
<1>3. ASSUME ki < 3 PROVE WrittenBy(o) = Before(o, ki + 1) \o SubSeq(fns[o[ki + 1]], 1, 0)
  <2>1. ki \in 1 .. 2 /\ ki + 1 \in 1 .. 3
    BY <1>3 DEF FRTypeOK
  <2>2. Before(o, ki + 1) \in Seq(Fn) /\ Before(o, ki + 1) = Before(o, ki) \o fns[o[ki]]
    BY <2>1, BeforeLists DEF FRTypeOK
  <2>3. QED BY <1>2, <2>2, PrefixEmpty
<1>4. ki = 3 => WrittenBy(o) = Listed
  BY <1>2, BeforeLists DEF FRTypeOK
<1>5. QED BY <1>3, <1>4

\* While the lists stay as the queries returned them, what a loop has
\* written is read off its position.
LEMMA WrittenAt ==
    ASSUME NEW o \in Orders, fns' = fns
    PROVE  /\ Names(WrittenBy(o))'
                = Names(Before(o, ki') \o SubSeq(fns[o[ki']], 1, k' - 1))
           /\ Names(Listed)' = Names(Listed)
           /\ InList(o)' <=> k' \in 1 .. Len(fns[o[ki']]) + 1
  BY DEF WrittenBy, Before, FirstTwo, Listed, Names, InList

\* The functions of the current list are functions.
LEMMA CurrentIsFn ==
    ASSUME FRTypeOK, NEW o \in Orders, k <= Len(fns[o[ki]])
    PROVE  Current(o) \in Fn
<1>1. fns[o[ki]] \in Seq(Fn)
  BY BeforeLists DEF FRTypeOK
<1>2. QED BY <1>1 DEF FRTypeOK, Current

(* The inductive invariant.                                                *)
FRInv == FRTypeOK /\ Written

LEMMA FRStep == FRInv /\ [Next]_vars => FRInv'
<1> SUFFICES ASSUME FRTypeOK, Written, [Next]_vars
             PROVE  FRTypeOK' /\ Written'
  BY DEF FRInv
<1>0. /\ IndexOrder \in Orders /\ SectionOrder \in Orders
      /\ \A o \in Orders : \A j \in 1 .. 3 : Len(fns[o[j]]) \in Nat
  <2>1. IndexOrder \in Orders /\ SectionOrder \in Orders
    BY DEF Orders
  <2>2. ASSUME NEW o \in Orders, NEW j \in 1 .. 3
        PROVE  Len(fns[o[j]]) \in Nat
    <3>1. fns[o[j]] \in Seq(Fn)
      BY BeforeLists DEF FRTypeOK
    <3>2. QED BY <3>1, LenProperties
  <2>3. QED BY <2>1, <2>2
<1>1. CASE Collect
  <2>1. pc = "start" /\ pc' = "index" /\ UNCHANGED <<ki, k, rows, heads>>
    BY <1>1 DEF Collect
  <2>2. fns' \in [Kinds -> Seq(Fn)]
    <3>1. \A t \in Kinds : fns'[t] \in QueryResults(t)
      BY <1>1 DEF Collect
    <3>2. QED BY <1>1, <3>1, QueryResultsTyped DEF Collect
  <2>3. ki = 1 /\ k = 1 /\ rows = << >> /\ heads = << >>
    BY <2>1 DEF Written
  <2>4. rows' = Names(WrittenBy(IndexOrder))'
    <3>1. WrittenBy(IndexOrder)' = << >> \o SubSeq(fns'[IndexOrder[1]], 1, 0)
      BY <2>1, <2>3 DEF WrittenBy, Before
    <3>2. WrittenBy(IndexOrder)' = << >>
      BY <3>1, PrefixEmpty
    <3>3. QED BY <2>1, <2>3, <3>2, NamesEmpty DEF Names
  <2>5. InList(IndexOrder)'
    <3>1. Len(fns'[IndexOrder[1]]) \in Nat
      BY <2>2 DEF IndexOrder, Kinds
    <3>2. QED BY <2>1, <2>3, <3>1 DEF InList
  <2>6. FRTypeOK'
    BY <2>1, <2>2 DEF FRTypeOK
  <2>7. QED BY <2>1, <2>3, <2>4, <2>5, <2>6 DEF Written
<1>2. CASE TocRow
  <2>1. pc = "index" /\ k <= Len(fns[IndexOrder[ki]]) /\ UNCHANGED <<fns, ki, heads>>
    BY <1>2 DEF TocRow
  <2>2. CASE SummaryOk(Current(IndexOrder))
    <3>1. rows' = Append(rows, Current(IndexOrder).name) /\ k' = k + 1 /\ pc' = pc
      BY <1>2, <2>2 DEF TocRow
    <3>2. rows = Names(WrittenBy(IndexOrder)) /\ heads = << >>
      BY <2>1 DEF Written
    <3>3. Names(WrittenBy(IndexOrder))'
            = Names(Before(IndexOrder, ki) \o SubSeq(fns[IndexOrder[ki]], 1, k))
      <4>1. ki' = ki /\ k' - 1 = k
        BY <2>1, <3>1 DEF FRTypeOK
      <4>2. QED BY <1>0, <2>1, <4>1, WrittenAt
    <3>4. rows' = Names(WrittenBy(IndexOrder))'
      BY <1>0, <2>1, <3>1, <3>2, <3>3, WriteOne
    <3>5. Current(IndexOrder).name \in STRING
      <4>1. Current(IndexOrder) \in Fn
        BY <1>0, <2>1, CurrentIsFn
      <4>2. QED BY <4>1 DEF Fn
    <3>6. InList(IndexOrder)'
      BY <1>0, <2>1, <3>1, WrittenAt DEF FRTypeOK
    <3>7. FRTypeOK'
      BY <2>1, <3>1, <3>5 DEF FRTypeOK
    <3>8. QED BY <2>1, <3>1, <3>2, <3>4, <3>6, <3>7 DEF Written
  <2>3. CASE ~SummaryOk(Current(IndexOrder))
    BY <1>2, <2>1, <2>3 DEF TocRow, Written, FRTypeOK
  <2>4. QED BY <2>2, <2>3
<1>3. CASE Section
  <2>1. pc = "sections" /\ k <= Len(fns[SectionOrder[ki]]) /\ UNCHANGED <<fns, ki, rows>>
    BY <1>3 DEF Section
  <2>2. CASE SummaryOk(Current(SectionOrder))
    <3>1. heads' = Append(heads, Current(SectionOrder).name) /\ k' = k + 1 /\ pc' = pc
      BY <1>3, <2>2 DEF Section
    <3>2. heads = Names(WrittenBy(SectionOrder)) /\ rows = Names(Listed)
      BY <2>1 DEF Written
    <3>3. Names(WrittenBy(SectionOrder))'
            = Names(Before(SectionOrder, ki) \o SubSeq(fns[SectionOrder[ki]], 1, k))
      <4>1. ki' = ki /\ k' - 1 = k
        BY <2>1, <3>1 DEF FRTypeOK
      <4>2. QED BY <1>0, <2>1, <4>1, WrittenAt
    <3>4. heads' = Names(WrittenBy(SectionOrder))'
      BY <1>0, <2>1, <3>1, <3>2, <3>3, WriteOne
    <3>5. rows' = Names(Listed)'
      BY <1>0, <2>1, <3>2, WrittenAt
    <3>6. Current(SectionOrder).name \in STRING
      <4>1. Current(SectionOrder) \in Fn
        BY <1>0, <2>1, CurrentIsFn
      <4>2. QED BY <4>1 DEF Fn
    <3>7. InList(SectionOrder)'
      BY <1>0, <2>1, <3>1, WrittenAt DEF FRTypeOK
    <3>8. FRTypeOK'
      BY <2>1, <3>1, <3>6 DEF FRTypeOK
    <3>9. QED BY <2>1, <3>1, <3>4, <3>5, <3>7, <3>8 DEF Written
  <2>3. CASE ~SummaryOk(Current(SectionOrder))
    BY <1>3, <2>1, <2>3 DEF Section, Written, FRTypeOK
  <2>4. QED BY <2>2, <2>3
<1>4. CASE NextList
  <2>1. k' = 1 /\ UNCHANGED <<fns, rows, heads>>
    BY <1>4 DEF NextList
  \* Moving to list ki + 1 of the loop over o keeps what it has written.
  <2>2. \A o \in Orders :
          ki < 3 /\ ki' = ki + 1 /\ k = Len(fns[o[ki]]) + 1
            => /\ Names(WrittenBy(o))' = Names(WrittenBy(o))
               /\ InList(o)'
    <3> SUFFICES ASSUME NEW o \in Orders, ki < 3, ki' = ki + 1,
                        k = Len(fns[o[ki]]) + 1
                 PROVE  Names(WrittenBy(o))' = Names(WrittenBy(o)) /\ InList(o)'
      OBVIOUS
    <3>1. WrittenBy(o) = Before(o, ki + 1) \o SubSeq(fns[o[ki + 1]], 1, 0)
      BY EndOfList
    <3>2. Names(WrittenBy(o))'
            = Names(Before(o, ki + 1) \o SubSeq(fns[o[ki + 1]], 1, 0))
      <4>1. k' - 1 = 0
        BY <2>1
      <4>2. QED BY <2>1, <4>1, WrittenAt
    <3>3. InList(o)'
      <4>1. ki + 1 \in 1 .. 3
        BY DEF FRTypeOK
      <4>2. QED BY <1>0, <2>1, <4>1, WrittenAt
    <3>4. QED BY <3>1, <3>2, <3>3
  \* Starting a loop over o from its first list: nothing of it written.
  <2>3. \A o \in Orders :
          ki' = 1 => Names(WrittenBy(o))' = << >> /\ InList(o)'
    <3> SUFFICES ASSUME NEW o \in Orders, ki' = 1
                 PROVE  Names(WrittenBy(o))' = << >> /\ InList(o)'
      OBVIOUS
    <3>1. Names(WrittenBy(o))' = Names(Before(o, 1) \o SubSeq(fns[o[1]], 1, 0))
      <4>1. k' - 1 = 0
        BY <2>1
      <4>2. QED BY <2>1, <4>1, WrittenAt
    <3>2. Before(o, 1) \o SubSeq(fns[o[1]], 1, 0) = << >>
      <4>1. Before(o, 1) = << >>
        BY DEF Before
      <4>2. QED BY <4>1, PrefixEmpty
    <3>3. InList(o)'
      BY <1>0, <2>1, WrittenAt
    <3>4. QED BY <3>1, <3>2, <3>3, NamesEmpty
  <2>4. CASE pc = "index" /\ k > Len(fns[IndexOrder[ki]])
    <3>1. rows = Names(WrittenBy(IndexOrder)) /\ heads = << >>
          /\ k = Len(fns[IndexOrder[ki]]) + 1
      BY <2>4 DEF Written, InList
    <3>2. CASE ki < 3
      <4>1. ki' = ki + 1 /\ pc' = "index"
        BY <1>4, <2>4, <3>2 DEF NextList
      <4>2. rows' = Names(WrittenBy(IndexOrder))' /\ InList(IndexOrder)'
        BY <1>0, <2>1, <2>2, <3>1, <3>2, <4>1
      <4>3. QED BY <2>1, <3>1, <3>2, <4>1, <4>2 DEF Written, FRTypeOK
    <3>3. CASE ~(ki < 3)
      <4>1. ki = 3 /\ ki' = 1 /\ pc' = "sections"
        BY <1>4, <2>4, <3>3 DEF NextList, FRTypeOK
      <4>2. rows' = Names(Listed)'
        BY <1>0, <2>1, <3>1, <4>1, EndOfList, WrittenAt
      <4>3. heads' = Names(WrittenBy(SectionOrder))' /\ InList(SectionOrder)'
        BY <1>0, <2>1, <2>3, <3>1, <4>1
      <4>4. QED BY <2>1, <4>1, <4>2, <4>3 DEF Written, FRTypeOK
    <3>4. QED BY <3>2, <3>3
  <2>5. CASE pc = "sections" /\ k > Len(fns[SectionOrder[ki]])
    <3>1. heads = Names(WrittenBy(SectionOrder)) /\ rows = Names(Listed)
          /\ k = Len(fns[SectionOrder[ki]]) + 1
      BY <2>5 DEF Written, InList
    <3>2. CASE ki < 3
      <4>1. ki' = ki + 1 /\ pc' = "sections"
        BY <1>4, <2>5, <3>2 DEF NextList
      <4>2. heads' = Names(WrittenBy(SectionOrder))' /\ InList(SectionOrder)'
        BY <1>0, <2>1, <2>2, <3>1, <3>2, <4>1
      <4>3. rows' = Names(Listed)'
        BY <1>0, <2>1, <3>1, WrittenAt
      <4>4. QED BY <2>1, <3>2, <4>1, <4>2, <4>3 DEF Written, FRTypeOK
    <3>3. CASE ~(ki < 3)
      <4>1. ki = 3 /\ ki' = 1 /\ pc' = "done"
        BY <1>4, <2>5, <3>3 DEF NextList, FRTypeOK
      <4>2. heads = rows
        BY <1>0, <3>1, <4>1, EndOfList
      <4>3. rows' = Names(Listed)'
        BY <1>0, <2>1, <3>1, WrittenAt
      <4>4. QED BY <2>1, <4>1, <4>2, <4>3 DEF Written, FRTypeOK
    <3>4. QED BY <3>2, <3>3
  <2>6. QED BY <1>4, <2>4, <2>5 DEF NextList
<1>5. CASE UNCHANGED vars
  <2>1. UNCHANGED <<pc, fns, ki, k, rows, heads>>
    BY <1>5 DEF vars
  <2>2. \A o \in Orders : Names(WrittenBy(o))' = Names(WrittenBy(o)) /\ InList(o)' = InList(o)
    BY <2>1, WrittenAt DEF WrittenBy, InList
  <2>3. Names(Listed)' = Names(Listed)
    BY <2>1, WrittenAt, <1>0
  <2>4. QED BY <1>0, <2>1, <2>2, <2>3 DEF Written, FRTypeOK
<1>6. QED BY <1>1, <1>2, <1>3, <1>4, <1>5 DEF Next

LEMMA InitFRInv == Init => FRInv
  BY DEF Init, FRInv, FRTypeOK, Written, Kinds

\* Whatever the three catalogue queries return, a functions.md that the
\* script completes has one section per row of the function index, in
\* the index's order: the section loop walks the lists in the order the
\* index loop did, one heading per row.
THEOREM SectionsFollowIndexHolds == Spec => []SectionsFollowIndex
<1>1. FRInv => SectionsFollowIndex
  BY DEF FRInv, Written, SectionsFollowIndex, Names
<1>2. QED BY <1>1, InitFRInv, FRStep, PTL DEF Spec
=============================================================================
