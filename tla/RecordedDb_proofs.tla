------------------------- MODULE RecordedDb_proofs --------------------------
(***************************************************************************)
(* Proofs about RecordedDb, for any finite set of searches.                *)
(***************************************************************************)
EXTENDS RecordedDb, FiniteSetTheorems, WellFoundedInduction, TLAPS

\* Erased records lie under a choice point, and the list knows of them.
Dirty == erased # {} => dirty /\ references # 0

\* Choice points belong to searches in their checks.
ChoicesInCheck ==
    \A s \in Searches :
        /\ choice[s] # NoRecord => pc[s] \in Checks \ {"recorded"}
        /\ pc[s] \in {"cut", "redo"} => choice[s] # NoRecord

\* Where what was recorded before a search began may still be, as its check goes on.
Ahead ==
    \A s \in Searches :
        /\ since[s] <= made
        /\ pc[s] \in {"erase", "erasing", "redo"} =>
             \A r \in Live : r <= since[s] =>
                 \/ r <= choice[s]
                 \/ r = found[s] /\ pc[s] # "redo"

\* A search that has met no other has its record to itself.
Alone ==
    \A s \in Searches : pc[s] \in Checks /\ s \notin met =>
        /\ \A t \in Searches : pc[t] \in Checks => t = s
        /\ pc[s] \in {"erase", "erasing"} => found[s] \in Live

Inv == /\ TypeOK /\ ChoicePointsHold /\ Dirty /\ ChoicesInCheck
       /\ Ahead /\ CheckForgetsAll /\ Alone /\ FailureNeedsRival

-----------------------------------------------------------------------------
(***************************************************************************)
(* Sets of records and of choice points.                                   *)
(***************************************************************************)

\* A set of records that is not empty has a youngest.
LEMMA MaxRecord ==
    ASSUME NEW n \in Nat, NEW S \in SUBSET (1 .. n), S # {}
    PROVE  /\ Max(S) \in S
           /\ \A r \in S : r <= Max(S)
<1> DEFINE above(r) == {q \in S : q > r}
           order == StrictSubsetOrdering(S)
<1>1. IsWellFoundedOn(order, FiniteSubsetsOf(S))
  BY FS_StrictSubsetOrderingWellFounded
<1>2. {above(r) : r \in S} \subseteq FiniteSubsetsOf(S)
  <2>1. IsFiniteSet(S)
    <3>1. IsFiniteSet(1 .. n)
      BY FS_Interval
    <3> QED
      BY <3>1, FS_Subset
  <2> QED
    BY <2>1, FS_Subset DEF FiniteSubsetsOf
<1>3. PICK T \in {above(r) : r \in S} :
          \A U \in {above(r) : r \in S} : <<U, T>> \notin order
  <2>1. {above(r) : r \in S} # {}
    OBVIOUS
  <2> HIDE DEF above, order
  <2> QED
    BY <1>1, <1>2, <2>1, WFMin
<1>4. PICK m \in S : T = above(m)
  OBVIOUS
<1>a. \A r \in S : m >= r
  <2> SUFFICES ASSUME NEW r \in S, r > m PROVE FALSE
    OBVIOUS
  <2>1. above(r) \subseteq above(m) /\ r \in above(m) /\ r \notin above(r)
    <3>1. \A q \in S : q \in Int
      OBVIOUS
    <3>2. r \in above(m)
      OBVIOUS
    <3>3. r \notin above(r)
      BY <3>1
    <3>4. \A q \in S : q > r => q > m
      BY <3>1
    <3> QED
      BY <3>2, <3>3, <3>4
  <2>2. <<above(r), above(m)>> \in order
    BY <2>1 DEF StrictSubsetOrdering
  <2> QED
    BY <2>2, <1>3, <1>4
<1>5. \E x \in S : \A y \in S : x >= y
  BY <1>a
<1> QED
  BY <1>5 DEF Max

\* Searches are finite, so choice points can be counted.
LEMMA ChoicesFinite ==
    ASSUME NEW S \in SUBSET Searches
    PROVE  IsFiniteSet(S) /\ Cardinality(S) \in Nat
BY SearchesAssumption, FS_Subset, FS_CardinalityType

\* No choice point is left when the count says so.
LEMMA CountZero ==
    ASSUME NEW S \in SUBSET Searches
    PROVE  Cardinality(S) = 0 <=> S = {}
BY ChoicesFinite, FS_EmptySet

LEMMA CountAdd ==
    ASSUME NEW S \in SUBSET Searches, NEW s \in Searches
    PROVE  Cardinality(S \cup {s}) = IF s \in S THEN Cardinality(S) ELSE Cardinality(S) + 1
BY ChoicesFinite, FS_AddElement

LEMMA CountRemove ==
    ASSUME NEW S \in SUBSET Searches, NEW s \in Searches
    PROVE  Cardinality(S \ {s}) = IF s \in S THEN Cardinality(S) - 1 ELSE Cardinality(S)
BY ChoicesFinite, FS_RemoveElement

-----------------------------------------------------------------------------
LEMMA InitInv == Init => Inv
<1> SUFFICES ASSUME Init PROVE Inv
  OBVIOUS
<1>1. TypeOK
  <2>1. /\ records \subseteq 1 .. made /\ erased \subseteq records
        /\ references \in Int /\ dirty \in BOOLEAN /\ made \in Nat
    <3>1. records = {} /\ erased = {} /\ references = 0 /\ dirty = FALSE /\ made = 0
      BY DEF Init
    <3>2. records \subseteq 1 .. made /\ erased \subseteq records
      BY <3>1
    <3>3. references \in Int /\ made \in Nat
      BY <3>1
    <3> QED
      BY <3>1, <3>2, <3>3
  <2>2. /\ pc \in [Searches -> Checks \cup {"begin", "record", "done", "failed"}]
        /\ found \in [Searches -> Nat] /\ choice \in [Searches -> Nat]
        /\ crashed \in BOOLEAN
        /\ since \in [Searches -> Nat] /\ met \subseteq Searches
    BY DEF Init, NoRecord
  <2> QED
    BY <2>1, <2>2 DEF TypeOK
<1>b. Dirty
  BY DEF Init, Dirty
<1>a. ChoicesInCheck /\ Ahead /\ CheckForgetsAll /\ Alone /\ FailureNeedsRival
  BY DEF Init, ChoicesInCheck, Ahead, CheckForgetsAll, Alone, FailureNeedsRival,
         Checks, NoRecord
<1>2. WithChoice = {}
  BY DEF Init, WithChoice
<1>3. ChoicePointsHold
  BY <1>2, FS_EmptySet DEF Init, ChoicePointsHold
<1> QED
  BY <1>1, <1>a, <1>b, <1>3 DEF Inv

\* A choice point that goes, of those that are there and the one that the search
\* may have been about to make.
LEMMA DropChoice ==
    ASSUME Inv, NEW s \in Searches, NEW held,
           held = Cardinality(WithChoice \cup {s}),
           Drop(held), dirty' = dirty, made' = made,
           choice' = [choice EXCEPT ![s] = NoRecord]
    PROVE  /\ ChoicePointsHold' /\ Dirty'
           /\ Live' = Live
           /\ records' \in SUBSET records /\ erased' \in SUBSET records' /\ references' \in Int
<1>1. WithChoice' = WithChoice \ {s} /\ WithChoice \in SUBSET Searches
  BY DEF Inv, TypeOK, WithChoice, NoRecord
<1>2. /\ Cardinality(WithChoice') = Cardinality((WithChoice \cup {s}) \ {s})
      /\ WithChoice \cup {s} \in SUBSET Searches
  <2>1. (WithChoice \cup {s}) \ {s} = WithChoice \ {s}
    OBVIOUS
  <2> QED
    BY <1>1, <2>1
<1>3. references' = Cardinality(WithChoice') /\ references' \in Int
  BY <1>2, CountRemove, ChoicesFinite DEF Drop
<1>4. Live' = Live /\ records' \in SUBSET records /\ erased' \in SUBSET records'
  BY DEF Drop, Live, Inv, TypeOK
<1>5. \A t \in WithChoice' : choice'[t] \in records'
  <2>1. CASE held = 1
    <3>1. references' = 0
      BY <2>1 DEF Drop
    <3> QED
      BY <3>1, <1>3, <1>1, CountZero
  <2>2. CASE held # 1
    <3>1. records' = records
      BY <2>2 DEF Drop
    <3> QED
      BY <3>1, <1>1 DEF Inv, TypeOK, ChoicePointsHold, WithChoice
  <2> QED
    BY <2>1, <2>2
<1>6. Dirty'
  <2>1. held \in Int
    BY <1>2, ChoicesFinite
  <2>2. CASE held = 1
    BY <2>2 DEF Drop, Dirty, Inv
  <2>3. CASE held # 1
    <3>1. references' # 0 /\ erased' = erased
      BY <2>1, <2>3 DEF Drop
    <3> QED
      BY <3>1 DEF Dirty, Inv
  <2> QED
    BY <2>2, <2>3
<1> QED
  BY <1>3, <1>4, <1>5, <1>6 DEF ChoicePointsHold

\* recorded/3 from a record that is not behind what the search has to forget.
LEMMA ScanInv ==
    ASSUME Inv, NEW s \in Searches, NEW from \in Nat, NEW held,
           pc[s] \in {"recorded", "redo"},
           held = Cardinality(WithChoice \cup {s}),
           \A r \in Live : r <= since[s] => r <= from,
           Scan(s, from, held), UNCHANGED <<dirty, made, crashed, since, met>>,
           ~crashed
    PROVE  Inv'
<1> DEFINE ahead == {r \in Live : r <= from}
           r == Max(ahead)
           next == {n \in records : n < r}
<1> USE DEF Checks, NoRecord
<1>t. /\ TypeOK /\ made \in Nat /\ records \in SUBSET (1 .. made)
      /\ Live \in SUBSET records /\ ahead \in SUBSET (1 .. made)
  BY DEF Inv, TypeOK, Live
<1>1. CASE ahead = {}
  <2>1. /\ Drop(held) /\ choice' = [choice EXCEPT ![s] = 0]
        /\ pc' = [pc EXCEPT ![s] = "record"] /\ found' = found
    BY <1>1 DEF Scan, Goto
  <2>2. ChoicePointsHold' /\ Dirty' /\ Live' = Live /\ TypeOK'
    BY <2>1, <1>t, DropChoice DEF TypeOK
  <2>3. \A q \in Live : q > since[s]
    BY <1>1, <1>t DEF TypeOK
  <2>4. CheckForgetsAll' /\ Ahead'
    BY <2>1, <2>2, <2>3, <1>t DEF CheckForgetsAll, Ahead, Inv, TypeOK
  <2>5. ChoicesInCheck' /\ Alone' /\ FailureNeedsRival'
    BY <2>1, <2>2, <1>t DEF ChoicesInCheck, Alone, FailureNeedsRival, Inv, TypeOK
  <2> QED
    BY <2>2, <2>4, <2>5 DEF Inv
<1>2. CASE ahead # {}
  <2>r. r \in ahead /\ (\A q \in ahead : q <= r) /\ r \in Nat /\ r \in records
    <3>1. r \in ahead /\ \A q \in ahead : q <= r
      <4>1. made \in Nat /\ ahead \in SUBSET (1 .. made) /\ ahead # {}
        BY <1>2, <1>t
      <4> HIDE DEF ahead
      <4> QED
        BY <4>1, MaxRecord
    <3>2. \A q \in ahead : q \in records /\ q \in Nat
      BY <1>t
    <3> HIDE DEF ahead, r
    <3> QED
      BY <3>1, <3>2
  <2>1. found' = [found EXCEPT ![s] = r] /\ pc' = [pc EXCEPT ![s] = "erase"]
    BY <1>2 DEF Scan, Goto
  <2>2. CASE next = {}
    <3>1. Drop(held) /\ choice' = [choice EXCEPT ![s] = 0]
      BY <1>2, <2>2 DEF Scan
    <3>2. ChoicePointsHold' /\ Dirty' /\ Live' = Live /\ TypeOK'
      BY <2>1, <2>r, <3>1, <1>t, DropChoice DEF TypeOK
    <3>3. \A q \in Live : q <= since[s] => q = r
      <4> SUFFICES ASSUME NEW q \in Live, q <= since[s] PROVE q = r
        OBVIOUS
      <4>1. q \in ahead /\ q \in records /\ q \in Nat
        BY <1>t
      <4>2. q <= r /\ ~(q < r)
        BY <4>1, <2>2, <2>r
      <4> QED
        BY <4>1, <4>2, <2>r
    <3>4. CheckForgetsAll' /\ Ahead'
      BY <2>1, <3>1, <3>2, <3>3, <1>t DEF CheckForgetsAll, Ahead, Inv, TypeOK
    <3>5. r \in Live
      BY <2>r
    <3>6. ChoicesInCheck' /\ FailureNeedsRival'
      BY <2>1, <3>1, <1>t DEF ChoicesInCheck, FailureNeedsRival, Inv, TypeOK
    <3>7. Alone'
      BY <2>1, <3>2, <3>5, <1>t DEF Alone, Inv, TypeOK
    <3> QED
      BY <3>2, <3>4, <3>6, <3>7 DEF Inv
  <2>3. CASE next # {}
    <3>1. /\ choice' = [choice EXCEPT ![s] = Max(next)]
          /\ references' = held /\ records' = records /\ erased' = erased
      BY <1>2, <2>3 DEF Scan
    <3>2. next \in SUBSET (1 .. made)
      BY <1>t
    <3>3. /\ Max(next) \in records /\ Max(next) \in Nat /\ Max(next) # 0
          /\ \A q \in records : q < r => q <= Max(next)
      <4>1. Max(next) \in next /\ \A q \in next : q <= Max(next)
        <5>1. made \in Nat /\ next # {}
          BY <2>3, <1>t
        <5> HIDE DEF next
        <5> QED
          BY <5>1, <3>2, MaxRecord
      <4> DEFINE top == Max(next)
      <4>2. top \in records /\ \A q \in records : q < r => q <= top
        BY <4>1
      <4> HIDE DEF top
      <4>3. top \in Nat /\ top # 0
        BY <4>2, <1>t
      <4> QED
        BY <4>2, <4>3 DEF top
    <3>4. WithChoice' = WithChoice \cup {s} /\ WithChoice \cup {s} \in SUBSET Searches
      BY <3>1, <3>3, <1>t DEF WithChoice, TypeOK
    <3>5. TypeOK'
      BY <2>1, <2>r, <3>1, <3>3, <3>4, <1>t, ChoicesFinite DEF TypeOK
    <3>6. ChoicePointsHold'
      BY <3>1, <3>3, <3>4, <1>t DEF ChoicePointsHold, WithChoice, Inv, TypeOK
    <3>7. Dirty'
      <4>1. references' # 0
        BY <3>1, <3>4, CountZero
      <4> QED
        BY <3>1, <4>1 DEF Dirty, Inv
    <3>8. \A q \in Live : q <= since[s] => q <= Max(next) \/ q = r
      <4> SUFFICES ASSUME NEW q \in Live, q <= since[s] PROVE q <= Max(next) \/ q = r
        OBVIOUS
      <4>1. q \in ahead /\ q \in records /\ q \in Nat
        BY <1>t
      <4>2. q <= r
        BY <4>1, <2>r
      <4> QED
        BY <4>1, <4>2, <2>r, <3>3
    <3>9. CheckForgetsAll' /\ Ahead'
      BY <2>1, <3>1, <3>8, <1>t DEF CheckForgetsAll, Ahead, Inv, TypeOK, Live
    <3>10. ChoicesInCheck' /\ Alone' /\ FailureNeedsRival'
      BY <2>1, <2>r, <3>1, <3>3, <1>t DEF ChoicesInCheck, Alone, FailureNeedsRival, Inv, TypeOK, Live
    <3> QED
      BY <3>5, <3>6, <3>7, <3>9, <3>10 DEF Inv
  <2> QED
    BY <2>2, <2>3
<1> QED
  BY <1>1, <1>2
-----------------------------------------------------------------------------
(***************************************************************************)
(* Every step keeps the invariant.                                         *)
(***************************************************************************)

\* Steps that change neither the list nor the choice points.
LEMMA BeginInv ==
    ASSUME Inv, NEW s \in Searches, BeginCheck(s) PROVE Inv'
<1> USE DEF Checks, NoRecord
<1>1. /\ pc[s] = "begin" /\ pc' = [pc EXCEPT ![s] = "recorded"]
      /\ since' = [since EXCEPT ![s] = made]
      /\ UNCHANGED <<records, erased, references, dirty, made, found, choice, crashed>>
  BY DEF BeginCheck, Goto, dbVars
<1>2. met \subseteq met' /\ met' \subseteq Searches
  BY DEF BeginCheck, Checking, Inv, TypeOK
<1>3. TypeOK'
  BY <1>1, <1>2 DEF Inv, TypeOK
<1>4. ChoicePointsHold' /\ Dirty' /\ ChoicesInCheck'
  BY <1>1 DEF Inv, TypeOK, ChoicePointsHold, WithChoice, Dirty, ChoicesInCheck
<1>5. Ahead' /\ CheckForgetsAll'
  BY <1>1 DEF Inv, TypeOK, Ahead, CheckForgetsAll, Live
<1>6. Alone'
  <2>1. CASE Checking = {}
    BY <2>1, <1>1 DEF Inv, TypeOK, Alone, Checking
  <2>2. CASE Checking # {}
    <3>1. \A t \in Searches : pc'[t] \in Checks => t \in met'
      BY <2>2, <1>1 DEF BeginCheck, Checking, Inv, TypeOK
    <3> QED
      BY <3>1 DEF Alone
  <2> QED
    BY <2>1, <2>2
<1>7. FailureNeedsRival'
  BY <1>1, <1>2 DEF Inv, TypeOK, FailureNeedsRival
<1> QED
  BY <1>3, <1>4, <1>5, <1>6, <1>7 DEF Inv

LEMMA GetDbRefInv ==
    ASSUME Inv, NEW s \in Searches, GetDbRef(s) PROVE Inv'
<1> USE DEF Checks, NoRecord
<1>1. /\ pc[s] = "erase"
      /\ pc' = [pc EXCEPT ![s] = IF found[s] \in Live THEN "erasing"
                                 ELSE IF choice[s] # NoRecord THEN "cut" ELSE "failed"]
      /\ UNCHANGED <<records, erased, references, dirty, made, found, choice, crashed,
                     since, met>>
  BY DEF GetDbRef, Goto, dbVars
<1>2. Live' = Live /\ WithChoice' = WithChoice
  BY <1>1 DEF Live, WithChoice
<1>3. TypeOK' /\ ChoicePointsHold' /\ Dirty' /\ ChoicesInCheck'
  BY <1>1, <1>2 DEF Inv, TypeOK, ChoicePointsHold, WithChoice, Dirty, ChoicesInCheck
<1>4. Ahead' /\ CheckForgetsAll'
  BY <1>1, <1>2 DEF Inv, TypeOK, Ahead, CheckForgetsAll
<1>5. Alone' /\ FailureNeedsRival'
  BY <1>1, <1>2 DEF Inv, TypeOK, Alone, FailureNeedsRival
<1> QED
  BY <1>3, <1>4, <1>5 DEF Inv

LEMMA RecordaInv ==
    ASSUME Inv, NEW s \in Searches, Recorda(s) PROVE Inv'
<1> USE DEF Checks, NoRecord
<1>1. /\ pc[s] = "record" /\ pc' = [pc EXCEPT ![s] = "done"]
      /\ made' = made + 1 /\ records' = records \cup {made'}
      /\ UNCHANGED <<erased, references, dirty, found, choice, crashed, since, met>>
  BY DEF Recorda, Goto
<1>2. /\ made \in Nat /\ made' \in Nat
      /\ \A r \in records : r \in 1 .. made
      /\ \A r \in Live' : r \in Live \/ r = made + 1
      /\ \A r \in Live : r \in Live'
  BY <1>1 DEF Inv, TypeOK, Live
<1>3. TypeOK'
  <2>1. \A r \in records' : r \in 1 .. made'
    BY <1>1, <1>2
  <2> QED
    BY <2>1, <1>1, <1>2 DEF Inv, TypeOK
<1>4. ChoicePointsHold' /\ Dirty' /\ ChoicesInCheck'
  BY <1>1 DEF Inv, TypeOK, ChoicePointsHold, WithChoice, Dirty, ChoicesInCheck
<1>5. \A t \in Searches : since[t] \in Nat /\ since[t] <= made /\ ~(made + 1 <= since[t])
  BY <1>2 DEF Inv, TypeOK, Ahead
<1>6. Ahead' /\ CheckForgetsAll'
  BY <1>1, <1>2, <1>5 DEF Inv, TypeOK, Ahead, CheckForgetsAll
<1>7. Alone' /\ FailureNeedsRival'
  BY <1>1, <1>2 DEF Inv, TypeOK, Alone, FailureNeedsRival
<1> QED
  BY <1>3, <1>4, <1>6, <1>7 DEF Inv

LEMMA RecordedInv ==
    ASSUME Inv, NEW s \in Searches, Recorded(s), ~crashed PROVE Inv'
<1>1. pc[s] = "recorded" /\ s \notin WithChoice /\ WithChoice \in SUBSET Searches
  BY DEF Recorded, Inv, ChoicesInCheck, WithChoice
<1>2. references + 1 = Cardinality(WithChoice \cup {s})
  BY <1>1, CountAdd DEF Inv, ChoicePointsHold
<1>3. made \in Nat /\ \A r \in Live : r <= since[s] => r <= made
  BY DEF Inv, TypeOK, Live
<1> QED
  BY <1>1, <1>2, <1>3, ScanInv DEF Recorded

LEMMA RecordedRedoInv ==
    ASSUME Inv, NEW s \in Searches, RecordedRedo(s), ~crashed PROVE Inv'
<1>1. pc[s] = "redo" /\ s \in WithChoice /\ WithChoice \cup {s} = WithChoice
  BY DEF RecordedRedo, Inv, ChoicesInCheck, WithChoice
<1>2. references = Cardinality(WithChoice \cup {s})
  BY <1>1 DEF Inv, ChoicePointsHold
<1>3. choice[s] \in Nat /\ \A r \in Live : r <= since[s] => r <= choice[s]
  BY <1>1 DEF Inv, TypeOK, Ahead
<1> QED
  BY <1>1, <1>2, <1>3, ScanInv DEF RecordedRedo

LEMMA RecordedCutInv ==
    ASSUME Inv, NEW s \in Searches, RecordedCut(s) PROVE Inv'
<1> USE DEF Checks, NoRecord
<1>1. /\ pc[s] = "cut" /\ pc' = [pc EXCEPT ![s] = "failed"]
      /\ Drop(references) /\ choice' = [choice EXCEPT ![s] = NoRecord]
      /\ UNCHANGED <<dirty, made, found, crashed, since, met>>
  BY DEF RecordedCut, Goto
<1>2. WithChoice \cup {s} = WithChoice
  BY <1>1 DEF Inv, ChoicesInCheck, WithChoice
<1>3. references = Cardinality(WithChoice \cup {s})
  BY <1>2 DEF Inv, ChoicePointsHold
<1>4. /\ ChoicePointsHold' /\ Dirty' /\ Live' = Live
      /\ records' \in SUBSET records /\ erased' \in SUBSET records' /\ references' \in Int
  BY <1>1, <1>3, DropChoice
<1>5. TypeOK' /\ ChoicesInCheck'
  BY <1>1, <1>4 DEF Inv, TypeOK, ChoicesInCheck
<1>6. Ahead' /\ CheckForgetsAll'
  BY <1>1, <1>4 DEF Inv, TypeOK, Ahead, CheckForgetsAll
<1>7. Alone' /\ FailureNeedsRival'
  BY <1>1, <1>4 DEF Inv, TypeOK, Alone, FailureNeedsRival
<1> QED
  BY <1>4, <1>5, <1>6, <1>7 DEF Inv

\* An erase leaves no live record that the search still had to forget, and takes
\* none from a search that has met no other.
LEMMA EraseInv ==
    ASSUME Inv, NEW s \in Searches, Erase(s), ~crashed PROVE Inv'
<1> USE DEF Checks, NoRecord
<1>1. pc[s] = "erasing" /\ UNCHANGED <<made, found, choice, since, met>>
  BY DEF Erase
<1>2. CASE crashed' = TRUE /\ pc' = pc /\ EraseNothing(s)
  <2>1. UNCHANGED <<records, erased, references, dirty>> /\ found[s] \notin records
    BY <1>2 DEF EraseNothing
  <2>2. s \in met
    BY <2>1, <1>1 DEF Inv, Alone, Live
  <2>3. Live' = Live /\ WithChoice' = WithChoice
    BY <2>1, <1>1 DEF Live, WithChoice
  <2>4. TypeOK' /\ ChoicePointsHold' /\ Dirty' /\ ChoicesInCheck' /\ Ahead' /\ CheckForgetsAll' /\ Alone'
    BY <2>1, <2>3, <1>1, <1>2 DEF Inv, TypeOK, ChoicePointsHold, Dirty, ChoicesInCheck, Ahead,
       CheckForgetsAll, Alone
  <2>5. FailureNeedsRival'
    BY <2>2, <1>1, <1>2 DEF Inv, FailureNeedsRival
  <2> QED
    BY <2>4, <2>5 DEF Inv
<1>3. CASE crashed' = crashed /\ NextSolution(s)
  <2>1. pc' = [pc EXCEPT ![s] = IF choice[s] # NoRecord THEN "redo" ELSE "record"]
    BY <1>3 DEF NextSolution, Goto
  <2>2. /\ \A r \in Live' : r \in Live /\ r # found[s]
        /\ \A r \in Live : r # found[s] => r \in Live'
    BY <1>1 DEF Erase, EraseMarks, EraseFrees, EraseNothing, Live
  <2>3. TypeOK' /\ WithChoice' = WithChoice
    BY <2>1, <1>1, <1>3 DEF Erase, EraseMarks, EraseFrees, EraseNothing, Inv, TypeOK, WithChoice
  <2>4. ChoicePointsHold'
    <3>1. CASE EraseFrees(s)
      <4>1. WithChoice = {}
        BY <3>1, CountZero DEF EraseFrees, Inv, ChoicePointsHold, WithChoice
      <4> QED
        BY <3>1, <4>1, <2>3 DEF EraseFrees, Inv, ChoicePointsHold
    <3>2. CASE ~EraseFrees(s)
      <4>1. UNCHANGED <<records, references>>
        BY <3>2 DEF Erase, EraseMarks, EraseNothing
      <4> QED
        BY <4>1, <2>3, <1>1 DEF Inv, ChoicePointsHold
    <3> QED
      BY <3>1, <3>2
  <2>5. Dirty'
    <3>1. references \in Int
      BY DEF Inv, TypeOK
    <3> QED
      BY <3>1 DEF Erase, EraseMarks, EraseFrees, EraseNothing, Inv, Dirty
  <2>6. ChoicesInCheck' /\ FailureNeedsRival'
    BY <2>1, <1>1, <1>3 DEF Inv, TypeOK, ChoicesInCheck, FailureNeedsRival
  <2>7. \A r \in Live' : r <= since[s] => r <= choice[s]
    BY <2>2, <1>1 DEF Inv, Ahead
  <2>8. /\ since[s] \in Nat /\ choice[s] \in Nat
        /\ \A r \in Live' : r \in Nat /\ r > 0
    <3>1. \A r \in records : r \in 1 .. made
      BY DEF Inv, TypeOK
    <3>2. \A r \in Live' : r \in 1 .. made
      BY <3>1, <2>2 DEF Live
    <3>3. made \in Nat /\ since[s] \in Nat /\ choice[s] \in Nat
      BY DEF Inv, TypeOK
    <3> QED
      BY <3>2, <3>3
  <2>9. CheckForgetsAll'
    <3>1. choice[s] = 0 => \A r \in Live' : r > since[s]
      BY <2>7, <2>8
    <3> QED
      BY <2>1, <2>2, <3>1, <1>1 DEF Inv, TypeOK, CheckForgetsAll
  <2>10. Ahead'
    BY <2>1, <2>2, <2>7, <1>1 DEF Inv, TypeOK, Ahead
  <2>11. Alone'
    <3>1. \A t \in Searches : pc'[t] \in Checks => pc[t] \in Checks
      BY <2>1, <1>1 DEF Inv, TypeOK
    <3>2. \A t \in Searches : t # s => pc'[t] = pc[t]
      BY <2>1 DEF Inv, TypeOK
    <3>3. pc'[s] \notin {"erase", "erasing"}
      BY <2>1 DEF Inv, TypeOK
    <3> QED
      BY <3>1, <3>2, <3>3, <1>1 DEF Inv, Alone
  <2> QED
    BY <2>3, <2>4, <2>5, <2>6, <2>9, <2>10, <2>11 DEF Inv
<1> QED
  BY <1>2, <1>3 DEF Erase, EraseMarks, EraseFrees, EraseNothing

LEMMA StepInv == Inv /\ [Next]_vars => Inv'
<1> SUFFICES ASSUME Inv, [Next]_vars PROVE Inv'
  OBVIOUS
<1>1. CASE Next
  <2>1. PICK s \in Searches : \/ BeginCheck(s) \/ Recorded(s) \/ RecordedRedo(s)
                              \/ RecordedCut(s) \/ GetDbRef(s) \/ Erase(s) \/ Recorda(s)
    BY <1>1 DEF Next
  <2>2. ~crashed
    BY <1>1 DEF Next
  <2> QED
    BY <2>1, <2>2, BeginInv, RecordedInv, RecordedRedoInv, RecordedCutInv, GetDbRefInv,
       EraseInv, RecordaInv
<1>2. CASE UNCHANGED vars
  BY <1>2 DEF vars, dbVars, Inv, TypeOK, ChoicePointsHold, WithChoice, Dirty, ChoicesInCheck,
     Ahead, CheckForgetsAll, Alone, FailureNeedsRival, Live
<1> QED
  BY <1>1, <1>2

LEMMA Invariance == Spec => []Inv
BY InitInv, StepInv, PTL DEF Spec

-----------------------------------------------------------------------------
(***************************************************************************)
(* The theorems.                                                           *)
(***************************************************************************)

\* The reference count is exact and no choice point dangles.
THEOREM ChoicePointsAlwaysHold == Spec => []ChoicePointsHold
<1>1. Inv => ChoicePointsHold
  BY DEF Inv
<1> QED
  BY <1>1, Invariance, PTL

\* Without choice points no erased record is left in the list.
THEOREM ErasedAlwaysReclaimed == Spec => []ErasedReclaimed
<1>1. Inv => ErasedReclaimed
  BY DEF Inv, Dirty, ErasedReclaimed
<1> QED
  BY <1>1, Invariance, PTL

\* A check forgets what was recorded before it, whatever others do.
THEOREM ChecksForget == Spec => []CheckForgetsAll
<1>1. Inv => CheckForgetsAll
  BY DEF Inv
<1> QED
  BY <1>1, Invariance, PTL

\* Only searches that were in their checks together fail or die there.
THEOREM FailureAlwaysNeedsRival == Spec => []FailureNeedsRival
<1>1. Inv => FailureNeedsRival
  BY DEF Inv
<1> QED
  BY <1>1, Invariance, PTL
=============================================================================
