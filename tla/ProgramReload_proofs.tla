----------------------- MODULE ProgramReload_proofs -----------------------
(***************************************************************************)
(* Proofs about ProgramReload, for any calls, any number of clauses and    *)
(* any number of loads: first that nothing is read that was freed, then    *)
(* that a call is given the clauses of one load.                           *)
(***************************************************************************)
EXTENDS ProgramReload, FiniteSetTheorems, WellFoundedInduction, TLAPS

Instructions == {"S_VIRGIN", "S_UNDEF", "S_TRUSTME", "S_STATIC"}

\* Where a call has not begun an index yet.
Early == {"closed", "opened", "entered", "trapped", "undefining", "supervise"} \cup Instructions

Unlinked == Early \cup {"build", "link"}

Places == Unlinked \cup {"table", "running", "returned", "undefined"}

TypeOK ==
    /\ made \in Nat /\ clauses \in SUBSET (1 .. made) /\ erased \in [Clauses -> Nat]
    /\ generation \in Nat
    /\ codes \in [op : Instructions, clause : Nat]
    /\ index \in Calls \cup {NoIndex} /\ oldIndexes \in SUBSET Calls
    /\ table \in [Calls -> SUBSET Nat]
    /\ loader \in {"idle", "load", "linked", "dated", "loaded"}
    /\ pc \in [Calls -> Places] /\ at \in [Calls -> Nat]
    /\ where \in [Calls -> Calls \cup {NoIndex}]
    /\ freed \in [clauses : SUBSET (1 .. made), indexes : SUBSET Calls]
    /\ crashed \in BOOLEAN

\* The clauses a load has still to make.
Numbered ==
    /\ made <= N * Loads
    /\ loader = "load" => made < N * Loads
    /\ Locked => made \in Live
    /\ \A k \in Clauses : k > made => erased[k] = 0

\* What is linked is neither erased nor freed.
Linked ==
    /\ freed.clauses \cap clauses = {}
    /\ codes.op = "S_TRUSTME" => codes.clause \in Live
    /\ index # NoIndex => index \notin freed.indexes \cup oldIndexes /\ table[index] \subseteq Live

\* What a call holds is not freed.
Holds(c) ==
    /\ pc[c] \in Early => table[c] = {} /\ where[c] = NoIndex
    /\ pc[c] \in Unlinked => c \notin freed.indexes \cup oldIndexes \cup {index}
    /\ c \in Building => table[c] \subseteq Live
    /\ pc[c] \in {"build", "S_TRUSTME"} => at[c] \notin freed.clauses
    /\ c \in Framed /\ where[c] # NoIndex =>
           where[c] \notin freed.indexes /\ table[where[c]] \cap freed.clauses = {}

Undisturbed == stopped = {} => ~crashed /\ Linked /\ \A c \in Calls : Holds(c)

Inv == TypeOK /\ Numbered /\ Undisturbed


-----------------------------------------------------------------------------
(***************************************************************************)
(* Numbers of clauses.                                                     *)
(***************************************************************************)

\* A set of clauses that is not empty has a first one.
LEMMA MinClause ==
    ASSUME NEW S \in SUBSET Nat, S # {}
    PROVE  Min(S) \in S /\ \A k \in S : Min(S) <= k
<1> DEFINE below(k) == {j \in S : j < k}
           order == StrictSubsetOrdering(S)
<1>1. IsWellFoundedOn(order, FiniteSubsetsOf(S))
  BY FS_StrictSubsetOrderingWellFounded
<1>2. {below(k) : k \in S} \subseteq FiniteSubsetsOf(S)
  <2> SUFFICES ASSUME NEW k \in S PROVE below(k) \in FiniteSubsetsOf(S)
    OBVIOUS
  <2>1. below(k) \in SUBSET (0 .. k)
    <3> SUFFICES ASSUME NEW j \in S, j < k PROVE j \in 0 .. k
      OBVIOUS
    <3> QED
      OBVIOUS
  <2>2. IsFiniteSet(0 .. k)
    BY FS_Interval
  <2> QED
    BY <2>1, <2>2, FS_Subset DEF FiniteSubsetsOf
<1>3. PICK T \in {below(k) : k \in S} :
          \A U \in {below(k) : k \in S} : <<U, T>> \notin order
  <2>1. {below(k) : k \in S} # {}
    OBVIOUS
  <2> HIDE DEF below, order
  <2> QED
    BY <1>1, <1>2, <2>1, WFMin
<1>4. PICK m \in S : T = below(m)
  OBVIOUS
<1>5. \A k \in S : m <= k
  <2> SUFFICES ASSUME NEW k \in S, k < m PROVE FALSE
    OBVIOUS
  <2>1. below(k) \subseteq below(m) /\ k \in below(m) /\ k \notin below(k)
    <3>1. \A j \in S : j \in Nat
      OBVIOUS
    <3>2. k \in below(m)
      OBVIOUS
    <3>3. k \notin below(k)
      BY <3>1
    <3>4. \A j \in S : j < k => j < m
      BY <3>1
    <3> QED
      BY <3>2, <3>3, <3>4
  <2>2. <<below(k), below(m)>> \in order
    BY <2>1 DEF StrictSubsetOrdering
  <2> QED
    BY <2>2, <1>3, <1>4
<1>6. \E x \in S : \A y \in S : x <= y
  BY <1>5
<1> QED
  BY <1>6 DEF Min

\* The last clause of the last load ends that load.
LEMMA LastClause == N * Loads \in Nat /\ (N * Loads) % N = 0 /\ N <= N * Loads
<1>1. N \in Nat /\ N # 0 /\ Loads \in Nat /\ Loads # 0
  BY SizesAssumption
<1>2. N * Loads \in Nat /\ N <= N * Loads
  BY <1>1
<1>3. (N * Loads) % N = 0
  BY <1>1
<1> QED
  BY <1>2, <1>3

-----------------------------------------------------------------------------
LEMMA InitInv == Init => Inv
<1> SUFFICES ASSUME Init PROVE Inv
  OBVIOUS
<1> USE DEF Early, Instructions, Unlinked, Places, NoClause
<1>1. N \in Nat \ {0} /\ N <= N * Loads /\ N * Loads \in Nat
  BY LastClause, SizesAssumption
<1>2. clauses = 1 .. N
  <2>1. Program(1) = 1 .. N
    BY <1>1 DEF Program
  <2> QED
    BY <2>1 DEF Init
<1>3. /\ made \in Nat /\ clauses \in SUBSET (1 .. made) /\ erased \in [Clauses -> Nat]
      /\ generation \in Nat
  BY <1>1, <1>2 DEF Init
<1>4. TypeOK
  BY <1>3 DEF Init, TypeOK, Supervisor
<1>5. Numbered
  BY <1>1 DEF Init, Numbered, Locked
<1>6. Undisturbed
  BY CallsAssumption DEF Init, Undisturbed, Linked, Holds, Building, Framed, Supervisor
<1> QED
  BY <1>4, <1>5, <1>6 DEF Inv

-----------------------------------------------------------------------------
(***************************************************************************)
(* Steps of calls.                                                         *)
(***************************************************************************)

\* Steps that change nothing but the place of a call, what it looks at, and the
\* supervisor.
LEMMA PlaceStep ==
    ASSUME Inv, NEW c \in Calls, NEW place \in Early \cup {"running", "undefined"}, NEW a \in Nat,
           pc[c] \in Early \/ (pc[c] \in {"table", "running"} /\ place = "running"),
           pc' = [pc EXCEPT ![c] = place], at' = [at EXCEPT ![c] = a],
           codes' \in [op : Instructions, clause : Nat],
           stopped = {} => /\ codes'.op = "S_TRUSTME" => codes'.clause \in Live
                           /\ place = "S_TRUSTME" => a \notin freed.clauses,
           UNCHANGED <<clauseVars, indexVars, loader, where, freed, crashed, stopped>>
    PROVE  Inv'
<1> USE DEF Early, Instructions, Unlinked, Places
<1>1. UNCHANGED <<clauses, made, created, erased, generation, index, oldIndexes, table, built,
                  loader, where, freed, crashed, stopped, Live>>
  BY DEF clauseVars, indexVars, Live
<1>2. TypeOK'
  BY <1>1 DEF Inv, TypeOK
<1>3. Numbered'
  BY <1>1 DEF Inv, Numbered, Locked
<1>4. ASSUME stopped = {} PROVE Linked' /\ ~crashed' /\ \A d \in Calls : Holds(d)'
  <2>1. Linked' /\ ~crashed'
    BY <1>1, <1>4 DEF Inv, Undisturbed, Linked
  <2>2. ASSUME NEW d \in Calls PROVE Holds(d)'
    <3>1. Holds(d) /\ pc \in [Calls -> Places] /\ at \in [Calls -> Nat]
      BY <1>4 DEF Inv, TypeOK, Undisturbed
    <3>2. CASE d = c
      BY <3>1, <3>2, <1>1, <1>4 DEF Holds, Building, Framed
    <3>3. CASE d # c
      <4>1. pc'[d] = pc[d] /\ at'[d] = at[d]
        BY <3>1, <3>3
      <4> QED
        BY <3>1, <4>1, <1>1 DEF Holds, Building, Framed
    <3> QED
      BY <3>2, <3>3
  <2> QED
    BY <2>1, <2>2
<1> QED
  BY <1>1, <1>2, <1>3, <1>4 DEF Inv, Undisturbed

LEMMA SupervisorSteps ==
    ASSUME Inv, NEW c \in Calls,
           \/ OpenFrame(c) \/ SetGeneration(c) \/ SVirgin(c) \/ TrapUndefined(c)
           \/ SUndef(c) \/ NoClauses(c)
    PROVE  Inv'
<1>1. /\ pc[c] \in Early
      /\ \E place \in (Early \ {"S_TRUSTME"}) \cup {"running", "undefined"} :
             pc' = [pc EXCEPT ![c] = place]
  BY DEF OpenFrame, SetGeneration, SVirgin, TrapUndefined, SUndef, NoClauses, Goto,
     Early, Instructions
<1>2. UNCHANGED <<clauseVars, indexVars, codes, loader, where, at, freed, crashed, stopped>>
  BY DEF OpenFrame, SetGeneration, SVirgin, TrapUndefined, SUndef, NoClauses, history
<1>3. at[c] \in Nat /\ at' = [at EXCEPT ![c] = at[c]]
  BY <1>2 DEF Inv, TypeOK
<1>4. codes' \in [op : Instructions, clause : Nat]
  BY <1>2 DEF Inv, TypeOK
<1>5. stopped = {} => (codes'.op = "S_TRUSTME" => codes'.clause \in Live)
  BY <1>2 DEF Inv, Undisturbed, Linked
<1>6. PICK place \in (Early \ {"S_TRUSTME"}) \cup {"running", "undefined"} :
          pc' = [pc EXCEPT ![c] = place]
  BY <1>1
<1>7. place \in Early \cup {"running", "undefined"} /\ place # "S_TRUSTME"
  BY <1>6 DEF Early
<1> QED
  BY <1>1, <1>2, <1>3, <1>4, <1>5, <1>6, <1>7, PlaceStep

LEMMA DispatchInv ==
    ASSUME Inv, NEW c \in Calls, Dispatch(c) PROVE Inv'
<1>1. /\ pc[c] \in Early /\ codes.op \in Early /\ codes.clause \in Nat
      /\ codes \in [op : Instructions, clause : Nat]
  BY DEF Inv, TypeOK, Dispatch, Early
<1>2. /\ pc' = [pc EXCEPT ![c] = codes.op] /\ at' = [at EXCEPT ![c] = codes.clause]
      /\ UNCHANGED <<clauseVars, indexVars, codes, loader, where, freed, crashed, stopped>>
  BY DEF Dispatch, Goto, history
<1>3. stopped = {} => /\ codes.op = "S_TRUSTME" => codes.clause \in Live
                      /\ codes.op = "S_TRUSTME" => codes.clause \notin freed.clauses
  BY DEF Inv, Undisturbed, Linked, Live
<1> QED
  BY <1>1, <1>2, <1>3, PlaceStep

LEMMA StoreInv ==
    ASSUME Inv, NEW c \in Calls, StoreUndef(c) \/ CreateSupervisor(c) PROVE Inv'
<1> USE DEF Early, Instructions, NoClause
<1>1. /\ pc[c] \in Early
      /\ \E place \in Early \ {"S_TRUSTME"} : pc' = [pc EXCEPT ![c] = place]
      /\ UNCHANGED <<clauseVars, indexVars, loader, where, at, freed, crashed, stopped>>
  BY DEF StoreUndef, CreateSupervisor, Goto, history
<1>2. at[c] \in Nat /\ at' = [at EXCEPT ![c] = at[c]]
  BY <1>1 DEF Inv, TypeOK
<1>3. /\ codes' \in [op : Instructions, clause : Nat]
      /\ codes'.op = "S_TRUSTME" => codes'.clause \in Live
  <2>1. \A k \in Live : k \in Nat
    BY DEF Inv, TypeOK, Live
  <2>2. CASE codes' = Supervisor("S_UNDEF") \/ codes' = Supervisor("S_STATIC")
    BY <2>2 DEF Supervisor
  <2>3. CASE Live # {} /\ codes' = TrustMe(CHOOSE k \in Live : TRUE)
    <3>1. (CHOOSE k \in Live : TRUE) \in Live
      BY <2>3
    <3> QED
      BY <2>1, <2>3, <3>1 DEF TrustMe
  <2> QED
    BY <2>2, <2>3 DEF StoreUndef, CreateSupervisor
<1>4. PICK place \in Early \ {"S_TRUSTME"} : pc' = [pc EXCEPT ![c] = place]
  BY <1>1
<1>5. place \in Early \cup {"running", "undefined"} /\ place # "S_TRUSTME"
  BY <1>4
<1> QED
  BY <1>1, <1>2, <1>3, <1>4, <1>5, PlaceStep

\* A walk along a chain reads nothing that was freed.
LEMMA ScanInv ==
    ASSUME Inv, NEW c \in Calls, pc[c] \in {"S_STATIC", "table", "running"}, NEW from \in Nat,
           Scan(c, from), UNCHANGED <<clauseVars, codes, indexVars, loader, where, freed, stopped>>
    PROVE  Inv'
<1> DEFINE ahead == {k \in Chain(c) : k >= from}
           hit == ahead \cap freed.clauses # {} \/ where'[c] \in freed.indexes
<1> USE DEF Early, Instructions, Unlinked, Places, NoClause
<1>1. /\ where' = where /\ Chain(c) \in SUBSET Nat
      /\ where[c] = NoIndex => Chain(c) = clauses
      /\ where[c] # NoIndex => Chain(c) = table[where[c]]
  BY DEF Inv, TypeOK, Chain
<1>2. stopped = {} => ~hit
  <2> SUFFICES ASSUME stopped = {} PROVE ~hit
    OBVIOUS
  <2>1. CASE where[c] = NoIndex
    BY <1>1, <2>1, CallsAssumption DEF Inv, TypeOK, Undisturbed, Linked
  <2>2. CASE where[c] # NoIndex
    BY <1>1, <2>2 DEF Inv, Undisturbed, Holds, Framed
  <2> QED
    BY <2>1, <2>2
<1>3. CASE hit
  <2>1. crashed' = TRUE /\ UNCHANGED <<pc, at>> /\ stopped # {}
    BY <1>2, <1>3 DEF Scan, Crash
  <2>2. TypeOK' /\ Numbered'
    BY <2>1 DEF Inv, TypeOK, Numbered, Locked, Live, clauseVars, indexVars
  <2> QED
    BY <2>1, <2>2 DEF Inv, Undisturbed
<1>4. CASE ~hit
  <2>1. PICK r \in FirstVisible(ahead, gen[c]) :
          LET next == IF r = NoClause THEN {} ELSE {k \in ahead : k > r} IN
          /\ \/ \E n \in FirstVisible(next, gen[c]) : at' = [at EXCEPT ![c] = n]
             \/ next # {} /\ at' = [at EXCEPT ![c] = Min(next)]
          /\ Goto(c, "running") /\ UNCHANGED crashed
    BY <1>4 DEF Scan
  <2> DEFINE next == IF r = NoClause THEN {} ELSE {k \in ahead : k > r}
  <2>2. next \in SUBSET Nat
    BY <1>1
  <2>3. \E a \in Nat : at' = [at EXCEPT ![c] = a]
    <3>1. CASE \E n \in FirstVisible(next, gen[c]) : at' = [at EXCEPT ![c] = n]
      <4>1. \A n \in FirstVisible(next, gen[c]) : n \in next \cup {0}
        BY DEF FirstVisible
      <4> HIDE DEF next
      <4> QED
        BY <2>2, <3>1, <4>1
    <3>2. CASE next # {} /\ at' = [at EXCEPT ![c] = Min(next)]
      <4> HIDE DEF next
      <4>1. Min(next) \in next
        BY <2>2, <3>2, MinClause
      <4> QED
        BY <2>2, <3>2, <4>1
    <3> QED
      BY <2>1, <3>1, <3>2
  <2>4. PICK a \in Nat : at' = [at EXCEPT ![c] = a]
    BY <2>3
  <2>5. pc' = [pc EXCEPT ![c] = "running"] /\ UNCHANGED crashed
    BY <2>1 DEF Goto
  <2>6. /\ codes' \in [op : Instructions, clause : Nat]
        /\ stopped = {} => (codes'.op = "S_TRUSTME" => codes'.clause \in Live)
    BY DEF Inv, TypeOK, Undisturbed, Linked
  <2> QED
    BY <2>4, <2>5, <2>6, PlaceStep
<1> QED
  BY <1>3, <1>4

LEMMA WalkInv ==
    ASSUME Inv, NEW c \in Calls, FirstInTable(c) \/ UseList(c) \/ NextClause(c) PROVE Inv'
<1>1. /\ pc[c] \in {"S_STATIC", "table", "running"}
      /\ \E from \in Nat : Scan(c, from)
  BY DEF FirstInTable, UseList, NextClause, Inv, TypeOK
<1>2. UNCHANGED <<clauseVars, codes, indexVars, loader, where, freed, stopped>>
  BY DEF FirstInTable, UseList, NextClause
<1> QED
  BY <1>1, <1>2, ScanInv

\* The clause of S_TRUSTME is there as long as a call is about to use it.
LEMMA TrustMeInv ==
    ASSUME Inv, NEW c \in Calls, STrustMe(c) PROVE Inv'
<1> USE DEF Early, Instructions, NoClause
<1>1. /\ pc[c] = "S_TRUSTME"
      /\ UNCHANGED <<clauseVars, codes, indexVars, loader, where, freed, stopped>>
  BY DEF STrustMe
<1>2. CASE at[c] \in freed.clauses
  <2>1. crashed' = TRUE /\ UNCHANGED <<pc, at>>
    BY <1>2 DEF STrustMe, Crash
  <2>2. stopped # {}
    BY <1>1, <1>2 DEF Inv, Undisturbed, Holds
  <2>3. TypeOK' /\ Numbered'
    BY <1>1, <2>1 DEF Inv, TypeOK, Numbered, Locked, Live, clauseVars, indexVars
  <2> QED
    BY <1>1, <2>2, <2>3 DEF Inv, Undisturbed
<1>3. CASE at[c] \notin freed.clauses
  <2>1. pc' = [pc EXCEPT ![c] = "running"] /\ at' = [at EXCEPT ![c] = 0] /\ UNCHANGED crashed
    BY <1>3 DEF STrustMe, Goto
  <2>2. /\ codes' \in [op : Instructions, clause : Nat]
        /\ stopped = {} => (codes'.op = "S_TRUSTME" => codes'.clause \in Live)
    BY <1>1 DEF Inv, TypeOK, Undisturbed, Linked
  <2>3. "running" \in Early \cup {"running", "undefined"} /\ 0 \in Nat /\ pc[c] \in Early
    BY <1>1
  <2> QED
    BY <1>1, <2>1, <2>2, <2>3, PlaceStep
<1> QED
  BY <1>2, <1>3

-----------------------------------------------------------------------------
(***************************************************************************)
(* Indexes.                                                                *)
(***************************************************************************)

LEMMA UseIndexInv ==
    ASSUME Inv, NEW c \in Calls, UseIndex(c) PROVE Inv'
<1> USE DEF Early, Instructions, Unlinked, Places
<1>1. /\ pc[c] = "S_STATIC" /\ index # NoIndex
      /\ pc' = [pc EXCEPT ![c] = "table"] /\ where' = [where EXCEPT ![c] = index]
      /\ UNCHANGED <<clauses, made, created, erased, generation, codes, index, oldIndexes, table,
                     built, loader, at, freed, crashed, stopped, Live>>
  BY DEF UseIndex, Goto, clauseVars, indexVars, history, Live
<1>2. TypeOK' /\ Numbered'
  BY <1>1 DEF Inv, TypeOK, Numbered, Locked
<1>3. ASSUME stopped = {} PROVE Linked' /\ ~crashed' /\ \A d \in Calls : Holds(d)'
  <2>1. Linked' /\ ~crashed'
    BY <1>1, <1>3 DEF Inv, Undisturbed, Linked
  <2>2. ASSUME NEW d \in Calls PROVE Holds(d)'
    <3>1. Holds(d) /\ Linked /\ pc \in [Calls -> Places] /\ where \in [Calls -> Calls \cup {NoIndex}]
      BY <1>3 DEF Inv, TypeOK, Undisturbed
    <3>2. CASE d = c
      <4>1. index \notin freed.indexes /\ table[index] \cap freed.clauses = {}
        BY <3>1, <1>1 DEF Linked, Live
      <4> QED
        BY <3>1, <3>2, <4>1, <1>1 DEF Holds, Building
    <3>3. CASE d # c
      <4>1. pc'[d] = pc[d] /\ where'[d] = where[d]
        BY <3>1, <3>3, <1>1
      <4> QED
        BY <3>1, <4>1, <1>1 DEF Holds, Building, Framed
    <3> QED
      BY <3>2, <3>3
  <2> QED
    BY <2>1, <2>2
<1> QED
  BY <1>1, <1>2, <1>3 DEF Inv, Undisturbed

LEMMA BeginHashInv ==
    ASSUME Inv, NEW c \in Calls, BeginHash(c) PROVE Inv'
<1> USE DEF Early, Instructions, Unlinked, Places
<1>1. /\ pc[c] = "S_STATIC"
      /\ pc' = [pc EXCEPT ![c] = "build"] /\ at' = [at EXCEPT ![c] = Min(clauses)]
      /\ UNCHANGED <<clauses, made, created, erased, generation, codes, index, oldIndexes, table,
                     built, loader, where, freed, crashed, stopped, Live>>
  BY DEF BeginHash, Goto, clauseVars, indexVars, Live
<1>2. Min(clauses) \in clauses /\ Min(clauses) \in Nat
  <2>1. clauses # {} /\ clauses \in SUBSET Nat
    BY DEF BeginHash, CountedSome, Live, Inv, TypeOK
  <2> QED
    BY <2>1, MinClause
<1>3. TypeOK' /\ Numbered'
  BY <1>1, <1>2 DEF Inv, TypeOK, Numbered, Locked
<1>4. ASSUME stopped = {} PROVE Linked' /\ ~crashed' /\ \A d \in Calls : Holds(d)'
  <2>1. Linked' /\ ~crashed'
    BY <1>1, <1>4 DEF Inv, Undisturbed, Linked
  <2>2. ASSUME NEW d \in Calls PROVE Holds(d)'
    <3>1. Holds(d) /\ Linked /\ pc \in [Calls -> Places] /\ at \in [Calls -> Nat]
      BY <1>4 DEF Inv, TypeOK, Undisturbed
    <3>2. CASE d = c
      <4>1. Min(clauses) \notin freed.clauses
        BY <3>1, <1>2 DEF Linked
      <4> QED
        BY <3>1, <3>2, <4>1, <1>1 DEF Holds, Building
    <3>3. CASE d # c
      <4>1. pc'[d] = pc[d] /\ at'[d] = at[d]
        BY <3>1, <3>3, <1>1
      <4> QED
        BY <3>1, <4>1, <1>1 DEF Holds, Building, Framed
    <3> QED
      BY <3>2, <3>3
  <2> QED
    BY <2>1, <2>2
<1> QED
  BY <1>1, <1>3, <1>4 DEF Inv, Undisturbed

\* An index is made of clauses that are not erased.
LEMMA HashClauseInv ==
    ASSUME Inv, NEW c \in Calls, HashClause(c) PROVE Inv'
<1> DEFINE next == {k \in clauses : k > at[c]}
<1> USE DEF Early, Instructions, Unlinked, Places, NoClause
<1>1. /\ pc[c] = "build"
      /\ UNCHANGED <<clauses, made, created, erased, generation, codes, index, oldIndexes,
                     loader, where, freed, stopped, Live>>
  BY DEF HashClause, clauseVars, Live
<1>2. CASE at[c] \in freed.clauses
  <2>1. crashed' = TRUE /\ UNCHANGED <<pc, at, table>>
    BY <1>2 DEF HashClause, Crash
  <2>2. stopped # {}
    BY <1>1, <1>2 DEF Inv, Undisturbed, Holds
  <2>3. TypeOK' /\ Numbered'
    BY <1>1, <2>1 DEF Inv, TypeOK, Numbered, Locked
  <2> QED
    BY <1>1, <2>2, <2>3 DEF Inv, Undisturbed
<1>3. CASE at[c] \notin freed.clauses
  <2>1. /\ table' = [table EXCEPT ![c] = @ \cup ({at[c]} \cap Live)]
        /\ crashed' = crashed
        /\ IF next # {} THEN at' = [at EXCEPT ![c] = Min(next)] /\ pc' = pc
           ELSE at' = [at EXCEPT ![c] = 0] /\ pc' = [pc EXCEPT ![c] = "link"]
    BY <1>3 DEF HashClause, Goto
  <2>2. next # {} => Min(next) \in next /\ Min(next) \in Nat
    <3>1. next \in SUBSET Nat
      <4>1. \A k \in clauses : k \in Nat
        BY DEF Inv, TypeOK
      <4> QED
        BY <4>1
    <3> HIDE DEF next
    <3> QED
      BY <3>1, MinClause
  <2>3. TypeOK'
    BY <1>1, <2>1, <2>2 DEF Inv, TypeOK
  <2>4. Numbered'
    BY <1>1 DEF Inv, Numbered, Locked
  <2>5. ASSUME stopped = {} PROVE Linked' /\ ~crashed' /\ \A d \in Calls : Holds(d)'
    <3>0. /\ Linked /\ ~crashed /\ \A d \in Calls : Holds(d)
          /\ pc \in [Calls -> Places] /\ at \in [Calls -> Nat] /\ table \in [Calls -> SUBSET Nat]
          /\ index \in Calls \cup {NoIndex}
      BY <2>5 DEF Inv, TypeOK, Undisturbed
    <3>1. index # c /\ \A i \in Calls : i # c => table'[i] = table[i]
      BY <3>0, <1>1, <2>1 DEF Holds
    <3>2. Linked' /\ ~crashed'
      BY <3>0, <3>1, <1>1, <2>1 DEF Linked
    <3>3. \A i \in Calls : table[i] \cap freed.clauses = {} => table'[i] \cap freed.clauses = {}
      BY <3>0, <3>1, <2>1 DEF Linked, Live
    <3>4. ASSUME NEW d \in Calls PROVE Holds(d)'
      <4>1. Holds(d) /\ where[d] \in Calls \cup {NoIndex} /\ where'[d] = where[d]
        BY <3>0, <1>1 DEF Inv, TypeOK
      <4>2. CASE d = c
        <5>1. /\ pc'[c] \in {"build", "link"} /\ table'[c] \subseteq Live'
              /\ pc'[c] = "build" => at'[c] \notin freed'.clauses
          BY <3>0, <1>1, <2>1, <2>2 DEF Holds, Building, Linked
        <5> QED
          BY <5>1, <4>1, <4>2, <3>3, <1>1 DEF Holds, Building, Framed
      <4>3. CASE d # c
        <5>1. pc'[d] = pc[d] /\ at'[d] = at[d] /\ table'[d] = table[d]
          BY <3>0, <3>1, <4>3, <2>1
        <5> QED
          BY <5>1, <4>1, <3>3, <1>1 DEF Holds, Building, Framed
      <4> QED
        BY <4>2, <4>3
    <3> QED
      BY <3>2, <3>4
  <2> QED
    BY <1>1, <2>3, <2>4, <2>5 DEF Inv, Undisturbed
<1> QED
  BY <1>2, <1>3

LEMMA LinkIndexInv ==
    ASSUME Inv, NEW c \in Calls, LinkIndex(c) PROVE Inv'
<1> USE DEF Early, Instructions, Unlinked, Places
<1>1. /\ pc[c] = "link" /\ index' = c /\ oldIndexes' = oldIndexes \cup ({index} \ {NoIndex})
      /\ pc' = [pc EXCEPT ![c] = "table"] /\ where' = [where EXCEPT ![c] = c]
      /\ UNCHANGED <<clauses, made, created, erased, generation, codes, table,
                     built, loader, at, freed, crashed, stopped, Live>>
  BY DEF LinkIndex, Goto, clauseVars, history, Live
<1>2. TypeOK' /\ Numbered'
  BY <1>1 DEF Inv, TypeOK, Numbered, Locked
<1>3. ASSUME stopped = {} PROVE Linked' /\ ~crashed' /\ \A d \in Calls : Holds(d)'
  <2>0. Linked /\ ~crashed /\ \A d \in Calls : Holds(d)
    BY <1>3 DEF Inv, Undisturbed
  <2>1. /\ c \notin freed.indexes \cup oldIndexes \cup {index}
        /\ table[c] \subseteq Live /\ table[c] \cap freed.clauses = {}
    BY <2>0, <1>1 DEF Holds, Building, Linked, Live
  <2>2. Linked' /\ ~crashed'
    BY <1>1, <2>0, <2>1 DEF Linked
  <2>3. ASSUME NEW d \in Calls PROVE Holds(d)'
    <3>1. Holds(d) /\ pc \in [Calls -> Places] /\ where \in [Calls -> Calls \cup {NoIndex}]
      BY <2>0 DEF Inv, TypeOK
    <3>2. CASE d = c
      BY <3>1, <3>2, <2>1, <1>1 DEF Holds, Building
    <3>3. CASE d # c
      <4>1. pc'[d] = pc[d] /\ where'[d] = where[d]
        BY <3>1, <3>3, <1>1
      <4> QED
        BY <3>1, <3>3, <4>1, <1>1 DEF Holds, Building, Framed
    <3> QED
      BY <3>2, <3>3
  <2> QED
    BY <2>2, <2>3
<1> QED
  BY <1>1, <1>2, <1>3 DEF Inv, Undisturbed

LEMMA LeaveFrameInv ==
    ASSUME Inv, NEW c \in Calls, LeaveFrame(c) PROVE Inv'
<1> USE DEF Early, Instructions, Unlinked, Places, NoClause
<1>1. /\ pc[c] = "running" /\ pc' = [pc EXCEPT ![c] = "returned"]
      /\ where' = [where EXCEPT ![c] = NoIndex] /\ at' = [at EXCEPT ![c] = 0]
      /\ UNCHANGED <<clauses, made, created, erased, generation, codes, index, oldIndexes, table,
                     built, loader, freed, crashed, stopped, Live>>
  BY DEF LeaveFrame, Goto, clauseVars, indexVars, Live
<1>2. TypeOK' /\ Numbered'
  BY <1>1 DEF Inv, TypeOK, Numbered, Locked
<1>3. ASSUME stopped = {} PROVE Linked' /\ ~crashed' /\ \A d \in Calls : Holds(d)'
  <2>1. Linked' /\ ~crashed'
    BY <1>1, <1>3 DEF Inv, Undisturbed, Linked
  <2>2. ASSUME NEW d \in Calls PROVE Holds(d)'
    <3>1. /\ Holds(d) /\ pc \in [Calls -> Places] /\ where \in [Calls -> Calls \cup {NoIndex}]
          /\ at \in [Calls -> Nat]
      BY <1>3 DEF Inv, TypeOK, Undisturbed
    <3>2. CASE d = c
      BY <3>1, <3>2, <1>1 DEF Holds, Building, Framed
    <3>3. CASE d # c
      <4>1. pc'[d] = pc[d] /\ where'[d] = where[d] /\ at'[d] = at[d]
        BY <3>1, <3>3, <1>1
      <4> QED
        BY <3>1, <4>1, <1>1 DEF Holds, Building, Framed
    <3> QED
      BY <3>2, <3>3
  <2> QED
    BY <2>1, <2>2
<1> QED
  BY <1>1, <1>2, <1>3 DEF Inv, Undisturbed

-----------------------------------------------------------------------------
(***************************************************************************)
(* Steps of the load.                                                      *)
(***************************************************************************)

\* While a frame is open nothing is freed, and the invariant says nothing of an unload
\* that stops the making of an index.
LEMMA UnloadInv == ASSUME Inv, Unload PROVE Inv'
<1> DEFINE old == oldIndexes \cup ({index} \ {NoIndex})
<1> USE DEF Early, Instructions, Unlinked, Places, NoClause
<1>1. /\ made < N * Loads /\ loader' = "load" /\ index' = NoIndex
      /\ generation' = generation + 1 /\ codes' = Supervisor("S_VIRGIN")
      /\ erased' = [k \in Clauses |-> IF k \in Live THEN generation' ELSE erased[k]]
      /\ stopped' = stopped \cup Building
      /\ UNCHANGED <<made, table, pc, where, at, crashed>>
  BY DEF Unload, FreeCodes, Clean, callVars
<1>2. \/ /\ Framed # {} /\ oldIndexes' = old /\ UNCHANGED <<clauses, freed>>
      \/ /\ Framed = {} /\ oldIndexes' = {} /\ clauses' = {}
         /\ freed' = [clauses |-> freed.clauses \cup clauses, indexes |-> freed.indexes \cup old]
  BY DEF Unload, Referenced, Clean
<1>3. old \in SUBSET Calls
  BY DEF Inv, TypeOK
<1>4. TypeOK'
  <2>1. /\ made' \in Nat /\ generation' \in Nat /\ erased' \in [Clauses -> Nat]
        /\ codes' \in [op : Instructions, clause : Nat]
    BY <1>1 DEF Inv, TypeOK, Supervisor
  <2>2. /\ clauses' \in SUBSET (1 .. made) /\ oldIndexes' \in SUBSET Calls
        /\ freed' \in [clauses : SUBSET (1 .. made), indexes : SUBSET Calls]
    <3>1. /\ clauses \in SUBSET (1 .. made)
          /\ freed \in [clauses : SUBSET (1 .. made), indexes : SUBSET Calls]
      BY DEF Inv, TypeOK
    <3>2. CASE oldIndexes' = old /\ UNCHANGED <<clauses, freed>>
      BY <1>3, <3>1, <3>2
    <3>3. CASE /\ oldIndexes' = {} /\ clauses' = {}
               /\ freed' = [clauses |-> freed.clauses \cup clauses,
                            indexes |-> freed.indexes \cup old]
      <4>1. freed.clauses \cup clauses \in SUBSET (1 .. made)
        BY <3>1
      <4>2. freed.indexes \cup old \in SUBSET Calls
        BY <1>3, <3>1
      <4> HIDE DEF old
      <4> QED
        BY <3>3, <4>1, <4>2
    <3> QED
      BY <1>2, <3>2, <3>3
  <2> QED
    BY <1>1, <2>1, <2>2 DEF Inv, TypeOK
<1>5. Numbered'
  <2>1. \A k \in Live : k <= made
    BY DEF Inv, TypeOK, Live
  <2>2. made \in Nat /\ \A k \in Clauses : k \in Nat
    BY LastClause DEF Inv, TypeOK, Clauses
  <2>3. \A k \in Clauses : k > made => erased'[k] = 0
    BY <1>1, <2>1, <2>2 DEF Inv, Numbered
  <2> QED
    BY <1>1, <2>3 DEF Inv, Numbered, Locked
<1>6. ASSUME stopped' = {} PROVE Linked' /\ ~crashed' /\ \A d \in Calls : Holds(d)'
  <2>1. stopped = {} /\ Building = {}
    BY <1>1, <1>6
  <2>2. Linked /\ ~crashed /\ \A d \in Calls : Holds(d)
    BY <2>1 DEF Inv, Undisturbed
  <2>3. Linked' /\ ~crashed'
    BY <1>1, <1>2, <2>2 DEF Linked, Supervisor
  <2>4. ASSUME NEW d \in Calls PROVE Holds(d)'
    <3>1. Holds(d) /\ d \notin Building /\ d \notin Building' /\ d # NoIndex
      BY <1>1, <2>1, <2>2, CallsAssumption DEF Building
    <3>2. CASE Framed # {} /\ oldIndexes' = old /\ freed' = freed
      BY <1>1, <3>1, <3>2 DEF Holds, Framed
    <3>3. CASE Framed = {} /\ oldIndexes' = {} /\ freed'.indexes = freed.indexes \cup old
      <4>1. pc[d] \in {"closed", "returned", "undefined"}
        BY <3>3 DEF Framed
      <4> QED
        BY <1>1, <3>1, <3>3, <4>1 DEF Holds, Framed
    <3> QED
      BY <1>2, <3>2, <3>3
  <2> QED
    BY <2>3, <2>4
<1> QED
  BY <1>4, <1>5, <1>6 DEF Inv, Undisturbed

\* A new clause has no number that was freed.
LEMMA LinkClauseInv == ASSUME Inv, LinkClause PROVE Inv'
<1>1. /\ loader = "load" /\ made' = made + 1 /\ clauses' = clauses \cup {made + 1}
      /\ loader' = "linked"
      /\ UNCHANGED <<erased, generation, codes, index, oldIndexes, table, where, at, pc, freed,
                     crashed, stopped>>
  BY DEF LinkClause, indexVars, callVars, history
<1>2. /\ made \in Nat /\ made < N * Loads /\ made + 1 \in Clauses /\ N * Loads \in Nat
  BY <1>1, LastClause DEF Inv, TypeOK, Numbered, Clauses
<1>3. erased[made + 1] = 0 /\ Live' = Live \cup {made + 1}
  BY <1>1, <1>2 DEF Inv, Numbered, Live
<1>4. /\ clauses' \in SUBSET (1 .. made') /\ freed.clauses \in SUBSET (1 .. made')
      /\ made + 1 \notin freed.clauses
  <2>1. \A k \in 1 .. made : k \in 1 .. made + 1 /\ k # made + 1
    BY <1>2
  <2>2. made + 1 \in 1 .. made + 1
    BY <1>2
  <2> QED
    BY <1>1, <2>1, <2>2 DEF Inv, TypeOK
<1>5. TypeOK'
  BY <1>1, <1>2, <1>4 DEF Inv, TypeOK
<1>6. Numbered'
  <2>1. \A k \in Clauses : k \in Nat
    BY <1>2 DEF Clauses
  <2> QED
    BY <1>1, <1>2, <1>3, <2>1 DEF Inv, Numbered, Locked
<1>7. Undisturbed'
  BY <1>1, <1>3, <1>4 DEF Inv, Undisturbed, Linked, Holds, Building, Framed
<1> QED
  BY <1>5, <1>6, <1>7 DEF Inv

LEMMA DateClauseInv == ASSUME Inv, DateClause PROVE Inv'
<1>1. /\ loader = "linked" /\ generation' = generation + 1 /\ loader' = "dated"
      /\ UNCHANGED <<clauses, made, erased, codes, index, oldIndexes, table, where, at, pc, freed,
                     crashed, stopped, Live>>
  BY DEF DateClause, indexVars, callVars, history, Live
<1>2. TypeOK' /\ Numbered'
  BY <1>1 DEF Inv, TypeOK, Numbered, Locked
<1>3. Undisturbed'
  BY <1>1 DEF Inv, Undisturbed, Linked, Holds, Building, Framed
<1> QED
  BY <1>2, <1>3 DEF Inv

\* The clause that goes into the linked index is alive.
LEMMA UpdateDefinitionInv == ASSUME Inv, UpdateDefinition PROVE Inv'
<1> USE DEF Early, Instructions, Unlinked, Places, NoClause
<1>1. /\ loader = "dated" /\ codes' = Supervisor("S_VIRGIN")
      /\ loader' = (IF made % N = 0 THEN "loaded" ELSE "load")
      /\ UNCHANGED <<clauses, made, erased, generation, where, at, pc, freed,
                     crashed, stopped, Live>>
  BY DEF UpdateDefinition, FreeCodes, clauseVars, callVars, history, Live
<1>2. \/ /\ index # NoIndex /\ index' = NoIndex /\ oldIndexes' = oldIndexes \cup {index}
         /\ table' = table
      \/ /\ table' = [c \in Calls |-> IF c = index THEN table[c] \cup {made} ELSE table[c]]
         /\ UNCHANGED <<index, oldIndexes>>
  BY DEF UpdateDefinition
<1>3. made \in Live /\ made \in Nat /\ made <= N * Loads
  BY <1>1 DEF Inv, TypeOK, Numbered, Locked
<1>4. TypeOK'
  BY <1>1, <1>2, <1>3 DEF Inv, TypeOK, Supervisor
<1>5. Numbered'
  <2>1. loader' = "load" => made < N * Loads
    <3>1. N * Loads \in Nat /\ (made % N # 0 => made # N * Loads)
      BY LastClause
    <3> QED
      BY <1>1, <1>3, <3>1
  <2> QED
    BY <1>1, <2>1 DEF Inv, Numbered, Locked
<1>6. ASSUME stopped = {} PROVE Linked' /\ ~crashed' /\ \A d \in Calls : Holds(d)'
  <2>1. /\ Linked /\ ~crashed /\ index \in Calls \cup {NoIndex} /\ table \in [Calls -> SUBSET Nat]
        /\ made \notin freed.clauses
    BY <1>3, <1>6 DEF Inv, TypeOK, Undisturbed, Linked, Live
  <2>2. Linked' /\ ~crashed'
    BY <1>1, <1>2, <1>3, <2>1 DEF Linked, Supervisor
  <2>3. \A i \in Calls : /\ table[i] \cap freed.clauses = {} => table'[i] \cap freed.clauses = {}
                         /\ i # index => table'[i] = table[i]
    BY <1>2, <2>1
  <2>4. ASSUME NEW d \in Calls PROVE Holds(d)'
    <3>1. Holds(d) /\ d # NoIndex /\ where[d] \in Calls \cup {NoIndex}
      BY <1>6, CallsAssumption DEF Inv, TypeOK, Undisturbed
    <3>2. pc[d] \in Unlinked => /\ d # index /\ d \notin oldIndexes' \cup {index'}
                                /\ table'[d] = table[d]
      BY <3>1, <1>2, <2>3 DEF Holds
    <3> QED
      BY <3>1, <3>2, <1>1, <2>3 DEF Holds, Building, Framed
  <2> QED
    BY <2>2, <2>4
<1> QED
  BY <1>1, <1>4, <1>5, <1>6 DEF Inv, Undisturbed

\* The collection keeps all clauses that are alive.
LEMMA CollectClausesInv == ASSUME Inv, CollectClauses PROVE Inv'
<1> USE DEF Early, Instructions, Unlinked, Places
<1>1. /\ loader' = "idle"
      /\ UNCHANGED <<made, erased, generation, codes, table, where, at, pc, crashed, stopped>>
  BY DEF CollectClauses, callVars, history
<1>2. CASE UNCHANGED <<clauses, index, oldIndexes, freed>>
  <2>1. TypeOK' /\ Numbered' /\ Live' = Live
    BY <1>1, <1>2 DEF Inv, TypeOK, Numbered, Locked, Live
  <2> QED
    BY <1>1, <1>2, <2>1 DEF Inv, Undisturbed, Linked, Holds, Building, Framed
<1>3. CASE Framed = {} /\ Clean(clauses \ Live, index, oldIndexes)
  <2>1. /\ index' \in {index, NoIndex} /\ oldIndexes' = {} /\ clauses' = Live
        /\ freed'.clauses = freed.clauses \cup (clauses \ Live)
        /\ freed'.indexes \in SUBSET (freed.indexes \cup oldIndexes \cup ({index} \ {NoIndex}))
        /\ index' # NoIndex => freed'.indexes = freed.indexes \cup oldIndexes
        /\ freed' = [clauses |-> freed'.clauses, indexes |-> freed'.indexes]
    BY <1>3 DEF Clean, Live
  <2>2. Live' = Live
    BY <1>1, <2>1 DEF Live
  <2>3. TypeOK'
    <3>1. freed' \in [clauses : SUBSET (1 .. made), indexes : SUBSET Calls]
      BY <2>1 DEF Inv, TypeOK
    <3>2. clauses' \in SUBSET (1 .. made) /\ index' \in Calls \cup {NoIndex}
      BY <2>1 DEF Inv, TypeOK, Live
    <3> QED
      BY <1>1, <2>1, <3>1, <3>2 DEF Inv, TypeOK
  <2>4. Numbered'
    BY <1>1 DEF Inv, Numbered, Locked
  <2>5. ASSUME stopped = {} PROVE Linked' /\ ~crashed' /\ \A d \in Calls : Holds(d)'
    <3>1. Linked /\ ~crashed
      BY <2>5 DEF Inv, Undisturbed
    <3>2. Linked' /\ ~crashed'
      BY <1>1, <2>1, <2>2, <3>1 DEF Linked, Live
    <3>3. ASSUME NEW d \in Calls PROVE Holds(d)'
      <4>1. Holds(d) /\ d # NoIndex /\ pc[d] \in {"closed", "returned", "undefined"}
        BY <1>3, <2>5, CallsAssumption DEF Inv, Undisturbed, Framed
      <4> QED
        BY <1>1, <2>1, <4>1 DEF Holds, Building, Framed
    <3> QED
      BY <3>2, <3>3
  <2> QED
    BY <1>1, <2>3, <2>4, <2>5 DEF Inv, Undisturbed
<1> QED
  BY <1>2, <1>3 DEF CollectClauses, Referenced

-----------------------------------------------------------------------------
LEMMA StepInv == Inv /\ [Next]_vars => Inv'
<1> SUFFICES ASSUME Inv, [Next]_vars PROVE Inv'
  OBVIOUS
<1>1. CASE Next /\ LoadStep
  BY <1>1, UnloadInv, LinkClauseInv, DateClauseInv, UpdateDefinitionInv, CollectClausesInv
     DEF Next, LoadStep
<1>2. ASSUME NEW c \in Calls, CallStep(c) PROVE Inv'
  BY <1>2, SupervisorSteps, DispatchInv, StoreInv, TrustMeInv, WalkInv, UseIndexInv,
     BeginHashInv, HashClauseInv, LinkIndexInv, LeaveFrameInv DEF CallStep
<1>3. CASE UNCHANGED vars
  <2>1. /\ UNCHANGED <<clauses, made, erased, generation, codes, index, oldIndexes, table, loader,
                       where, at, pc, freed, crashed, stopped>>
    BY <1>3 DEF vars, clauseVars, indexVars, callVars, history
  <2>2. TypeOK' /\ Numbered'
    BY <2>1 DEF Inv, TypeOK, Numbered, Locked, Live
  <2>3. Undisturbed'
    BY <2>1 DEF Inv, Undisturbed, Linked, Holds, Building, Framed, Live
  <2> QED
    BY <2>2, <2>3 DEF Inv
<1> QED
  BY <1>1, <1>2, <1>3 DEF Next

LEMMA Invariance == Spec => []Inv
BY InitInv, StepInv, PTL DEF Spec

-----------------------------------------------------------------------------
(***************************************************************************)
(* What was freed is not read.                                             *)
(***************************************************************************)

\* Every variable that FreedNeverRead depends on stays within its type.
THEOREM ReloadTypeCorrect == Spec => []TypeOK
<1>1. Inv => TypeOK
  BY DEF Inv
<1> QED
  BY <1>1, Invariance, PTL

\* However many calls run while the file is loaded again and again, none reads a
\* clause or an index that was freed, unless an unload has stopped the making of an
\* index.
THEOREM FreedIsNeverRead == Spec => []FreedNeverRead
<1>1. Inv => FreedNeverRead
  BY DEF Inv, Undisturbed, FreedNeverRead
<1> QED
  BY <1>1, Invariance, PTL

-----------------------------------------------------------------------------
(***************************************************************************)
(* What a call is given.  The clauses that are visible to a frame do not   *)
(* change while it is open: they are the first ones of one load.  What the *)
(* walk has given is that set, cut at the clause it looks at next, as long *)
(* as each clause is dated when it is passed, and the chain is the list or *)
(* the clauses of one load.                                                *)
(***************************************************************************)

Types ==
    /\ created \in [Clauses -> Nat] /\ gen \in [Calls -> Nat]
    /\ seen \in [Calls -> SUBSET Nat]

VisibleAt(g) ==
    {k \in Clauses : created[k] # 0 /\ created[k] <= g /\ (erased[k] = 0 \/ erased[k] > g)}

Whole(S) == \E load \in 1 .. Loads : S = Program(load)

Initial(S) ==
    \E load \in 1 .. Loads :
        S \subseteq Program(load) /\ \A k \in S : \A j \in Program(load) : j < k => j \in S

\* The load that goes on, or the last one.
Current(load) ==
    /\ Live = {k \in Program(load) : k <= made}
    /\ loader = "load" => (load - 1) * N <= made /\ made < load * N
    /\ Locked => made \in Program(load)
    /\ ~Loading => made = load * N

\* A clause has no generation later than GD->generation, and none only until it is dated.
Dated ==
    /\ \A k \in Clauses : created[k] <= generation /\ erased[k] <= generation
    /\ \A k \in Clauses : created[k] = 0 <=> (k > made \/ (loader = "linked" /\ k = made))
    /\ \A k \in 1 .. made : erased[k] = 0 => k \in clauses
    /\ \E load \in 1 .. Loads : Current(load)

\* The supervisor is that of the clauses there are, unless a load goes on.
Codes ==
    /\ codes.op # "S_TRUSTME" => codes.clause = NoClause
    /\ codes.op = "S_TRUSTME" => Initial({codes.clause})
    /\ codes.op = "S_TRUSTME" /\ ~Loading => Whole({codes.clause})
    /\ codes.op = "S_UNDEF" => Loading \/ lateUndef

\* An index that was not made during a load holds the clauses it was made from.
Made(i) ==
    /\ pc[i] \in Early => table[i] = {}
    /\ pc[i] = "build" => /\ ~Loading /\ at[i] \in clauses
                          /\ table[i] = {k \in Live : k < at[i]}
    /\ pc[i] = "link" => ~Loading /\ table[i] = Live

Follows(c) == IF where[c] = NoIndex THEN clauses ELSE table[where[c]]

Tables ==
    /\ index # NoIndex => pc[index] \notin Unlinked
    /\ index # NoIndex /\ index \notin late => ~Loading /\ table[index] = Live
    /\ \A i \in Calls : i \notin late => Made(i)
    /\ \A c \in Calls : where[c] # NoIndex => pc[where[c]] \notin Unlinked
    /\ \A c \in Calls : where[c] # NoIndex /\ where[c] \notin late => Whole(Follows(c))

VisibleTo(c) == VisibleAt(gen[c])

\* The frame of a call.
Dates(c) ==
    c \in Framed /\ pc[c] # "opened" =>
        gen[c] <= generation /\ Initial(VisibleTo(c)) /\ VisibleTo(c) \subseteq clauses

\* A call that has found nothing yet, and began between two loads, is still there.
Calm(c) ==
    /\ pc[c] \in {"closed", "returned"} => c \notin calm
    /\ c \in calm /\ pc[c] # "running" => ~Loading
    /\ c \in calm /\ pc[c] \notin {"opened", "running", "undefined"} => VisibleTo(c) = Live
    /\ c \in calm /\ pc[c] \in {"S_UNDEF", "undefined"} => lateUndef

\* What it is about to do.
Chosen(c) ==
    /\ pc[c] \in Unlinked => where[c] = NoIndex
    /\ pc[c] # "running" => seen[c] = {}
    /\ pc[c] = "S_TRUSTME" => Initial({at[c]})
    /\ pc[c] = "S_TRUSTME" /\ c \in calm => Whole({at[c]})
    /\ pc[c] = "S_STATIC" => at[c] = NoClause
    /\ c \in calm /\ pc[c] = "table" /\ where[c] \notin late => VisibleTo(c) = Follows(c)

\* How far it is.
Given(c) ==
    pc[c] = "running" /\ Trusted(c) =>
        /\ Initial(seen[c])
        /\ at[c] = NoClause /\ c \in calm => Whole(seen[c])
        /\ at[c] # NoClause => seen[c] = {k \in VisibleTo(c) \cap Follows(c) : k < at[c]}
        /\ at[c] # NoClause /\ c \in calm => Whole(VisibleTo(c)) /\ VisibleTo(c) \subseteq Follows(c)

Walk(c) == Dates(c) /\ Calm(c) /\ Chosen(c) /\ Given(c)

ProgramInv ==
    Inv /\ Types /\ Dated /\ Codes /\ Tables /\ \A c \in Calls : Walk(c)

-----------------------------------------------------------------------------
(***************************************************************************)
(* Numbers of loads.                                                       *)
(***************************************************************************)


\* The loads of the file follow each other.
LEMMA LoadsFollow ==
    ASSUME NEW L \in Nat, NEW M \in Nat
    PROVE  /\ L * N \in Nat /\ (L - 1) * N = L * N - N
           /\ L < M => L * N <= M * N - N
           /\ L * N < M * N => L < M
           /\ L * N = N * L
<1>1. N \in Nat /\ N > 0
  BY SizesAssumption
<1>2. L * N \in Nat /\ M * N \in Nat /\ (L - 1) * N = L * N - N /\ L * N = N * L
  BY <1>1
<1>3. ASSUME NEW A \in Nat, NEW B \in Nat, A < B PROVE A * N <= B * N - N
  <2>1. PICK d \in Nat : B = A + 1 + d
    <3>1. B - A - 1 \in Nat /\ B = A + 1 + (B - A - 1)
      BY <1>3
    <3> QED
      BY <3>1
  <2>2. B * N = A * N + N + d * N /\ d * N \in Nat /\ A * N \in Nat
    BY <1>1, <2>1
  <2> QED
    BY <1>1, <2>2
<1>4. L < M => L * N <= M * N - N
  BY <1>3
<1>5. M < L => M * N <= L * N - N
  BY <1>3
<1>6. L * N < M * N => L < M
  <2>1. L = M => L * N = M * N
    OBVIOUS
  <2> QED
    BY <1>1, <1>2, <1>5, <2>1
<1> QED
  BY <1>2, <1>4, <1>6

\* A clause belongs to one load.
LEMMA OneLoad ==
    ASSUME NEW L \in 1 .. Loads
    PROVE  /\ Program(L) \subseteq Clauses /\ Program(L) # {} /\ L * N \in Program(L)
           /\ \A k \in Program(L) : k \in Nat /\ (L - 1) * N < k /\ k <= L * N
           /\ \A k \in Nat : (L - 1) * N < k /\ k <= L * N => k \in Program(L)
           /\ \A M \in 1 .. Loads : \A k \in Program(L) \cap Program(M) : L = M
<1>1. N \in Nat /\ N > 0 /\ Loads \in Nat /\ L \in Nat /\ L >= 1 /\ L <= Loads
  BY SizesAssumption
<1>2. /\ L * N \in Nat /\ (L - 1) * N = L * N - N /\ N <= L * N /\ L * N <= Loads * N
      /\ Loads * N = N * Loads
  <2>1. 1 * N = N /\ 1 \in Nat
    BY <1>1
  <2>2. L = 1 \/ 1 < L
    BY <1>1
  <2>3. L = Loads \/ L < Loads
    BY <1>1
  <2>4. N <= L * N
    BY <1>1, <2>1, <2>2, LoadsFollow
  <2>5. L * N <= Loads * N
    BY <1>1, <2>3, LoadsFollow
  <2> QED
    BY <1>1, <2>4, <2>5, LoadsFollow
<1>3. \A k \in Program(L) : k \in Nat /\ (L - 1) * N < k /\ k <= L * N
  BY <1>1, <1>2 DEF Program
<1>4. \A k \in Nat : (L - 1) * N < k /\ k <= L * N => k \in Program(L)
  BY <1>1, <1>2 DEF Program
<1>5. L * N \in Program(L)
  BY <1>1, <1>2, <1>4
<1>6. Program(L) \subseteq Clauses
  BY <1>1, <1>2, <1>3 DEF Clauses
<1>7. ASSUME NEW M \in 1 .. Loads, NEW k \in Program(L) \cap Program(M) PROVE L = M
  <2>1. M \in Nat /\ (M - 1) * N = M * N - N /\ M * N \in Nat
    BY <1>1, LoadsFollow
  <2>2. k \in Nat /\ M * N - N < k /\ k <= M * N
    BY <2>1, <1>1 DEF Program
  <2>3. k \in Nat /\ L * N - N < k /\ k <= L * N
    BY <1>2, <1>3
  <2>4. ~(L < M)
    BY <1>1, <1>2, <2>1, <2>2, <2>3, LoadsFollow
  <2>5. ~(M < L)
    BY <1>1, <1>2, <2>1, <2>2, <2>3, LoadsFollow
  <2> QED
    BY <1>1, <2>1, <2>4, <2>5
<1> QED
  BY <1>3, <1>4, <1>5, <1>6, <1>7

\* The last clause of a load is the one whose number N divides.
LEMMA LastOfLoad ==
    ASSUME NEW L \in 1 .. Loads, NEW k \in Program(L)
    PROVE  k % N = 0 <=> k = L * N
<1>1. N \in Nat /\ N > 0 /\ L \in Nat
  BY SizesAssumption
<1>2. k \in Nat /\ L * N \in Nat /\ L * N - N < k /\ k <= L * N /\ (L - 1) * N = L * N - N
  BY <1>1, OneLoad, LoadsFollow
<1>3. (L * N) % N = 0
  BY <1>1, <1>2
<1>4. ASSUME k # L * N PROVE k % N # 0
  <2>1. PICK r \in 1 .. N - 1 : k = (L - 1) * N + r
    <3>1. k - (L - 1) * N \in 1 .. N - 1
      BY <1>1, <1>2, <1>4
    <3>2. k = (L - 1) * N + (k - (L - 1) * N)
      BY <1>1, <1>2
    <3> QED
      BY <3>1, <3>2
  <2>2. k % N = r
    BY <1>1, <1>2, <2>1
  <2> QED
    BY <2>2
<1> QED
  BY <1>3, <1>4

LEMMA NoneIsInitial == Initial({})
<1>1. 1 \in 1 .. Loads
  BY SizesAssumption
<1> QED
  BY <1>1 DEF Initial

LEMMA WholeIsInitial == ASSUME NEW S, Whole(S) PROVE Initial(S) /\ S # {} /\ S \subseteq Clauses
BY OneLoad DEF Whole, Initial

\* What is visible on a chain before a clause.
LEMMA CutInitial ==
    ASSUME NEW V, NEW Q, Initial(V), V \subseteq Q \/ Whole(Q)
    PROVE  /\ Initial(V \cap Q)
           /\ \A a \in Nat : Initial({k \in V \cap Q : k < a})
<1>1. PICK L \in 1 .. Loads :
          V \subseteq Program(L) /\ \A k \in V : \A j \in Program(L) : j < k => j \in V
  BY DEF Initial
<1>2. V \subseteq Q \/ (\A k \in V : k \in Q => Q = Program(L))
  BY <1>1, OneLoad DEF Whole
<1>3. /\ V \cap Q \subseteq Program(L)
      /\ \A k \in V \cap Q : \A j \in Program(L) : j < k => j \in V \cap Q
  BY <1>1, <1>2
<1>4. Initial(V \cap Q)
  BY <1>3 DEF Initial
<1>5. ASSUME NEW a \in Nat PROVE Initial({k \in V \cap Q : k < a})
  <2> DEFINE cut == {k \in V \cap Q : k < a}
  <2>1. cut \subseteq Program(L)
    BY <1>3
  <2>2. ASSUME NEW k \in cut, NEW j \in Program(L), j < k PROVE j \in cut
    <3>1. k \in Nat /\ j \in Nat /\ k < a /\ k \in V \cap Q
      BY <2>1, OneLoad
    <3>2. j < a
      BY <2>2, <3>1
    <3> QED
      BY <2>2, <3>1, <3>2, <1>3
  <2> QED
    BY <2>1, <2>2 DEF Initial
<1> QED
  BY <1>4, <1>5

-----------------------------------------------------------------------------
(***************************************************************************)
(* What a walk finds.                                                      *)
(***************************************************************************)

\* A clause that has its generations is visible or not.
LEMMA Seen ==
    ASSUME Types, NEW g \in Nat, NEW k \in Clauses, created[k] # 0
    PROVE  /\ TRUE \in Visible(k, g) <=> k \in VisibleAt(g)
           /\ FALSE \in Visible(k, g) <=> k \notin VisibleAt(g)
BY DEF Visible, VisibleAt

\* The first clause that is visible, if all up to it have their generations.
LEMMA Found ==
    ASSUME Types, NEW g \in Nat, NEW S \in SUBSET Clauses, NEW r \in FirstVisible(S, g),
           ~Undated(Passed(S, r))
    PROVE  /\ r # NoClause => /\ r \in S \cap VisibleAt(g)
                              /\ \A k \in S : k < r => k \notin VisibleAt(g)
           /\ r = NoClause => S \cap VisibleAt(g) = {}
<1>1. \A k \in S : k \in Nat /\ k # 0
  BY LastClause DEF Clauses
<1>2. ASSUME r # NoClause
      PROVE  r \in S \cap VisibleAt(g) /\ \A k \in S : k < r => k \notin VisibleAt(g)
  <2>1. r \in S /\ TRUE \in Visible(r, g) /\ \A k \in S : k < r => FALSE \in Visible(k, g)
    BY <1>2 DEF FirstVisible
  <2>2. \A k \in S : k <= r => created[k] # 0
    BY <1>2 DEF Undated, Passed
  <2>3. r <= r /\ \A k \in S : k < r => k <= r
    BY <1>1, <2>1
  <2> QED
    BY <2>1, <2>2, <2>3, Seen
<1>3. ASSUME r = NoClause PROVE S \cap VisibleAt(g) = {}
  <2>1. \A k \in S : FALSE \in Visible(k, g)
    BY <1>1, <1>3 DEF FirstVisible, NoClause
  <2>2. \A k \in S : created[k] # 0
    BY <1>3 DEF Undated, Passed
  <2> QED
    BY <2>1, <2>2, Seen
<1> QED
  BY <1>2, <1>3

\* A step of the walk along dated clauses: what it gives is what is visible up to where
\* it stops.
LEMMA ScanGives ==
    ASSUME Inv, Types, NEW c \in Calls, NEW from \in Nat, Scan(c, from), where' = where,
           Follows(c) \subseteq Clauses, gen[c] \in Nat, c \notin glimpsed',
           ~Crash(c),
           seen[c] = {k \in VisibleTo(c) \cap Follows(c) : k < from}
    PROVE  /\ at'[c] # NoClause =>
                  /\ at'[c] \in Nat
                  /\ seen'[c] = {k \in VisibleTo(c) \cap Follows(c) : k < at'[c]}
           /\ at'[c] = NoClause => seen'[c] = VisibleTo(c) \cap Follows(c)
<1> DEFINE V == VisibleTo(c)
           Q == Follows(c)
           ahead == {k \in Q : k >= from}
<1>1. Chain(c) = Q
  BY DEF Chain, Follows
<1>2. Q \subseteq Nat /\ \A k \in Q : k \in Clauses /\ k # 0
  BY LastClause DEF Clauses
<1>3. PICK r \in FirstVisible(ahead, gen[c]) :
         LET next == IF r = NoClause THEN {} ELSE {k \in ahead : k > r} IN
           /\ seen' = [seen EXCEPT ![c] = @ \cup ({r} \ {NoClause})]
           /\ \/ \E n \in FirstVisible(next, gen[c]) :
                    /\ at' = [at EXCEPT ![c] = n]
                    /\ glimpsed' = IF Undated(Passed(ahead, r) \cup Passed(next, n))
                                   THEN glimpsed \cup {c} ELSE glimpsed
              \/ /\ next # {}
                 /\ at' = [at EXCEPT ![c] = Min(next)]
                 /\ glimpsed' = IF Undated(Passed(ahead, r))
                                THEN glimpsed \cup {c} ELSE glimpsed
  BY <1>1 DEF Scan
<1> DEFINE next == IF r = NoClause THEN {} ELSE {k \in ahead : k > r}
<1>4. seen'[c] = seen[c] \cup ({r} \ {NoClause}) /\ at \in [Calls -> Nat]
  BY <1>3 DEF Types, Inv, TypeOK
<1>5. ~Undated(Passed(ahead, r))
  BY <1>3 DEF Undated
<1>6. ahead \in SUBSET Clauses /\ next \in SUBSET Clauses /\ next \in SUBSET Nat
  BY <1>2
<1>7. /\ r # NoClause => r \in ahead /\ r \in V /\ \A k \in ahead : k < r => k \notin V
      /\ r = NoClause => \A k \in ahead : k \notin V
  <2> HIDE DEF ahead
  <2> QED
    BY <1>5, <1>6, Found DEF VisibleTo
<1>8. /\ at'[c] # NoClause => at'[c] \in next /\ \A k \in next : k < at'[c] => k \notin V
      /\ at'[c] = NoClause => \A k \in next : k \notin V
  <2>1. CASE \E n \in FirstVisible(next, gen[c]) :
                    /\ at' = [at EXCEPT ![c] = n]
                    /\ glimpsed' = IF Undated(Passed(ahead, r) \cup Passed(next, n))
                                   THEN glimpsed \cup {c} ELSE glimpsed
    <3>1. PICK n \in FirstVisible(next, gen[c]) :
                    /\ at' = [at EXCEPT ![c] = n]
                    /\ glimpsed' = IF Undated(Passed(ahead, r) \cup Passed(next, n))
                                   THEN glimpsed \cup {c} ELSE glimpsed
      BY <2>1
    <3>2. at'[c] = n /\ ~Undated(Passed(next, n))
      BY <1>4, <3>1 DEF Undated
    <3> HIDE DEF next
    <3> QED
      BY <3>2, <1>6, Found DEF VisibleTo
  <2>2. CASE next # {} /\ at' = [at EXCEPT ![c] = Min(next)]
    <3> HIDE DEF next
    <3>1. at'[c] = Min(next) /\ Min(next) \in next /\ \A k \in next : Min(next) <= k
      BY <1>4, <1>6, <2>2, MinClause
    <3>2. \A k \in next : ~(k < Min(next))
      <4>1. Min(next) \in Nat /\ \A k \in next : k \in Nat
        BY <1>6, <3>1
      <4> QED
        BY <3>1, <4>1
    <3>3. at'[c] # NoClause
      BY <1>6, <3>1, LastClause DEF NoClause, Clauses
    <3> QED
      BY <3>1, <3>2, <3>3
  <2> QED
    BY <1>3, <2>1, <2>2
<1>9. ASSUME at'[c] # NoClause
      PROVE  at'[c] \in Nat /\ seen'[c] = {k \in V \cap Q : k < at'[c]}
  <2>1. r # NoClause /\ at'[c] \in next /\ r \in ahead
    BY <1>7, <1>8, <1>9
  <2>2. at'[c] \in Nat /\ r \in Nat /\ r < at'[c] /\ r \in V \cap Q /\ r >= from
    BY <1>2, <1>7, <2>1
  <2>3. \A k \in V \cap Q : k < at'[c] <=> k < from \/ k = r
    <3> SUFFICES ASSUME NEW k \in V \cap Q PROVE k < at'[c] <=> k < from \/ k = r
      OBVIOUS
    <3>1. k \in Nat
      BY <1>2
    <3>2. k >= from /\ k < r => k \notin V
      BY <1>7, <2>1
    <3>3. k >= from /\ k > r /\ k < at'[c] => k \notin V
      BY <1>8, <1>9, <2>1
    <3> QED
      BY <2>2, <3>1, <3>2, <3>3
  <2>4. seen'[c] = seen[c] \cup {r}
    BY <1>4, <2>1
  <2> QED
    BY <2>2, <2>3, <2>4
<1>10. ASSUME at'[c] = NoClause PROVE seen'[c] = V \cap Q
  <2>1. \A k \in V \cap Q : k < from \/ k = r
    <3> SUFFICES ASSUME NEW k \in V \cap Q, k >= from PROVE k = r
      BY <1>2
    <3>1. k \in ahead /\ k \in Nat
      BY <1>2
    <3>2. r # NoClause /\ r \in Nat /\ ~(k < r)
      BY <1>2, <1>7, <3>1
    <3>3. ~(k > r)
      BY <1>8, <1>10, <3>1, <3>2
    <3> QED
      BY <3>1, <3>2, <3>3
  <2>2. r # NoClause => r \in V \cap Q
    BY <1>7
  <2>3. CASE r = NoClause
    <3>1. seen'[c] = seen[c]
      BY <1>4, <2>3
    <3>2. \A k \in V \cap Q : k < from
      BY <1>2, <1>7, <2>3
    <3> QED
      BY <3>1, <3>2
  <2>4. CASE r # NoClause
    <3>1. seen'[c] = seen[c] \cup {r}
      BY <1>4, <2>4
    <3> QED
      BY <3>1, <2>1, <2>2, <2>4
  <2> QED
    BY <2>3, <2>4
<1> QED
  BY <1>9, <1>10

-----------------------------------------------------------------------------
(***************************************************************************)
(* What the step of a call leaves alone.                                   *)
(***************************************************************************)

Elsewhere(c) ==
    /\ UNCHANGED <<clauses, made, created, erased, generation, loader>>
    /\ late' \in {late, late \cup {c}} /\ (lateUndef => lateUndef')
    /\ table'[c] = table[c] \/ pc[c] = "build"
    /\ \A d \in Calls \ {c} :
          /\ pc'[d] = pc[d] /\ gen'[d] = gen[d] /\ where'[d] = where[d] /\ at'[d] = at[d]
          /\ seen'[d] = seen[d] /\ table'[d] = table[d]
          /\ (d \in calm' <=> d \in calm) /\ (d \in glimpsed' <=> d \in glimpsed)

LEMMA CallElsewhere ==
    ASSUME Inv, Types, NEW c \in Calls, CallStep(c) PROVE Elsewhere(c) /\ Types'
<1>1. /\ pc \in [Calls -> Places] /\ at \in [Calls -> Nat] /\ table \in [Calls -> SUBSET Nat]
      /\ where \in [Calls -> Calls \cup {NoIndex}] /\ clauses \in SUBSET Nat
      /\ gen \in [Calls -> Nat] /\ seen \in [Calls -> SUBSET Nat] /\ generation \in Nat
      /\ created \in [Clauses -> Nat]
  BY DEF Inv, TypeOK, Types
<1>2. CASE OpenFrame(c)
  BY <1>1, <1>2 DEF OpenFrame, Goto, Elsewhere, Types, clauseVars, indexVars
<1>3. CASE SetGeneration(c)
  BY <1>1, <1>3 DEF SetGeneration, Goto, Elsewhere, Types, clauseVars, indexVars, history
<1>4. CASE Dispatch(c)
  BY <1>1, <1>4 DEF Dispatch, Goto, Elsewhere, Types, clauseVars, indexVars, history
<1>5. CASE SVirgin(c) \/ TrapUndefined(c) \/ StoreUndef(c) \/ CreateSupervisor(c) \/ SUndef(c)
        \/ NoClauses(c)
  <2>1. \E place : pc' = [pc EXCEPT ![c] = place]
    BY <1>5 DEF SVirgin, TrapUndefined, StoreUndef, CreateSupervisor, SUndef, NoClauses, Goto
  <2>2. UNCHANGED <<clauses, made, created, erased, generation, table, loader, gen, where, at,
                    seen, calm, glimpsed, late>>
    BY <1>5 DEF SVirgin, TrapUndefined, StoreUndef, CreateSupervisor, SUndef, NoClauses,
       clauseVars, indexVars, history
  <2>3. lateUndef => lateUndef'
    BY <1>5 DEF SVirgin, TrapUndefined, StoreUndef, CreateSupervisor, SUndef, NoClauses, history
  <2> QED
    BY <1>1, <2>1, <2>2, <2>3 DEF Elsewhere, Types
<1>6. CASE UseIndex(c)
  BY <1>1, <1>6 DEF UseIndex, Goto, Elsewhere, Types, clauseVars, indexVars, history
<1>7. CASE STrustMe(c)
  <2>1. /\ UNCHANGED <<clauses, made, created, erased, generation, loader, gen, where, table,
                       calm, late, lateUndef, glimpsed>>
    BY <1>7 DEF STrustMe, clauseVars, indexVars, Crash
  <2>2. CASE UNCHANGED <<pc, at, seen>>
    BY <1>1, <2>1, <2>2 DEF Elsewhere, Types
  <2>3. CASE /\ seen' = [seen EXCEPT ![c] = {at[c]}] /\ at' = [at EXCEPT ![c] = NoClause]
             /\ pc' = [pc EXCEPT ![c] = "running"]
    BY <1>1, <2>1, <2>3 DEF Elsewhere, Types
  <2> QED
    BY <1>7, <2>2, <2>3 DEF STrustMe, Crash, Goto
<1>8. CASE FirstInTable(c) \/ UseList(c) \/ NextClause(c)
  <2>1. /\ UNCHANGED <<clauses, made, created, erased, generation, loader, gen, where, table,
                       calm, late, lateUndef>>
        /\ \E from \in Nat : Scan(c, from)
    BY <1>1, <1>8 DEF FirstInTable, UseList, NextClause, clauseVars, indexVars
  <2>2. CASE Crash(c)
    BY <1>1, <2>1, <2>2 DEF Crash, Elsewhere, Types
  <2>3. CASE ~Crash(c)
    <3>1. PICK from \in Nat : Scan(c, from)
      BY <2>1
    <3> DEFINE ahead == {k \in Chain(c) : k >= from}
    <3>2. PICK r \in FirstVisible(ahead, gen[c]) :
             /\ seen' = [seen EXCEPT ![c] = @ \cup ({r} \ {NoClause})]
             /\ \E a : at' = [at EXCEPT ![c] = a]
             /\ glimpsed' \in {glimpsed, glimpsed \cup {c}} /\ Goto(c, "running")
      BY <2>3, <3>1 DEF Scan
    <3>3. Chain(c) \subseteq Nat
      BY <1>1, <2>1 DEF Chain
    <3>4. r \in Nat
      <4>1. r \in ahead \/ r = 0
        BY DEF FirstVisible, NoClause
      <4> QED
        BY <3>3, <4>1
    <3>5. seen' \in [Calls -> SUBSET Nat]
      BY <1>1, <3>2, <3>4
    <3>6. ASSUME NEW d \in Calls \ {c}
          PROVE  at'[d] = at[d] /\ pc'[d] = pc[d] /\ seen'[d] = seen[d]
      BY <1>1, <3>2 DEF Goto
    <3>7. ASSUME NEW d \in Calls \ {c} PROVE d \in glimpsed' <=> d \in glimpsed
      BY <3>2
    <3> QED
      BY <1>1, <2>1, <3>5, <3>6, <3>7 DEF Elsewhere, Types
  <2> QED
    BY <2>2, <2>3
<1>9. CASE BeginHash(c) \/ LinkIndex(c) \/ LeaveFrame(c)
  BY <1>1, <1>9 DEF BeginHash, LinkIndex, LeaveFrame, Goto, Elsewhere,
     Types, clauseVars, indexVars, history
<1>10. CASE HashClause(c)
  <2>1. /\ UNCHANGED <<clauses, made, created, erased, generation, loader, gen, where,
                       calm, late, lateUndef, glimpsed, seen>> /\ pc[c] = "build"
        /\ pc' = pc \/ pc' = [pc EXCEPT ![c] = "link"]
        /\ at' = at \/ \E a : at' = [at EXCEPT ![c] = a]
        /\ table' = table \/ \E T : table' = [table EXCEPT ![c] = T]
    BY <1>10 DEF HashClause, clauseVars, Crash, Goto
  <2>2. \A d \in Calls \ {c} : pc'[d] = pc[d] /\ at'[d] = at[d] /\ table'[d] = table[d]
    BY <1>1, <2>1
  <2> QED
    BY <1>1, <2>1, <2>2 DEF Elsewhere, Types
<1> QED
  BY <1>2, <1>3, <1>4, <1>5, <1>6, <1>7, <1>8, <1>9, <1>10 DEF CallStep

\* The clauses stay as they are.
LEMMA DatedKept ==
    ASSUME Dated, NEW c \in Calls, Elsewhere(c)
    PROVE  /\ Dated' /\ Live' = Live /\ (Loading' <=> Loading) /\ (Locked' <=> Locked)
           /\ \A g : VisibleAt(g)' = VisibleAt(g)
<1>1. UNCHANGED <<clauses, made, created, erased, generation, loader>>
  BY DEF Elsewhere
<1>2. Live' = Live /\ (Loading' <=> Loading) /\ (Locked' <=> Locked)
  BY <1>1 DEF Live, Loading, Locked
<1>3. \A g : VisibleAt(g)' = VisibleAt(g)
  BY <1>1 DEF VisibleAt
<1>4. Dated'
  BY <1>1, <1>2 DEF Dated, Current
<1> QED
  BY <1>2, <1>3, <1>4

LEMMA OthersWalk ==
    ASSUME ProgramInv, NEW c \in Calls, Elsewhere(c), NEW d \in Calls, d # c
    PROVE  Walk(d)'
<1>1. /\ UNCHANGED <<clauses, generation, Live>> /\ (Loading' <=> Loading)
      /\ late \subseteq late' /\ (lateUndef => lateUndef')
      /\ pc'[d] = pc[d] /\ gen'[d] = gen[d] /\ where'[d] = where[d] /\ at'[d] = at[d]
      /\ seen'[d] = seen[d] /\ (d \in calm' <=> d \in calm) /\ (d \in glimpsed' <=> d \in glimpsed)
  BY DatedKept DEF Elsewhere, ProgramInv
<1>2. VisibleTo(d)' = VisibleTo(d)
  BY <1>1 DEF VisibleTo, VisibleAt, Elsewhere
<1>3. Follows(d)' = Follows(d)
  <2>1. where[d] \in Calls \cup {NoIndex} /\ (where[d] # NoIndex => pc[where[d]] \notin Unlinked)
    BY DEF ProgramInv, Inv, TypeOK, Tables
  <2>2. where[d] # NoIndex => table'[where[d]] = table[where[d]]
    BY <2>1 DEF Elsewhere, Unlinked
  <2> QED
    BY <1>1, <2>2 DEF Follows
<1>4. Walk(d)
  BY DEF ProgramInv
<1>5. Dates(d)'
  BY <1>1, <1>2, <1>4 DEF Walk, Dates, Framed
<1>6. Calm(d)'
  BY <1>1, <1>2, <1>4 DEF Walk, Calm
<1>7. Chosen(d)'
  BY <1>1, <1>2, <1>3, <1>4 DEF Walk, Chosen, Initial, Whole
<1>8. Given(d)'
  <2>1. Trusted(d)' => Trusted(d)
    BY <1>1 DEF Trusted
  <2> QED
    BY <1>1, <1>2, <1>3, <1>4, <2>1 DEF Walk, Given, Initial, Whole
<1> QED
  BY <1>5, <1>6, <1>7, <1>8 DEF Walk

\* Between two loads the clauses of the last one are there, all of them dated.
LEMMA LastLoad ==
    ASSUME Inv, Types, Dated, ~Loading
    PROVE  /\ Whole(Live) /\ Live # {} /\ Live \subseteq clauses
           /\ \A k \in Live : created[k] # 0
           /\ VisibleAt(generation) = Live
<1>1. PICK L \in 1 .. Loads : Live = {k \in Program(L) : k <= made} /\ made = L * N
  BY DEF Dated, Current
<1>2. Live = Program(L)
  BY <1>1, OneLoad
<1>3. ASSUME NEW k \in Live PROVE created[k] # 0 /\ k \in VisibleAt(generation)
  <2>1. k \in Clauses /\ k <= made /\ k \in Nat /\ made \in Nat /\ loader # "linked"
    BY <1>1, <1>2, OneLoad DEF Loading, Inv, TypeOK
  <2>2. created[k] # 0 /\ created[k] <= generation /\ erased[k] = 0
    BY <2>1 DEF Dated, Live
  <2> QED
    BY <2>1, <2>2 DEF VisibleAt
<1>4. ASSUME NEW k \in VisibleAt(generation) PROVE k \in Live
  <2>1. /\ k \in Clauses /\ created[k] # 0 /\ erased[k] = 0
        /\ k \in Nat /\ made \in Nat
    BY LastClause DEF VisibleAt, Dated, Inv, TypeOK, Clauses
  <2>2. k \in 1 .. made
    BY <2>1, LastClause DEF Dated, Clauses
  <2> QED
    BY <2>1, <2>2 DEF Dated, Live
<1> QED
  BY <1>2, <1>3, <1>4, OneLoad DEF Whole, Live

\* What is visible to a frame that gets its generation now.
LEMMA NowVisible ==
    ASSUME Inv, Types, Dated
    PROVE  Initial(VisibleAt(generation)) /\ VisibleAt(generation) \subseteq clauses
<1>1. PICK L \in 1 .. Loads : Live = {k \in Program(L) : k <= made}
  BY DEF Dated, Current
<1>2. made \in Nat /\ generation \in Nat /\ erased \in [Clauses -> Nat]
      /\ created \in [Clauses -> Nat] /\ \A k \in Clauses : k \in Nat /\ k >= 1
  BY LastClause DEF Inv, TypeOK, Types, Clauses
<1>3. \A k \in Clauses : k \in VisibleAt(generation) <=> created[k] # 0 /\ erased[k] = 0
  BY <1>2 DEF VisibleAt, Dated
<1>4. \A k \in Clauses : k \in VisibleAt(generation)
                            <=> k \in Live /\ ~(loader = "linked" /\ k = made)
  <2> SUFFICES ASSUME NEW k \in Clauses
               PROVE  k \in VisibleAt(generation) <=> k \in Live /\ ~(loader = "linked" /\ k = made)
    OBVIOUS
  <2>1. created[k] = 0 <=> (k > made \/ (loader = "linked" /\ k = made))
    BY DEF Dated
  <2>2. k <= made /\ erased[k] = 0 <=> k \in Live
    <3>1. k \in Live => k <= made /\ erased[k] = 0
      BY <1>2 DEF Live, Inv, TypeOK
    <3>2. k <= made /\ erased[k] = 0 => k \in Live
      <4>1. k <= made => k \in 1 .. made
        BY <1>2
      <4> QED
        BY <4>1 DEF Dated, Live
    <3> QED
      BY <3>1, <3>2
  <2> QED
    BY <1>2, <1>3, <2>1, <2>2
<1>5. VisibleAt(generation) \subseteq clauses
  BY <1>4 DEF VisibleAt, Live
<1>6. ASSUME NEW k \in VisibleAt(generation), NEW j \in Program(L), j < k
      PROVE  j \in VisibleAt(generation)
  <2>1. k \in Clauses /\ k \in Live /\ k \in Nat /\ k <= made
    BY <1>1, <1>2, <1>4 DEF VisibleAt
  <2>2. j \in Clauses /\ j \in Nat /\ j <= made /\ j # made
    BY <1>2, <1>6, <2>1, OneLoad
  <2>3. j \in Live
    BY <1>1, <2>2
  <2> QED
    BY <1>4, <2>2, <2>3
<1>7. VisibleAt(generation) \subseteq Program(L)
  BY <1>1, <1>4 DEF VisibleAt
<1> QED
  BY <1>5, <1>6, <1>7 DEF Initial

\* A step of a call that makes no index leaves the indexes as they are, if the index
\* it takes is the one that is linked.
LEMMA TablesKept ==
    ASSUME ProgramInv, NEW c \in Calls, Elsewhere(c),
           index' = index, late' = late, table' = table,
           pc'[c] \in Unlinked => pc[c] \in Early /\ pc'[c] \in Early,
           where'[c] \in {NoIndex, where[c], index}
    PROVE  Tables'
<1>1. /\ Inv /\ Types /\ Dated /\ Tables /\ UNCHANGED <<clauses, Live>> /\ (Loading' <=> Loading)
  BY DatedKept DEF ProgramInv, Elsewhere
<1>2. ASSUME NEW i \in Calls PROVE pc[i] \notin Unlinked => pc'[i] \notin Unlinked
  BY DEF Elsewhere, Unlinked
<1>3. ASSUME NEW i \in Calls, i \notin late PROVE Made(i)'
  <2>1. Made(i)
    BY <1>1, <1>3 DEF Tables
  <2>2. CASE i = c
    <3>1. pc'[i] \in Early => table'[i] = {}
      BY <1>1, <2>1, <2>2 DEF Made, Unlinked
    <3>2. pc'[i] \notin {"build", "link"}
      BY <2>2 DEF Unlinked, Early, Instructions
    <3> QED
      BY <3>1, <3>2 DEF Made
  <2>3. CASE i # c
    <3>1. pc'[i] = pc[i] /\ at'[i] = at[i] /\ table'[i] = table[i]
      BY <2>3 DEF Elsewhere
    <3> QED
      BY <1>1, <2>1, <3>1 DEF Made
  <2> QED
    BY <2>2, <2>3
<1>4. index \in Calls \cup {NoIndex} /\ where \in [Calls -> Calls \cup {NoIndex}]
  BY <1>1 DEF Inv, TypeOK
<1>5. index' # NoIndex => pc'[index'] \notin Unlinked
  BY <1>1, <1>2, <1>4 DEF Tables
<1>6. index' # NoIndex /\ index' \notin late' => ~Loading' /\ table'[index'] = Live'
  BY <1>1 DEF Tables
<1>7. ASSUME NEW d \in Calls, where'[d] # NoIndex
      PROVE  pc'[where'[d]] \notin Unlinked /\ (where'[d] \notin late' => Whole(Follows(d)'))
  <2>1. where'[d] = where[d] \/ where'[d] = index
    BY <1>7 DEF Elsewhere
  <2>2. CASE where'[d] = index
    <3>1. pc'[index] \notin Unlinked
      BY <1>5, <1>7, <2>2
    <3>2. index \notin late => Follows(d)' = Live /\ ~Loading
      BY <1>1, <1>6, <1>7, <2>2 DEF Follows
    <3> QED
      BY <1>1, <2>2, <3>1, <3>2, LastLoad
  <2>3. CASE where'[d] = where[d]
    <3>1. where[d] \in Calls /\ pc[where[d]] \notin Unlinked
      BY <1>1, <1>4, <1>7, <2>3 DEF Tables
    <3>2. where[d] \notin late => Whole(Follows(d)) /\ Follows(d)' = Follows(d)
      BY <1>1, <1>7, <2>3 DEF Tables, Follows
    <3> QED
      BY <1>2, <2>3, <3>1, <3>2
  <2> QED
    BY <2>1, <2>2, <2>3
<1>8. \A d \in Calls : where'[d] # NoIndex /\ where'[d] \notin late' => Whole(Follows(d))'
  BY <1>7 DEF Whole
<1> QED
  BY <1>3, <1>5, <1>6, <1>7, <1>8 DEF Tables

-----------------------------------------------------------------------------
(***************************************************************************)
(* Steps of calls, and what they are given.                                *)
(***************************************************************************)

LEMMA CodesKept ==
    ASSUME ProgramInv, NEW c \in Calls, Elsewhere(c), codes' = codes
    PROVE  Codes'
<1>1. Codes /\ (lateUndef => lateUndef') /\ (Loading' <=> Loading)
  BY DatedKept DEF ProgramInv, Elsewhere
<1>2. codes.op = "S_UNDEF" => Loading' \/ lateUndef'
  BY <1>1 DEF Codes
<1>3. ~(codes.op = "S_TRUSTME" /\ ~Loading') \/ Whole({codes.clause})
  BY <1>1 DEF Codes
<1> QED
  BY <1>1, <1>2, <1>3 DEF Codes, Whole, Initial

LEMMA CallKeeps ==
    ASSUME ProgramInv, NEW c \in Calls, CallStep(c), Codes', Tables', Walk(c)'
    PROVE  Types' /\ Dated' /\ Codes' /\ Tables' /\ \A d \in Calls : Walk(d)'
<1>1. Elsewhere(c) /\ Types'
  BY CallElsewhere DEF ProgramInv
<1>2. Dated'
  BY <1>1, DatedKept DEF ProgramInv
<1>3. ASSUME NEW d \in Calls, d # c PROVE Walk(d)'
  BY <1>1, <1>3, OthersWalk
<1> QED
  BY <1>1, <1>2, <1>3

\* What a step of a call finds.
LEMMA Before ==
    ASSUME ProgramInv, NEW c \in Calls, Elsewhere(c)
    PROVE  /\ Inv /\ Types /\ Dated /\ Codes /\ Tables
           /\ Dates(c) /\ Calm(c) /\ Chosen(c) /\ Given(c)
           /\ pc[c] \in Places /\ at[c] \in Nat /\ gen[c] \in Nat
           /\ where[c] \in Calls \cup {NoIndex} /\ c # NoIndex
           /\ UNCHANGED <<clauses, generation, Live>> /\ (Loading' <=> Loading)
           /\ lateUndef => lateUndef'
           /\ gen'[c] = gen[c] => VisibleTo(c)' = VisibleTo(c)
           /\ where'[c] = where[c] /\ table' = table => Follows(c)' = Follows(c)
<1>1. /\ Inv /\ Types /\ Dated /\ Codes /\ Tables
      /\ Dates(c) /\ Calm(c) /\ Chosen(c) /\ Given(c)
  BY DEF ProgramInv, Walk
<1>2. /\ pc[c] \in Places /\ at[c] \in Nat /\ gen[c] \in Nat
      /\ where[c] \in Calls \cup {NoIndex} /\ c # NoIndex
  BY <1>1, CallsAssumption DEF Inv, TypeOK, Types
<1>3. UNCHANGED <<clauses, generation, Live>> /\ (Loading' <=> Loading) /\ (lateUndef => lateUndef')
  BY <1>1, DatedKept DEF Elsewhere
<1>4. gen'[c] = gen[c] => VisibleTo(c)' = VisibleTo(c)
  BY DEF VisibleTo, VisibleAt, Elsewhere
<1>5. where'[c] = where[c] /\ table' = table => Follows(c)' = Follows(c)
  BY DEF Follows, Elsewhere
<1> QED
  BY <1>1, <1>2, <1>3, <1>4, <1>5

\* A frame is opened, and gets its generation: if no load has gone on meanwhile, all of
\* the clauses are visible.
LEMMA OpenWalk ==
    ASSUME ProgramInv, NEW c \in Calls, Elsewhere(c), OpenFrame(c) \/ SetGeneration(c)
    PROVE  Codes' /\ Tables' /\ Walk(c)'
<1> USE DEF Early, Instructions, Unlinked, Places
<1>0. /\ pc \in [Calls -> Places] /\ gen \in [Calls -> Nat] /\ generation \in Nat
      /\ UNCHANGED <<codes, index, table, where, at, seen, late, lateUndef, glimpsed>>
  BY DEF ProgramInv, Inv, TypeOK, Types, OpenFrame, SetGeneration, indexVars, history
<1>1. CASE OpenFrame(c)
  <2>1. /\ pc[c] = "closed" /\ pc'[c] = "opened" /\ (c \in calm' => c \in calm \/ ~Loading)
    BY <1>0, <1>1 DEF OpenFrame, Goto
  <2>2. Walk(c)'
    BY <1>0, <2>1, Before DEF Walk, Dates, Calm, Chosen, Given
  <2>3. Tables'
    BY <1>0, <2>1, TablesKept
  <2> QED
    BY <1>0, <2>2, <2>3, CodesKept
<1>2. CASE SetGeneration(c)
  <2>1. /\ pc[c] = "opened" /\ pc'[c] = "entered" /\ calm' = calm /\ gen'[c] = generation
        /\ generation \in Nat
    BY <1>0, <1>2 DEF SetGeneration, Goto, history
  <2>2. VisibleTo(c)' = VisibleAt(generation)
    BY <2>1 DEF VisibleTo, VisibleAt, Elsewhere
  <2>3. Dates(c)'
    BY <2>1, <2>2, Before, NowVisible DEF Dates, Initial
  <2>4. Calm(c)'
    BY <1>0, <2>1, <2>2, Before, LastLoad DEF Calm
  <2>5. Chosen(c)' /\ Given(c)'
    BY <1>0, <2>1, Before DEF Chosen, Given
  <2>6. Tables'
    BY <1>0, <2>1, TablesKept
  <2> QED
    BY <1>0, <2>3, <2>4, <2>5, <2>6, CodesKept DEF Walk
<1> QED
  BY <1>1, <1>2

\* The supervisor that a call that began between two loads finds is that of all clauses.
LEMMA DispatchWalk ==
    ASSUME ProgramInv, NEW c \in Calls, Elsewhere(c), Dispatch(c)
    PROVE  Codes' /\ Tables' /\ Walk(c)'
<1> USE DEF Early, Instructions, Unlinked, Places
<1>1. /\ pc[c] = "entered" /\ pc'[c] = codes.op /\ at'[c] = codes.clause
      /\ codes.op \in Instructions
      /\ UNCHANGED <<codes, index, table, where, gen, seen, late, lateUndef, glimpsed, calm>>
  BY DEF ProgramInv, Inv, TypeOK, Dispatch, Goto, indexVars, history
<1>2. Tables'
  BY <1>1, TablesKept
<1>3. c \in calm => ~Loading
  BY <1>1, Before DEF Calm
<1>4. Dates(c)'
  BY <1>1, Before DEF Dates, Framed, Initial
<1>5. Calm(c)'
  BY <1>1, <1>3, Before DEF Calm, Codes
<1>6. Chosen(c)'
  BY <1>1, <1>3, Before DEF Chosen, Codes, Initial, Whole
<1>7. Given(c)'
  BY <1>1 DEF Given
<1> QED
  BY <1>1, <1>2, <1>4, <1>5, <1>6, <1>7, CodesKept DEF Walk

\* Looking for clauses and making a supervisor changes nothing for the call itself.
LEMMA PrepareWalk ==
    ASSUME ProgramInv, NEW c \in Calls, Elsewhere(c),
           pc[c] \in Early, pc'[c] \in {"entered", "trapped", "undefining", "supervise"},
           pc[c] \notin {"closed", "opened"},
           UNCHANGED <<index, table, where, gen, at, seen, late, glimpsed, calm>>
    PROVE  Tables' /\ Walk(c)'
<1> USE DEF Early, Instructions, Unlinked, Places
<1>1. Tables'
  BY TablesKept
<1>2. Dates(c)'
  BY Before DEF Dates, Framed, Initial
<1>3. Calm(c)' /\ Chosen(c)' /\ Given(c)'
  BY Before DEF Calm, Chosen, Given
<1> QED
  BY <1>1, <1>2, <1>3 DEF Walk

\* A supervisor is made of the clauses there are.
LEMMA SuperviseWalk ==
    ASSUME ProgramInv, NEW c \in Calls, Elsewhere(c),
           SVirgin(c) \/ TrapUndefined(c) \/ StoreUndef(c) \/ CreateSupervisor(c)
    PROVE  Codes' /\ Tables' /\ Walk(c)'
<1>1. /\ pc[c] \in Early /\ pc[c] \notin {"closed", "opened"}
      /\ pc'[c] \in {"entered", "trapped", "undefining", "supervise"}
      /\ UNCHANGED <<index, table, where, gen, at, seen, late, glimpsed, calm>>
  BY DEF ProgramInv, Inv, TypeOK, SVirgin, TrapUndefined, StoreUndef, CreateSupervisor, Goto,
     indexVars, history, Early, Instructions
<1>2. Tables' /\ Walk(c)'
  BY <1>1, PrepareWalk
<1>3. CASE SVirgin(c) \/ TrapUndefined(c)
  <2>1. codes' = codes
    BY <1>3 DEF SVirgin, TrapUndefined
  <2> QED
    BY <1>2, <2>1, CodesKept
<1>4. CASE StoreUndef(c)
  <2>1. codes' = Supervisor("S_UNDEF") /\ (Live # {} => lateUndef') /\ (Loading' <=> Loading)
    BY <1>4, DatedKept DEF StoreUndef, ProgramInv
  <2>2. Loading \/ lateUndef'
    BY <2>1, Before, LastLoad
  <2>3. Codes'
    BY <2>1, <2>2 DEF Codes, Supervisor
  <2> QED
    BY <1>2, <2>3
<1>5. CASE CreateSupervisor(c)
  <2>1. Inv /\ Types /\ Dated /\ (Loading' <=> Loading) /\ ~Locked
    BY <1>5, Before DEF CreateSupervisor
  <2>2. CASE Live = {}
    <3>1. Loading /\ codes' = Supervisor("S_UNDEF")
      BY <1>5, <2>1, <2>2, LastLoad DEF CreateSupervisor
    <3> QED
      BY <1>2, <2>1, <3>1 DEF Codes, Supervisor
  <2>3. CASE Live # {} /\ Cardinality(Live) = 1
    <3> DEFINE k == CHOOSE k \in Live : TRUE
    <3>1. codes' = TrustMe(k) /\ k \in Live
      BY <1>5, <2>3 DEF CreateSupervisor
    <3>2. Live = {k}
      <4>1. IsFiniteSet(Live)
        <5>1. clauses \in SUBSET (1 .. made) /\ made \in Int /\ 1 \in Int
          BY <2>1 DEF Inv, TypeOK
        <5>2. IsFiniteSet(1 .. made)
          BY <5>1, FS_Interval
        <5>3. Live \subseteq 1 .. made
          BY <5>1 DEF Live
        <5> QED
          BY <5>2, <5>3, FS_Subset
      <4> HIDE DEF k
      <4>2. Cardinality(Live \ {k}) = 0
        BY <2>3, <3>1, <4>1, FS_RemoveElement
      <4>3. Live \ {k} = {}
        BY <4>1, <4>2, FS_Subset, FS_EmptySet
      <4> QED
        BY <3>1, <4>3
    <3>3. Initial({k})
      <4>1. PICK L \in 1 .. Loads : Live = {j \in Program(L) : j <= made}
        BY <2>1 DEF Dated, Current
      <4>2. ASSUME NEW j \in Program(L), j < k PROVE j \in {k}
        <5>1. j \in Nat /\ k \in Nat /\ k <= made /\ made \in Nat
          BY <3>1, <4>1, <2>1, OneLoad DEF Inv, TypeOK
        <5>2. j \in Live
          BY <4>1, <4>2, <5>1
        <5> QED
          BY <3>2, <5>2
      <4>3. {k} \subseteq Program(L)
        BY <3>2, <4>1
      <4> HIDE DEF k
      <4> QED
        BY <4>2, <4>3 DEF Initial
    <3>4. ~Loading => Whole({k})
      BY <2>1, <3>2, LastLoad
    <3> HIDE DEF k
    <3>5. Codes'
      BY <2>1, <3>1, <3>3, <3>4 DEF Codes, TrustMe, Initial, Whole
    <3> QED
      BY <1>2, <3>5
  <2>4. CASE codes' = Supervisor("S_STATIC")
    BY <1>2, <2>4 DEF Codes, Supervisor
  <2> QED
    BY <1>5, <2>2, <2>3, <2>4 DEF CreateSupervisor
<1> QED
  BY <1>3, <1>4, <1>5

\* S_UNDEF, S_TRUSTME, and no clauses.
LEMMA ShortWalk ==
    ASSUME ProgramInv, NEW c \in Calls, Elsewhere(c), SUndef(c) \/ STrustMe(c) \/ NoClauses(c)
    PROVE  Codes' /\ Tables' /\ Walk(c)'
<1> USE DEF Early, Instructions, Unlinked, Places
<1>1. /\ pc \in [Calls -> Places] /\ at \in [Calls -> Nat] /\ seen \in [Calls -> SUBSET Nat]
      /\ UNCHANGED <<codes, index, table, where, gen, late, lateUndef, glimpsed, calm>>
  BY DEF ProgramInv, Inv, TypeOK, Types, SUndef, STrustMe, NoClauses, Crash, indexVars, history
<1>2. CASE SUndef(c)
  <2>1. pc[c] = "S_UNDEF" /\ pc'[c] = "undefined" /\ UNCHANGED <<at, seen>>
    BY <1>1, <1>2 DEF SUndef, Goto
  <2>2. Tables'
    BY <1>1, <2>1, TablesKept
  <2>3. Walk(c)'
    BY <1>1, <2>1, Before DEF Walk, Dates, Framed, Calm, Chosen, Given
  <2> QED
    BY <1>1, <2>2, <2>3, CodesKept
<1>3. CASE STrustMe(c) /\ at[c] \in freed.clauses
  <2>1. UNCHANGED <<pc, at, seen>> /\ pc[c] = "S_TRUSTME"
    BY <1>3 DEF STrustMe, Crash
  <2>2. Tables'
    BY <1>1, <2>1, TablesKept
  <2>3. Dates(c)' /\ Given(c)'
    BY <1>1, <2>1, Before DEF Dates, Framed, Initial, Given
  <2>4. Calm(c)' /\ Chosen(c)'
    BY <1>1, <2>1, Before DEF Calm, Chosen, Initial, Whole
  <2> QED
    BY <1>1, <2>2, <2>3, <2>4, CodesKept DEF Walk
<1>4. CASE STrustMe(c) /\ at[c] \notin freed.clauses
  <2>1. pc[c] = "S_TRUSTME" /\ pc'[c] = "running" /\ seen'[c] = {at[c]} /\ at'[c] = NoClause
    BY <1>1, <1>4 DEF STrustMe, Goto
  <2>2. Tables'
    BY <1>1, <2>1, TablesKept
  <2>3. Dates(c)'
    BY <1>1, <2>1, Before DEF Dates, Framed, Initial
  <2>4. Calm(c)' /\ Chosen(c)'
    BY <1>1, <2>1, Before DEF Calm, Chosen
  <2>5. Given(c)'
    BY <1>1, <2>1, Before DEF Chosen, Given, Initial, Whole
  <2> QED
    BY <1>1, <2>2, <2>3, <2>4, <2>5, CodesKept DEF Walk
<1>5. CASE NoClauses(c)
  <2>1. pc[c] = "S_STATIC" /\ CountedNone /\ pc'[c] = "running" /\ UNCHANGED <<at, seen>>
    BY <1>1, <1>5 DEF NoClauses, Goto
  <2>2. c \notin calm
    BY <2>1, Before, LastLoad DEF CountedNone, Calm
  <2>3. Tables'
    BY <1>1, <2>1, TablesKept
  <2>4. Dates(c)'
    BY <1>1, <2>1, Before DEF Dates, Framed, Initial
  <2>5. Calm(c)' /\ Chosen(c)'
    BY <1>1, <2>1, <2>2, Before DEF Calm, Chosen
  <2>6. Given(c)'
    BY <1>1, <2>1, <2>2, Before, NoneIsInitial DEF Chosen, Given, Initial
  <2> QED
    BY <1>1, <2>3, <2>4, <2>5, <2>6, CodesKept DEF Walk
<1> QED
  BY <1>2, <1>3, <1>4, <1>5

\* An index that is linked holds the clauses of one load, unless it was made during one.
LEMMA UseIndexWalk ==
    ASSUME ProgramInv, NEW c \in Calls, Elsewhere(c), UseIndex(c)
    PROVE  Codes' /\ Tables' /\ Walk(c)'
<1> USE DEF Early, Instructions, Unlinked, Places
<1>1. /\ pc[c] = "S_STATIC" /\ pc'[c] = "table" /\ where'[c] = index /\ index # NoIndex
      /\ UNCHANGED <<codes, index, table, gen, at, seen, late, lateUndef, glimpsed, calm>>
  BY DEF ProgramInv, Inv, TypeOK, UseIndex, Goto, indexVars, history
<1>2. Tables'
  BY <1>1, TablesKept
<1>3. index \notin late => Follows(c)' = Live
  BY <1>1, Before DEF Tables, Follows
<1>4. Dates(c)'
  BY <1>1, Before DEF Dates, Framed, Initial
<1>5. Calm(c)'
  BY <1>1, Before DEF Calm
<1>6. Chosen(c)'
  BY <1>1, <1>3, Before DEF Chosen, Calm
<1>7. Given(c)'
  BY <1>1 DEF Given
<1> QED
  BY <1>1, <1>2, <1>4, <1>5, <1>6, <1>7, CodesKept DEF Walk

\* The chain of a call that can be trusted.
LEMMA ChainOfOneLoad ==
    ASSUME ProgramInv, NEW c \in Calls, c \in Framed, pc[c] # "opened", Trusted(c)
    PROVE  /\ Follows(c) \subseteq Clauses
           /\ VisibleTo(c) \subseteq Follows(c) \/ Whole(Follows(c))
<1>1. /\ clauses \in SUBSET (1 .. made) /\ made \in Nat /\ made <= N * Loads
      /\ VisibleTo(c) \subseteq clauses
      /\ where[c] # NoIndex => Whole(Follows(c))
  BY DEF ProgramInv, Inv, TypeOK, Numbered, Walk, Dates, Tables, Trusted
<1>2. clauses \subseteq Clauses
  BY <1>1, LastClause DEF Clauses
<1> QED
  BY <1>1, <1>2, WholeIsInitial DEF Follows

LEMMA ScanWalk ==
    ASSUME ProgramInv, NEW c \in Calls, Elsewhere(c), pc[c] \in {"S_STATIC", "table", "running"},
           NEW from \in Nat, Scan(c, from),
           UNCHANGED <<codes, index, table, where, gen, late, lateUndef, calm>>,
           Trusted(c) => seen[c] = {k \in VisibleTo(c) \cap Follows(c) : k < from},
           Trusted(c) /\ c \in calm => Whole(VisibleTo(c)) /\ VisibleTo(c) \subseteq Follows(c)
    PROVE  Codes' /\ Tables' /\ Walk(c)'
<1> USE DEF Early, Instructions, Unlinked, Places
<1>1. /\ pc \in [Calls -> Places] /\ c \in Framed /\ pc[c] # "opened" /\ Codes'
      /\ VisibleTo(c)' = VisibleTo(c) /\ Follows(c)' = Follows(c)
  BY CodesKept, Before DEF Framed, Inv, TypeOK
<1>2. CASE Crash(c)
  <2>1. UNCHANGED <<pc, at, seen, glimpsed>>
    BY <1>2 DEF Crash
  <2>2. Tables'
    BY <2>1, TablesKept
  <2>3. Dates(c)'
    BY <1>1, <2>1, Before DEF Dates, Framed, Initial
  <2>4. Calm(c)' /\ Chosen(c)'
    BY <1>1, <2>1, Before DEF Calm, Chosen
  <2>5. Given(c)'
    BY <1>1, <2>1, Before DEF Given, Trusted, Initial, Whole
  <2> QED
    BY <1>1, <2>2, <2>3, <2>4, <2>5 DEF Walk
<1>3. CASE ~Crash(c)
  <2>1. pc'[c] = "running" /\ glimpsed \subseteq glimpsed'
    BY <1>1, <1>3 DEF Scan, Goto
  <2>2. Tables'
    BY <2>1, TablesKept
  <2>3. Dates(c)'
    BY <1>1, <2>1, Before DEF Dates, Framed, Initial
  <2>4. Calm(c)' /\ Chosen(c)'
    BY <2>1 DEF Calm, Chosen
  <2>5. ASSUME Trusted(c)'
        PROVE  /\ Initial(seen'[c])
               /\ at'[c] = NoClause /\ c \in calm => Whole(seen'[c])
               /\ at'[c] # NoClause => seen'[c] = {k \in VisibleTo(c) \cap Follows(c) : k < at'[c]}
    <3>1. Trusted(c) /\ c \notin glimpsed'
      BY <2>1, <2>5 DEF Trusted
    <3>2. /\ Follows(c) \subseteq Clauses /\ Initial(VisibleTo(c))
          /\ VisibleTo(c) \subseteq Follows(c) \/ Whole(Follows(c))
      BY <1>1, <3>1, ChainOfOneLoad, Before DEF Dates
    <3>3. /\ at'[c] # NoClause =>
                  /\ at'[c] \in Nat
                  /\ seen'[c] = {k \in VisibleTo(c) \cap Follows(c) : k < at'[c]}
          /\ at'[c] = NoClause => seen'[c] = VisibleTo(c) \cap Follows(c)
      BY <1>3, <3>1, <3>2, ScanGives, Before
    <3>4. /\ Initial(VisibleTo(c) \cap Follows(c))
          /\ \A a \in Nat : Initial({k \in VisibleTo(c) \cap Follows(c) : k < a})
      BY <3>2, CutInitial
    <3>5. Initial(seen'[c])
      BY <3>3, <3>4
    <3>6. c \in calm => VisibleTo(c) \cap Follows(c) = VisibleTo(c) /\ Whole(VisibleTo(c))
      BY <3>1
    <3>7. at'[c] = NoClause /\ c \in calm => Whole(seen'[c])
      BY <3>3, <3>6
    <3> QED
      BY <3>3, <3>5, <3>7
  <2>6. Given(c)'
    <3>1. Trusted(c)' => Trusted(c)
      BY <2>1 DEF Trusted
    <3> QED
      BY <1>1, <2>5, <3>1 DEF Given, Initial, Whole
  <2> QED
    BY <1>1, <2>2, <2>3, <2>4, <2>6 DEF Walk
<1> QED
  BY <1>2, <1>3

LEMMA FindWalk ==
    ASSUME ProgramInv, NEW c \in Calls, Elsewhere(c),
           FirstInTable(c) \/ UseList(c) \/ NextClause(c)
    PROVE  Codes' /\ Tables' /\ Walk(c)'
<1> USE DEF Early, Instructions, Unlinked, Places
<1>1. UNCHANGED <<codes, index, table, where, gen, late, lateUndef, calm>>
  BY DEF FirstInTable, UseList, NextClause, indexVars
<1>2. CASE FirstInTable(c) \/ UseList(c)
  <2>1. pc[c] \in {"S_STATIC", "table"} /\ Scan(c, 1) /\ 1 \in Nat /\ c \in Framed
    BY <1>2 DEF FirstInTable, UseList, Framed
  <2>2. seen[c] = {} /\ (c \in calm => ~Loading /\ VisibleTo(c) = Live)
    BY <2>1, Before DEF Chosen, Calm
  <2>3. Trusted(c) => seen[c] = {k \in VisibleTo(c) \cap Follows(c) : k < 1}
    <3>1. Trusted(c) => \A k \in Follows(c) : ~(k < 1)
      BY <2>1, ChainOfOneLoad, LastClause DEF Clauses
    <3> QED
      BY <2>2, <3>1
  <2>4. Trusted(c) /\ c \in calm => VisibleTo(c) \subseteq Follows(c)
    <3>1. pc[c] = "S_STATIC" => Follows(c) = clauses
      BY Before DEF Chosen, Follows
    <3>2. pc[c] = "table" /\ Trusted(c) /\ c \in calm => VisibleTo(c) = Follows(c)
      BY Before DEF Chosen, Trusted
    <3> QED
      BY <2>1, <2>2, <3>1, <3>2 DEF Live
  <2>5. Trusted(c) /\ c \in calm => Whole(VisibleTo(c))
    BY <2>2, LastLoad, Before
  <2> QED
    BY <1>1, <2>1, <2>3, <2>4, <2>5, ScanWalk
<1>3. CASE NextClause(c)
  <2>1. pc[c] = "running" /\ at[c] # NoClause /\ Scan(c, at[c]) /\ at[c] \in Nat
    BY <1>3, Before DEF NextClause
  <2>2. Trusted(c) => seen[c] = {k \in VisibleTo(c) \cap Follows(c) : k < at[c]}
    BY <2>1, Before DEF Given
  <2>3. Trusted(c) /\ c \in calm => Whole(VisibleTo(c)) /\ VisibleTo(c) \subseteq Follows(c)
    BY <2>1, Before DEF Given
  <2> QED
    BY <1>1, <2>1, <2>2, <2>3, ScanWalk
<1> QED
  BY <1>2, <1>3

-----------------------------------------------------------------------------
(***************************************************************************)
(* The making of an index, and the end of a call.                          *)
(***************************************************************************)

\* Nobody uses an index that is being made.
LEMMA MakerApart ==
    ASSUME ProgramInv, NEW c \in Calls, pc[c] \in Unlinked, Elsewhere(c), index' = index,
           where' = where, pc'[c] \in Unlinked, c \notin late' => Made(c)'
    PROVE  Tables'
<1>1. /\ Inv /\ Tables /\ UNCHANGED <<clauses, Live>> /\ (Loading' <=> Loading)
  BY DatedKept DEF ProgramInv, Elsewhere
<1>2. index # c /\ \A d \in Calls : where[d] # c
  BY <1>1, CallsAssumption DEF Tables
<1>3. index \in Calls \cup {NoIndex} /\ where \in [Calls -> Calls \cup {NoIndex}]
  BY <1>1 DEF Inv, TypeOK
<1>4. index' # NoIndex => pc'[index'] \notin Unlinked
  BY <1>1, <1>2, <1>3 DEF Tables, Elsewhere
<1>5. index' # NoIndex /\ index' \notin late' => ~Loading' /\ table'[index'] = Live'
  BY <1>1, <1>2, <1>3 DEF Tables, Elsewhere
<1>6. ASSUME NEW i \in Calls, i \notin late', i # c PROVE Made(i)'
  <2>1. pc'[i] = pc[i] /\ at'[i] = at[i] /\ table'[i] = table[i] /\ i \notin late
    BY <1>6 DEF Elsewhere
  <2>2. Made(i)
    BY <1>1, <2>1 DEF Tables
  <2> QED
    BY <1>1, <2>1, <2>2 DEF Made
<1>7. ASSUME NEW d \in Calls, where'[d] # NoIndex
      PROVE  pc'[where'[d]] \notin Unlinked /\ (where'[d] \notin late' => Whole(Follows(d)'))
  <2>1. where[d] \in Calls \ {c} /\ where'[d] = where[d]
    BY <1>2, <1>3, <1>7
  <2>2. /\ pc'[where[d]] = pc[where[d]] /\ table'[where[d]] = table[where[d]]
        /\ (where[d] \notin late' => where[d] \notin late)
    BY <2>1 DEF Elsewhere
  <2>3. Follows(d)' = Follows(d)
    BY <1>7, <2>1, <2>2 DEF Follows
  <2> QED
    BY <1>1, <1>7, <2>1, <2>2, <2>3 DEF Tables
<1>8. \A d \in Calls : where'[d] # NoIndex /\ where'[d] \notin late' => Whole(Follows(d))'
  BY <1>7 DEF Whole
<1> QED
  BY <1>4, <1>5, <1>6, <1>7, <1>8 DEF Tables

\* An index is begun with the first clause of the list ...
LEMMA BeginHashWalk ==
    ASSUME ProgramInv, NEW c \in Calls, Elsewhere(c), BeginHash(c)
    PROVE  Codes' /\ Tables' /\ Walk(c)'
<1> USE DEF Early, Instructions, Unlinked, Places
<1>1. /\ pc[c] = "S_STATIC" /\ pc'[c] = "build" /\ at'[c] = Min(clauses) /\ CountedSome
      /\ late' = (IF Loading THEN late \cup {c} ELSE late)
      /\ UNCHANGED <<codes, index, table, where, gen, seen, lateUndef, glimpsed, calm>>
  BY DEF ProgramInv, Inv, TypeOK, BeginHash, Goto, indexVars
<1>2. ASSUME c \notin late' PROVE Made(c)'
  <2>1. ~Loading /\ table'[c] = {}
    BY <1>1, <1>2, Before DEF Tables, Made
  <2>2. clauses \in SUBSET Nat /\ clauses # {}
    BY <1>1, Before DEF Inv, TypeOK, CountedSome, Live
  <2>3. Min(clauses) \in clauses /\ \A k \in clauses : Min(clauses) <= k
    BY <2>2, MinClause
  <2>4. \A k \in clauses : ~(k < Min(clauses))
    <3>1. Min(clauses) \in Nat /\ \A k \in clauses : k \in Nat
      BY <2>2, <2>3
    <3> QED
      BY <2>3, <3>1
  <2>5. {k \in Live : k < Min(clauses)} = {}
    BY <2>4 DEF Live
  <2> QED
    BY <1>1, <2>1, <2>3, <2>5, Before DEF Made
<1>3. Tables'
  BY <1>1, <1>2, MakerApart
<1>4. Dates(c)'
  BY <1>1, Before DEF Dates, Framed, Initial
<1>5. Calm(c)' /\ Chosen(c)' /\ Given(c)'
  BY <1>1, Before DEF Calm, Chosen, Given
<1> QED
  BY <1>1, <1>3, <1>4, <1>5, CodesKept DEF Walk

\* ... and gets one clause after the other, until all that are alive are in it.
LEMMA HashClauseWalk ==
    ASSUME ProgramInv, NEW c \in Calls, Elsewhere(c), HashClause(c)
    PROVE  Codes' /\ Tables' /\ Walk(c)'
<1> DEFINE next == {k \in clauses : k > at[c]}
<1> USE DEF Early, Instructions, Unlinked, Places
<1>1. /\ pc[c] = "build" /\ pc \in [Calls -> Places] /\ at \in [Calls -> Nat]
      /\ table \in [Calls -> SUBSET Nat] /\ clauses \in SUBSET Nat
      /\ UNCHANGED <<codes, index, where, gen, seen, late, lateUndef, glimpsed, calm>>
  BY DEF ProgramInv, Inv, TypeOK, HashClause, Crash
<1>2. CASE at[c] \in freed.clauses
  <2>1. UNCHANGED <<pc, at, table>>
    BY <1>2 DEF HashClause, Crash
  <2>2. c \notin late' => Made(c)'
    BY <1>1, <2>1, Before DEF Tables, Made
  <2>3. Tables'
    BY <1>1, <2>1, <2>2, MakerApart
  <2>4. Dates(c)'
    BY <1>1, <2>1, Before DEF Dates, Framed, Initial
  <2>5. Calm(c)' /\ Chosen(c)' /\ Given(c)'
    BY <1>1, <2>1, Before DEF Calm, Chosen, Given
  <2> QED
    BY <1>1, <2>3, <2>4, <2>5, CodesKept DEF Walk
<1>3. CASE at[c] \notin freed.clauses
  <2>1. /\ table'[c] = table[c] \cup ({at[c]} \cap Live)
        /\ next # {} => at'[c] = Min(next) /\ pc'[c] = "build"
        /\ next = {} => at'[c] = NoClause /\ pc'[c] = "link"
    BY <1>1, <1>3 DEF HashClause, Goto
  <2>2. ASSUME c \notin late' PROVE Made(c)'
    <3>1. ~Loading /\ at[c] \in clauses /\ table[c] = {k \in Live : k < at[c]}
      BY <1>1, <2>2, Before DEF Tables, Made
    <3>2. at[c] \in Nat /\ \A k \in Live : k \in clauses /\ k \in Nat
      BY <1>1, <3>1 DEF Live
    <3>3. CASE next # {}
      <4> HIDE DEF next
      <4>1. next \in SUBSET Nat
        BY <1>1 DEF next
      <4>2. Min(next) \in next /\ \A k \in next : Min(next) <= k
        BY <3>3, <4>1, MinClause
      <4>3. Min(next) \in clauses /\ Min(next) \in Nat /\ Min(next) > at[c]
        BY <4>1, <4>2 DEF next
      <4>4. \A k \in Live : k < Min(next) <=> k < at[c] \/ k = at[c]
        <5> SUFFICES ASSUME NEW k \in Live PROVE k < Min(next) <=> k < at[c] \/ k = at[c]
          OBVIOUS
        <5>1. k > at[c] => Min(next) <= k
          BY <3>2, <4>2 DEF next
        <5> QED
          BY <3>2, <4>3, <5>1
      <4>5. table'[c] = {k \in Live : k < Min(next)}
        BY <2>1, <3>1, <4>4
      <4> QED
        BY <2>1, <3>1, <3>3, <4>3, <4>5, Before DEF Made
    <3>4. CASE next = {}
      <4>1. \A k \in Live : k < at[c] \/ k = at[c]
        BY <3>2, <3>4
      <4>2. table'[c] = Live
        BY <2>1, <3>1, <4>1
      <4> QED
        BY <2>1, <3>1, <3>4, <4>2, Before DEF Made
    <3> QED
      BY <3>3, <3>4
  <2>3. pc'[c] \in {"build", "link"}
    BY <2>1
  <2>4. Tables'
    BY <1>1, <2>2, <2>3, MakerApart
  <2>5. Dates(c)'
    BY <1>1, <2>3, Before DEF Dates, Framed, Initial
  <2>6. Calm(c)' /\ Chosen(c)' /\ Given(c)'
    BY <1>1, <2>3, Before DEF Calm, Chosen, Given
  <2> QED
    BY <1>1, <2>4, <2>5, <2>6, CodesKept DEF Walk
<1> QED
  BY <1>2, <1>3

\* The index that is linked is the one its maker follows.
LEMMA LinkIndexWalk ==
    ASSUME ProgramInv, NEW c \in Calls, Elsewhere(c), LinkIndex(c)
    PROVE  Codes' /\ Tables' /\ Walk(c)'
<1> USE DEF Early, Instructions, Unlinked, Places
<1>1. /\ pc[c] = "link" /\ pc'[c] = "table" /\ where'[c] = c /\ index' = c
      /\ UNCHANGED <<codes, table, gen, at, seen, late, lateUndef, glimpsed, calm>>
  BY DEF ProgramInv, Inv, TypeOK, LinkIndex, Goto, history
<1>2. /\ Follows(c)' = table[c]
      /\ c \notin late => ~Loading /\ table[c] = Live
  BY <1>1, Before DEF Follows, Tables, Made
<1>3. Tables'
  <2>1. index' # NoIndex => pc'[index'] \notin Unlinked
    BY <1>1
  <2>2. index' # NoIndex /\ index' \notin late' => ~Loading' /\ table'[index'] = Live'
    BY <1>1, <1>2, Before
  <2>3. ASSUME NEW i \in Calls, i \notin late' PROVE Made(i)'
    <3>1. Made(i)
      BY <1>1, <2>3, Before DEF Tables
    <3>2. CASE i = c
      BY <1>1, <3>2 DEF Made
    <3>3. CASE i # c
      <4>1. pc'[i] = pc[i] /\ at'[i] = at[i]
        BY <3>3 DEF Elsewhere
      <4> QED
        BY <1>1, <3>1, <4>1, Before DEF Made
    <3> QED
      BY <3>2, <3>3
  <2>4. ASSUME NEW d \in Calls, where'[d] # NoIndex
        PROVE  pc'[where'[d]] \notin Unlinked /\ (where'[d] \notin late' => Whole(Follows(d)'))
    <3>1. CASE d = c
      BY <1>1, <1>2, <3>1, Before, LastLoad
    <3>2. CASE d # c
      <4>1. where'[d] = where[d] /\ where[d] \in Calls /\ pc[where[d]] \notin Unlinked
        BY <2>4, <3>2, Before DEF Elsewhere, Tables, Inv, TypeOK
      <4>2. pc'[where[d]] = pc[where[d]]
        BY <1>1, <4>1 DEF Elsewhere
      <4>3. Follows(d)' = Follows(d)
        BY <1>1, <2>4, <4>1 DEF Follows
      <4> QED
        BY <1>1, <2>4, <4>1, <4>2, <4>3, Before DEF Tables
    <3> QED
      BY <3>1, <3>2
  <2>5. \A d \in Calls : where'[d] # NoIndex /\ where'[d] \notin late' => Whole(Follows(d))'
    BY <2>4 DEF Whole
  <2> QED
    BY <2>1, <2>2, <2>3, <2>4, <2>5 DEF Tables
<1>4. Dates(c)'
  BY <1>1, Before DEF Dates, Framed, Initial
<1>5. Calm(c)' /\ Given(c)'
  BY <1>1, Before DEF Calm, Given
<1>6. Chosen(c)'
  BY <1>1, <1>2, Before DEF Chosen, Calm
<1> QED
  BY <1>1, <1>3, <1>4, <1>5, <1>6, CodesKept DEF Walk

LEMMA LeaveFrameWalk ==
    ASSUME ProgramInv, NEW c \in Calls, Elsewhere(c), LeaveFrame(c)
    PROVE  Codes' /\ Tables' /\ Walk(c)'
<1> USE DEF Early, Instructions, Unlinked, Places
<1>1. /\ pc'[c] = "returned" /\ where'[c] = NoIndex /\ seen'[c] = {} /\ c \notin calm'
      /\ UNCHANGED <<codes, index, table, late, lateUndef>>
  BY DEF ProgramInv, Inv, TypeOK, Types, LeaveFrame, Goto, indexVars
<1>2. Tables'
  BY <1>1, TablesKept
<1>3. Walk(c)'
  BY <1>1 DEF Walk, Dates, Framed, Calm, Chosen, Given
<1> QED
  BY <1>1, <1>2, <1>3, CodesKept

LEMMA CallStepProgram ==
    ASSUME ProgramInv, NEW c \in Calls, CallStep(c)
    PROVE  Types' /\ Dated' /\ Codes' /\ Tables' /\ \A d \in Calls : Walk(d)'
<1>1. Elsewhere(c)
  BY CallElsewhere DEF ProgramInv
<1>2. Codes' /\ Tables' /\ Walk(c)'
  BY <1>1, OpenWalk, DispatchWalk, SuperviseWalk, ShortWalk, UseIndexWalk, FindWalk,
     BeginHashWalk, HashClauseWalk, LinkIndexWalk, LeaveFrameWalk DEF CallStep
<1> QED
  BY <1>2, CallKeeps

-----------------------------------------------------------------------------
(***************************************************************************)
(* Steps of the load, and what the calls are given.                        *)
(***************************************************************************)

\* What a frame sees does not change, whatever the load does.
LEMMA LoadWalk ==
    ASSUME ProgramInv, UNCHANGED <<pc, gen, where, at, seen, glimpsed, lateUndef>>,
           generation' \in Nat, generation <= generation',
           \A g \in Nat : g <= generation => VisibleAt(g)' = VisibleAt(g),
           Framed = {} \/ clauses \subseteq clauses',
           calm' \subseteq calm, late \subseteq late',
           \A c \in calm' \cap Calls : pc[c] # "running" =>
               ~Loading' /\ Live' = Live /\ (c \in Framed => clauses' = clauses),
           \A i \in Calls : i \in late' \/ table'[i] = table[i] \/ \A c \in Calls : where[c] # i
    PROVE  \A c \in Calls : Walk(c)'
<1> SUFFICES ASSUME NEW c \in Calls PROVE Walk(c)'
  OBVIOUS
<1>1. /\ Dates(c) /\ Calm(c) /\ Chosen(c) /\ Given(c)
      /\ gen[c] \in Nat /\ generation \in Nat /\ where[c] \in Calls \cup {NoIndex}
  BY DEF ProgramInv, Walk, Inv, TypeOK, Types
<1>2. ASSUME c \in Framed, pc[c] # "opened"
      PROVE  /\ VisibleTo(c)' = VisibleTo(c) /\ gen[c] <= generation'
             /\ Initial(VisibleTo(c)) /\ VisibleTo(c) \subseteq clauses
             /\ clauses \subseteq clauses'
  <2>1. gen[c] <= generation /\ Initial(VisibleTo(c)) /\ VisibleTo(c) \subseteq clauses
    BY <1>1, <1>2 DEF Dates
  <2>2. PICK g \in Nat : g = gen[c]
    BY <1>1
  <2>3. VisibleAt(g)' = VisibleAt(g)
    BY <2>1, <2>2
  <2>4. VisibleTo(c) = VisibleAt(g) /\ VisibleTo(c)' = VisibleAt(g)'
    BY <2>2 DEF VisibleTo, VisibleAt
  <2> QED
    BY <1>1, <1>2, <2>1, <2>3, <2>4
<1>3. where[c] # NoIndex /\ where[c] \notin late' => Follows(c)' = Follows(c)
  BY <1>1 DEF Follows
<1>4. where[c] = NoIndex => Follows(c) = clauses /\ Follows(c)' = clauses'
  BY DEF Follows
<1>5. Dates(c)'
  BY <1>1, <1>2 DEF Dates, Framed, Initial
<1>6. ASSUME c \in calm', pc[c] # "running" PROVE c \in calm /\ ~Loading' /\ Live' = Live
  BY <1>6
<1>7. Calm(c)'
  <2>1. pc[c] \notin {"closed", "returned", "undefined"} => c \in Framed
    BY DEF Framed
  <2> QED
    BY <1>1, <1>2, <1>6, <2>1 DEF Calm
<1>8. Chosen(c)'
  <2>1. c \in calm' /\ pc[c] = "table" /\ where[c] \notin late' => VisibleTo(c)' = Follows(c)'
    <3> SUFFICES ASSUME c \in calm', pc[c] = "table", where[c] \notin late'
                 PROVE  VisibleTo(c)' = Follows(c)'
      OBVIOUS
    <3>1. c \in Framed
      BY DEF Framed
    <3>2. VisibleTo(c) = Follows(c) /\ VisibleTo(c)' = VisibleTo(c) /\ clauses' = clauses
      BY <1>1, <1>2, <3>1 DEF Chosen
    <3> QED
      BY <1>3, <1>4, <3>2
  <2> QED
    BY <1>1, <2>1 DEF Chosen, Initial, Whole
<1>9. Given(c)'
  <2> SUFFICES ASSUME pc[c] = "running", Trusted(c)' PROVE Given(c)'
    BY DEF Given
  <2>1. c \in Framed /\ Trusted(c)
    BY DEF Framed, Trusted
  <2>2. /\ VisibleTo(c)' = VisibleTo(c)
        /\ VisibleTo(c) \cap Follows(c)' = VisibleTo(c) \cap Follows(c)
        /\ VisibleTo(c) \subseteq Follows(c) => VisibleTo(c) \subseteq Follows(c)'
    BY <1>2, <1>3, <1>4, <2>1 DEF Trusted
  <2>3. c \in calm' => c \in calm
    OBVIOUS
  <2> QED
    BY <1>1, <2>1, <2>2, <2>3 DEF Given, Initial, Whole
<1> QED
  BY <1>5, <1>7, <1>8, <1>9 DEF Walk

\* Types of what a load changes.
LEMMA Numbers ==
    ASSUME Inv, Types
    PROVE  /\ generation \in Nat /\ made \in Nat
           /\ \A k \in Clauses : k \in Nat /\ k >= 1 /\ created[k] \in Nat /\ erased[k] \in Nat
           /\ clauses \subseteq 1 .. made
           /\ \A k \in 1 .. made : k \in Clauses
<1>1. /\ generation \in Nat /\ made \in Nat /\ clauses \in SUBSET (1 .. made)
      /\ erased \in [Clauses -> Nat] /\ created \in [Clauses -> Nat] /\ made <= N * Loads
  BY DEF Inv, TypeOK, Types, Numbered
<1>2. \A k \in Clauses : k \in Nat /\ k >= 1
  BY LastClause DEF Clauses
<1>3. \A k \in 1 .. made : k \in Clauses
  BY <1>1, LastClause DEF Clauses
<1> QED
  BY <1>1, <1>2, <1>3

\* The clauses that are erased stay visible to the frames there are, and those of the
\* next load come after them.
LEMMA UnloadProgram ==
    ASSUME ProgramInv, Unload
    PROVE  Types' /\ Dated' /\ Codes' /\ Tables' /\ \A c \in Calls : Walk(c)'
<1>1. /\ loader = "idle" /\ made < N * Loads /\ loader' = "load" /\ index' = NoIndex
      /\ generation' = generation + 1 /\ codes' = Supervisor("S_VIRGIN")
      /\ erased' = [k \in Clauses |-> IF k \in Live THEN generation + 1 ELSE erased[k]]
      /\ calm' = {c \in calm : pc[c] \in {"running", "returned"}} /\ late' = late \cup Building
      /\ UNCHANGED <<made, created, table, pc, gen, where, at, seen, glimpsed, lateUndef>>
  BY DEF Unload, FreeCodes, Clean, callVars
<1>2. clauses' = clauses \/ (Framed = {} /\ clauses' = {})
  BY DEF Unload, Referenced, Clean
<1>3. /\ Inv /\ Types /\ Dated /\ Tables /\ generation \in Nat /\ made \in Nat
      /\ \A k \in Clauses : k \in Nat /\ k >= 1 /\ created[k] \in Nat /\ erased[k] \in Nat
      /\ clauses \subseteq 1 .. made
  BY Numbers DEF ProgramInv
<1>4. Types'
  BY <1>1, <1>3 DEF Types
<1>5. \A k \in 1 .. made : k \in Clauses /\ erased'[k] # 0
  <2> SUFFICES ASSUME NEW k \in 1 .. made PROVE k \in Clauses /\ erased'[k] # 0
    OBVIOUS
  <2>1. k \in Clauses
    BY <1>3, Numbers
  <2>2. CASE k \in Live
    BY <1>1, <1>3, <2>1, <2>2
  <2>3. CASE k \notin Live
    <3>1. erased[k] # 0
      BY <1>3, <2>3 DEF Dated, Live
    <3> QED
      BY <1>1, <2>1, <2>3, <3>1
  <2> QED
    BY <2>1, <2>2, <2>3
<1>6. Dated'
  <2>1. \A k \in Clauses : created[k] <= generation + 1 /\ erased'[k] <= generation + 1
    BY <1>1, <1>3 DEF Dated
  <2>2. \A k \in Clauses : created[k] = 0 <=> (k > made \/ (loader' = "linked" /\ k = made))
    BY <1>1, <1>3 DEF Dated
  <2>3. \A k \in 1 .. made : erased'[k] = 0 => k \in clauses'
    BY <1>5
  <2>4. PICK L \in 1 .. Loads : made = L * N
    BY <1>1, <1>3 DEF Dated, Current, Loading
  <2>5. L \in Nat /\ Loads \in Nat /\ N \in Nat /\ L + 1 \in Nat /\ N > 0
    BY SizesAssumption
  <2>6. L + 1 \in 1 .. Loads /\ made < (L + 1) * N /\ (L + 1 - 1) * N <= made
    <3>1. L * N < Loads * N
      BY <1>1, <2>4, <2>5, LoadsFollow
    <3>2. L < Loads
      BY <2>5, <3>1, LoadsFollow
    <3>3. L < L + 1 /\ L * N <= (L + 1) * N - N
      BY <2>5, LoadsFollow
    <3>4. L + 1 - 1 = L
      BY <2>5
    <3>5. (L + 1) * N \in Nat
      BY <2>5
    <3> QED
      BY <1>3, <2>4, <2>5, <3>2, <3>3, <3>4, <3>5
  <2>7. {k \in Program(L + 1) : k <= made} = {}
    <3>1. \A k \in Program(L + 1) : k \in Nat /\ (L + 1 - 1) * N < k
      BY <2>6, OneLoad
    <3>2. L + 1 - 1 = L
      BY <2>5
    <3>3. \A k \in Program(L + 1) : made < k /\ k \in Nat
      BY <2>4, <3>1, <3>2
    <3> QED
      BY <1>3, <3>3
  <2>8. Live' = {}
    BY <1>2, <1>3, <1>5 DEF Live
  <2>9. Current(L + 1)'
    BY <1>1, <2>6, <2>7, <2>8 DEF Current, Loading, Locked
  <2> QED
    BY <1>1, <2>1, <2>2, <2>3, <2>6, <2>9 DEF Dated
<1>7. Codes'
  BY <1>1 DEF Codes, Supervisor, Loading
<1>8. Tables'
  <2>1. ASSUME NEW i \in Calls, i \notin late' PROVE Made(i)'
    <3>1. i \notin late /\ pc[i] \notin {"build", "link"}
      BY <1>1, <2>1 DEF Building
    <3>2. Made(i)
      BY <1>3, <3>1 DEF Tables
    <3> QED
      BY <1>1, <3>1, <3>2 DEF Made
  <2>2. \A c \in Calls : where[c] # NoIndex => pc[where[c]] \notin Unlinked
    BY <1>3 DEF Tables
  <2>3. ASSUME NEW c \in Calls, where[c] # NoIndex, where[c] \notin late' PROVE Whole(Follows(c))'
    <3>1. Whole(Follows(c)) /\ Follows(c)' = Follows(c)
      BY <1>1, <1>3, <2>3 DEF Tables, Follows
    <3> QED
      BY <3>1 DEF Whole
  <2> QED
    BY <1>1, <2>1, <2>2, <2>3 DEF Tables
<1>9. ASSUME NEW g \in Nat, g <= generation PROVE VisibleAt(g)' = VisibleAt(g)
  <2>1. ASSUME NEW k \in Clauses
        PROVE  (erased'[k] = 0 \/ erased'[k] > g) <=> (erased[k] = 0 \/ erased[k] > g)
    <3>1. CASE k \in Live
      BY <1>1, <1>3, <1>9, <3>1 DEF Live
    <3>2. CASE k \notin Live
      BY <1>1, <3>2
    <3> QED
      BY <3>1, <3>2
  <2> QED
    BY <1>1, <2>1 DEF VisibleAt
<1>10. \A c \in Calls : Walk(c)'
  <2>1. generation' \in Nat /\ generation <= generation'
    BY <1>1, <1>3
  <2>2. Framed = {} \/ clauses \subseteq clauses'
    BY <1>2
  <2>3. ASSUME NEW c \in calm' \cap Calls PROVE pc[c] = "running"
    BY <1>1, <2>3 DEF ProgramInv, Walk, Calm
  <2> QED
    BY <1>1, <1>9, <2>1, <2>2, <2>3, LoadWalk
<1> QED
  BY <1>4, <1>6, <1>7, <1>8, <1>10

\* During a load no call is calm that has not found its first clause, and no index is
\* used that is not late.
LEMMA WhileLoading ==
    ASSUME ProgramInv, Loading
    PROVE  /\ \A c \in calm \cap Calls : pc[c] = "running"
           /\ index # NoIndex => index \in late
           /\ \A i \in Calls : i \notin late => pc[i] \notin {"build", "link"}
<1>1. \A c \in Calls : Calm(c)
  BY DEF ProgramInv, Walk
<1> QED
  BY <1>1 DEF ProgramInv, Calm, Tables, Made

\* A load that goes on leaves the indexes alone, but for the one that is linked.
LEMMA TablesWhileLoading ==
    ASSUME ProgramInv, Loading, UNCHANGED <<pc, where, late>>, index' \in {index, NoIndex},
           \A i \in Calls : i # index => table'[i] = table[i]
    PROVE  /\ Tables'
           /\ \A i \in Calls : i \in late' \/ table'[i] = table[i]
<1>1. index # NoIndex => index \in late /\ pc[index] \notin Unlinked
  BY WhileLoading DEF ProgramInv, Tables
<1>2. /\ Tables /\ where \in [Calls -> Calls \cup {NoIndex}] /\ index \in Calls \cup {NoIndex}
      /\ \A i \in Calls : i # NoIndex
  BY CallsAssumption DEF ProgramInv, Inv, TypeOK
<1>3. \A i \in Calls : i \in late' \/ table'[i] = table[i]
  BY <1>1, <1>2
<1>4. ASSUME NEW i \in Calls, i \notin late' PROVE Made(i)'
  BY <1>2, <1>3, <1>4, WhileLoading DEF Tables, Made
<1>5. ASSUME NEW c \in Calls, where[c] # NoIndex, where[c] \notin late' PROVE Whole(Follows(c))'
  <2>1. Whole(Follows(c)) /\ Follows(c)' = Follows(c)
    BY <1>2, <1>3, <1>5 DEF Tables, Follows
  <2> QED
    BY <2>1 DEF Whole
<1> QED
  BY <1>1, <1>2, <1>3, <1>4, <1>5 DEF Tables

\* A clause that is linked is not visible yet ...
LEMMA LinkClauseProgram ==
    ASSUME ProgramInv, LinkClause
    PROVE  Types' /\ Dated' /\ Codes' /\ Tables' /\ \A c \in Calls : Walk(c)'
<1>1. /\ loader = "load" /\ Loading /\ made' = made + 1 /\ clauses' = clauses \cup {made + 1}
      /\ loader' = "linked" /\ Loading' /\ Locked'
      /\ UNCHANGED <<created, erased, generation, codes, index, table, pc, gen, where, at, seen,
                     calm, late, glimpsed, lateUndef>>
  BY DEF LinkClause, Loading, Locked, indexVars, callVars, history
<1>2. /\ Inv /\ Types /\ Dated /\ Codes /\ generation \in Nat /\ made \in Nat
      /\ \A k \in Clauses : k \in Nat /\ k >= 1
      /\ made < N * Loads /\ made + 1 \in Clauses /\ erased[made + 1] = 0
  <2>1. Inv /\ Types /\ Dated /\ Codes
    BY DEF ProgramInv
  <2>2. made < N * Loads /\ made \in Nat
    BY <1>1, <2>1 DEF Inv, TypeOK, Numbered
  <2>3. made + 1 \in Clauses
    BY <2>2, LastClause DEF Clauses
  <2>4. erased[made + 1] = 0
    BY <2>1, <2>2, <2>3 DEF Inv, Numbered
  <2> QED
    BY <2>1, <2>2, <2>3, <2>4, Numbers
<1>3. Dated'
  <2>1. \A k \in Clauses : created[k] = 0 <=> (k > made + 1 \/ k = made + 1)
    BY <1>1, <1>2 DEF Dated
  <2>2. \A k \in 1 .. made + 1 : erased[k] = 0 => k \in clauses \cup {made + 1}
    BY <1>2 DEF Dated
  <2>3. PICK L \in 1 .. Loads : Current(L)
    BY <1>2 DEF Dated
  <2>4. /\ Live = {k \in Program(L) : k <= made} /\ made + 1 \in Program(L)
        /\ \A k \in Program(L) : k \in Nat
    <3>1. (L - 1) * N <= made /\ made < L * N /\ L \in Nat
      BY <1>1, <2>3, SizesAssumption DEF Current
    <3>2. (L - 1) * N < made + 1 /\ made + 1 <= L * N
      BY <1>2, <3>1, LoadsFollow, SizesAssumption
    <3> QED
      BY <1>2, <2>3, <3>2, OneLoad DEF Current
  <2>5. Live' = Live \cup {made + 1}
    BY <1>1, <1>2 DEF Live
  <2>6. Live' = {k \in Program(L) : k <= made + 1}
    BY <1>2, <2>4, <2>5
  <2>7. Current(L)'
    BY <1>1, <2>4, <2>6 DEF Current
  <2>8. \A k \in Clauses : created[k] <= generation /\ erased[k] <= generation
    BY <1>2 DEF Dated
  <2> QED
    BY <1>1, <2>1, <2>2, <2>7, <2>8 DEF Dated
<1>4. Codes'
  BY <1>1, <1>2 DEF Codes, Initial, Whole
<1>5. Tables' /\ \A i \in Calls : i \in late' \/ table'[i] = table[i]
  BY <1>1, TablesWhileLoading
<1>6. \A g \in Nat : VisibleAt(g)' = VisibleAt(g)
  BY <1>1 DEF VisibleAt
<1>7. \A c \in Calls : Walk(c)'
  BY <1>1, <1>2, <1>5, <1>6, WhileLoading, LoadWalk
<1> QED
  BY <1>1, <1>2, <1>3, <1>4, <1>5, <1>7 DEF Types

\* ... nor is it, to the frames there are, when it gets its generations.
LEMMA DateClauseProgram ==
    ASSUME ProgramInv, DateClause
    PROVE  Types' /\ Dated' /\ Codes' /\ Tables' /\ \A c \in Calls : Walk(c)'
<1>1. /\ loader = "linked" /\ Loading /\ Locked /\ generation' = generation + 1
      /\ created' = [created EXCEPT ![made] = generation + 1]
      /\ loader' = "dated" /\ Loading' /\ Locked'
      /\ UNCHANGED <<clauses, made, erased, codes, index, table, pc, gen, where, at, seen,
                     calm, late, glimpsed, lateUndef, Live>>
  BY DEF DateClause, Loading, Locked, Live, indexVars, callVars, history
<1>2. /\ Inv /\ Types /\ Dated /\ Codes /\ generation \in Nat /\ made \in Nat
      /\ \A k \in Clauses : k \in Nat /\ k >= 1 /\ created[k] \in Nat /\ erased[k] \in Nat
      /\ made \in Clauses /\ created[made] = 0
  <2>1. Inv /\ Types /\ Dated /\ Codes
    BY DEF ProgramInv
  <2>2. made \in clauses
    BY <1>1, <2>1 DEF Inv, Numbered, Live
  <2>3. made \in Clauses
    BY <2>1, <2>2, Numbers
  <2>4. created[made] = 0
    BY <1>1, <2>1, <2>3 DEF Dated
  <2> QED
    BY <2>1, <2>3, <2>4, Numbers
<1>3. /\ created' \in [Clauses -> Nat] /\ created'[made] = generation + 1
      /\ \A k \in Clauses : k # made => created'[k] = created[k]
  BY <1>1, <1>2 DEF Types
<1>4. Dated'
  <2>1. \A k \in Clauses : created'[k] <= generation + 1 /\ erased[k] <= generation + 1
    BY <1>2, <1>3 DEF Dated
  <2>2. \A k \in Clauses : created'[k] = 0 <=> k > made
    BY <1>1, <1>2, <1>3 DEF Dated
  <2>3. \A k \in 1 .. made : erased[k] = 0 => k \in clauses
    BY <1>2 DEF Dated
  <2>4. \E L \in 1 .. Loads : Current(L)'
    BY <1>1, <1>2 DEF Dated, Current
  <2> QED
    BY <1>1, <2>1, <2>2, <2>3, <2>4 DEF Dated
<1>5. Codes'
  BY <1>1, <1>2 DEF Codes, Initial, Whole
<1>6. Tables' /\ \A i \in Calls : i \in late' \/ table'[i] = table[i]
  BY <1>1, TablesWhileLoading
<1>7. ASSUME NEW g \in Nat, g <= generation PROVE VisibleAt(g)' = VisibleAt(g)
  <2>1. ASSUME NEW k \in Clauses
        PROVE  (created'[k] # 0 /\ created'[k] <= g) <=> (created[k] # 0 /\ created[k] <= g)
    BY <1>2, <1>3, <1>7
  <2> QED
    BY <1>1, <2>1 DEF VisibleAt
<1>8. \A c \in Calls : Walk(c)'
  <2>1. generation' \in Nat /\ generation <= generation'
    BY <1>1, <1>2
  <2> QED
    BY <1>1, <1>6, <1>7, <2>1, WhileLoading, LoadWalk
<1> QED
  BY <1>1, <1>2, <1>3, <1>4, <1>5, <1>6, <1>8 DEF Types

\* With the last clause of the file the load is over, and all of it is there.
LEMMA UpdateDefinitionProgram ==
    ASSUME ProgramInv, UpdateDefinition
    PROVE  Types' /\ Dated' /\ Codes' /\ Tables' /\ \A c \in Calls : Walk(c)'
<1>1. /\ loader = "dated" /\ Loading /\ Locked /\ codes' = Supervisor("S_VIRGIN")
      /\ loader' = (IF made % N = 0 THEN "loaded" ELSE "load") /\ ~Locked'
      /\ UNCHANGED <<clauses, made, created, erased, generation, pc, gen, where, at, seen,
                     calm, late, glimpsed, lateUndef, Live>>
  BY DEF UpdateDefinition, FreeCodes, Loading, Locked, Live, clauseVars, callVars, history
<1>2. Inv /\ Types /\ Dated /\ generation \in Nat /\ made \in Nat
  BY Numbers DEF ProgramInv
<1>3. Dated'
  <2>1. PICK L \in 1 .. Loads : Current(L)
    BY <1>2 DEF Dated
  <2>2. made \in Program(L) /\ (made % N = 0 <=> made = L * N)
    BY <1>1, <2>1, LastOfLoad DEF Current
  <2>3. L * N \in Nat /\ (L - 1) * N <= made /\ made <= L * N
    <3>1. L \in Nat /\ N \in Nat
      BY SizesAssumption
    <3>2. (L - 1) * N < made /\ made <= L * N
      BY <2>2, OneLoad
    <3>3. L * N \in Nat /\ (L - 1) * N = L * N - N
      BY <3>1, LoadsFollow
    <3> QED
      BY <1>2, <3>1, <3>2, <3>3
  <2>4. made % N # 0 => made < L * N
    BY <1>2, <2>2, <2>3
  <2>5. Current(L)'
    BY <1>1, <2>1, <2>2, <2>3, <2>4 DEF Current, Loading
  <2>6. \A k \in Clauses : created[k] = 0 <=> (k > made \/ (loader' = "linked" /\ k = made))
    BY <1>1, <1>2 DEF Dated
  <2> QED
    BY <1>1, <1>2, <2>5, <2>6 DEF Dated
<1>4. Codes'
  BY <1>1 DEF Codes, Supervisor
<1>5. Tables' /\ \A i \in Calls : i \in late' \/ table'[i] = table[i]
  <2>1. index' \in {index, NoIndex} /\ \A i \in Calls : i # index => table'[i] = table[i]
    BY DEF UpdateDefinition
  <2> QED
    BY <1>1, <2>1, TablesWhileLoading
<1>6. \A g \in Nat : VisibleAt(g)' = VisibleAt(g)
  BY <1>1 DEF VisibleAt
<1>7. \A c \in Calls : Walk(c)'
  BY <1>1, <1>2, <1>5, <1>6, WhileLoading, LoadWalk
<1> QED
  BY <1>1, <1>2, <1>3, <1>4, <1>5, <1>7 DEF Types

\* The collection takes no clause that an open frame can see.
LEMMA CollectClausesProgram ==
    ASSUME ProgramInv, CollectClauses
    PROVE  Types' /\ Dated' /\ Codes' /\ Tables' /\ \A c \in Calls : Walk(c)'
<1>1. /\ loader = "loaded" /\ ~Loading /\ loader' = "idle" /\ ~Loading' /\ ~Locked /\ ~Locked'
      /\ UNCHANGED <<made, created, erased, generation, codes, table, pc, gen, where, at, seen,
                     calm, late, glimpsed, lateUndef>>
  BY DEF CollectClauses, Loading, Locked, callVars, history
<1>2. /\ Inv /\ Types /\ Dated /\ Codes /\ Tables /\ generation \in Nat /\ made \in Nat
  BY Numbers DEF ProgramInv
<1>3. /\ clauses' = clauses \/ (Framed = {} /\ clauses' = Live)
      /\ index' \in {index, NoIndex}
  BY DEF CollectClauses, Referenced, Clean, Live
<1>4. Live' = Live
  BY <1>1, <1>3 DEF Live
<1>5. Dated'
  <2>1. \A k \in 1 .. made : erased[k] = 0 => k \in clauses'
    BY <1>2, <1>3 DEF Dated, Live
  <2>2. \E L \in 1 .. Loads : Current(L)'
    BY <1>1, <1>2, <1>4 DEF Dated, Current
  <2>3. \A k \in Clauses : created[k] = 0 <=> (k > made \/ (loader' = "linked" /\ k = made))
    BY <1>1, <1>2 DEF Dated
  <2> QED
    BY <1>1, <1>2, <2>1, <2>2, <2>3 DEF Dated
<1>6. Codes'
  BY <1>1, <1>2 DEF Codes, Initial, Whole
<1>7. Tables'
  <2>1. ASSUME NEW i \in Calls, i \notin late PROVE Made(i)'
    <3>1. Made(i) /\ (pc[i] = "build" => clauses' = clauses)
      BY <1>2, <1>3, <2>1 DEF Tables, Framed
    <3> QED
      BY <1>1, <1>4, <3>1 DEF Made
  <2>2. ASSUME NEW c \in Calls, where[c] # NoIndex, where[c] \notin late PROVE Whole(Follows(c))'
    <3>1. Whole(Follows(c)) /\ Follows(c)' = Follows(c)
      BY <1>1, <1>2, <2>2 DEF Tables, Follows
    <3> QED
      BY <3>1 DEF Whole
  <2>3. index' # NoIndex => pc[index'] \notin Unlinked
    BY <1>2, <1>3 DEF Tables
  <2>4. index' # NoIndex /\ index' \notin late => table[index'] = Live
    BY <1>2, <1>3 DEF Tables
  <2>5. \A c \in Calls : where[c] # NoIndex => pc[where[c]] \notin Unlinked
    BY <1>2 DEF Tables
  <2> QED
    BY <1>1, <1>4, <2>1, <2>2, <2>3, <2>4, <2>5 DEF Tables
<1>8. \A g \in Nat : VisibleAt(g)' = VisibleAt(g)
  BY <1>1 DEF VisibleAt
<1>9. \A c \in Calls : Walk(c)'
  BY <1>1, <1>2, <1>3, <1>4, <1>8, LoadWalk
<1> QED
  BY <1>1, <1>2, <1>5, <1>6, <1>7, <1>9 DEF Types

-----------------------------------------------------------------------------
LEMMA InitProgram == Init => ProgramInv
<1> SUFFICES ASSUME Init PROVE ProgramInv
  OBVIOUS
<1>1. Inv
  BY InitInv
<1>2. 1 \in 1 .. Loads /\ 1 * N = N /\ N \in Nat /\ N > 0 /\ (1 - 1) * N = 0
  BY SizesAssumption
<1>3. \A k \in Program(1) : k \in Clauses /\ k \in Nat /\ k >= 1 /\ k <= N
  BY <1>2, OneLoad, LastClause DEF Clauses, Program
<1>4. /\ \A k \in Clauses : k \in Nat /\ k >= 1
      /\ \A k \in 1 .. N : k \in Program(1)
  BY <1>2, LastClause DEF Clauses, Program
<1>5. Types
  BY <1>2, <1>4 DEF Init, Types
<1>6. Dated
  <2>1. Live = {k \in Program(1) : k <= made}
    BY <1>3 DEF Init, Live
  <2>2. Current(1)
    BY <1>2, <2>1 DEF Init, Current, Locked, Loading
  <2>3. /\ \A k \in Clauses : created[k] <= generation /\ erased[k] <= generation
        /\ \A k \in Clauses : created[k] = 0 <=> (k > made \/ (loader = "linked" /\ k = made))
    BY <1>2, <1>4 DEF Init
  <2>4. \A k \in 1 .. made : erased[k] = 0 => k \in clauses
    BY <1>4 DEF Init
  <2> QED
    BY <1>2, <2>2, <2>3, <2>4 DEF Dated
<1>7. Codes
  BY DEF Init, Codes, Supervisor
<1>8. Tables
  BY DEF Init, Tables, Made
<1>9. \A c \in Calls : Walk(c)
  BY DEF Init, Walk, Dates, Framed, Calm, Chosen, Given
<1> QED
  BY <1>1, <1>5, <1>6, <1>7, <1>8, <1>9 DEF ProgramInv

LEMMA StepProgram == ProgramInv /\ [Next]_vars => ProgramInv'
<1> SUFFICES ASSUME ProgramInv, [Next]_vars PROVE ProgramInv'
  OBVIOUS
<1>1. Inv'
  BY StepInv DEF ProgramInv
<1>2. CASE LoadStep
  BY <1>1, <1>2, UnloadProgram, LinkClauseProgram, DateClauseProgram, UpdateDefinitionProgram,
     CollectClausesProgram DEF LoadStep, ProgramInv
<1>3. ASSUME NEW c \in Calls, CallStep(c) PROVE ProgramInv'
  BY <1>1, <1>3, CallStepProgram DEF ProgramInv
<1>4. CASE UNCHANGED vars
  <2>1. /\ UNCHANGED <<clauses, made, created, erased, generation, codes, index, table, loader,
                       pc, gen, where, at, seen, calm, late, glimpsed, lateUndef>>
    BY <1>4 DEF vars, clauseVars, indexVars, callVars, history
  <2>2. UNCHANGED <<Live, Framed>> /\ (Loading' <=> Loading) /\ (Locked' <=> Locked)
    BY <2>1 DEF Live, Framed, Loading, Locked
  <2>3. Types' /\ Dated'
    BY <2>1, <2>2 DEF ProgramInv, Types, Dated, Current
  <2>4. Codes'
    BY <2>1, <2>2 DEF ProgramInv, Codes, Initial, Whole
  <2>5. Tables'
    BY <2>1, <2>2 DEF ProgramInv, Tables, Made, Follows, Whole
  <2>6. ASSUME NEW c \in Calls PROVE Walk(c)'
    <3>1. VisibleTo(c)' = VisibleTo(c) /\ Follows(c)' = Follows(c) /\ (Trusted(c)' <=> Trusted(c))
      BY <2>1 DEF VisibleTo, VisibleAt, Follows, Trusted
    <3>2. Dates(c) /\ Calm(c) /\ Chosen(c) /\ Given(c)
      BY DEF ProgramInv, Walk
    <3>3. Dates(c)' /\ Calm(c)'
      BY <2>1, <2>2, <3>1, <3>2 DEF Dates, Calm, Initial
    <3>4. Chosen(c)'
      BY <2>1, <2>2, <3>1, <3>2 DEF Chosen, Initial, Whole
    <3>5. Given(c)'
      BY <2>1, <2>2, <3>1, <3>2 DEF Given, Initial, Whole
    <3> QED
      BY <3>3, <3>4, <3>5 DEF Walk
  <2> QED
    BY <1>1, <2>3, <2>4, <2>5, <2>6 DEF ProgramInv
<1> QED
  BY <1>2, <1>3, <1>4 DEF Next

LEMMA ProgramInvariance == Spec => []ProgramInv
BY InitProgram, StepProgram, PTL DEF Spec

\* A call is given the clauses of one load, from the first on and without gaps, and all
\* of them if it began between two loads.
THEOREM OneProgramIsSeen == Spec => []CallsSeeOneProgram
<1>1. ProgramInv => CallsSeeOneProgram
  <2> SUFFICES ASSUME ProgramInv, NEW c \in Calls, Trusted(c)
               PROVE  /\ \E load \in 1 .. Loads :
                             /\ seen[c] \subseteq Program(load)
                             /\ \A k \in seen[c] : \A j \in Program(load) : j < k => j \in seen[c]
                             /\ c \in calm /\ pc[c] = "running" /\ at[c] = NoClause =>
                                    seen[c] = Program(load)
                      /\ pc[c] = "undefined" => c \notin calm \/ lateUndef
    BY DEF CallsSeeOneProgram
  <2>1. Calm(c) /\ Chosen(c) /\ Given(c)
    BY DEF ProgramInv, Walk
  <2>2. pc[c] = "undefined" => c \notin calm \/ lateUndef
    BY <2>1 DEF Calm
  <2>3. Initial(seen[c])
    BY <2>1, NoneIsInitial DEF Chosen, Given
  <2>4. CASE c \in calm /\ pc[c] = "running" /\ at[c] = NoClause
    <3>1. PICK load \in 1 .. Loads : seen[c] = Program(load)
      BY <2>1, <2>4 DEF Given, Whole
    <3> QED
      BY <2>2, <3>1
  <2>5. CASE ~(c \in calm /\ pc[c] = "running" /\ at[c] = NoClause)
    BY <2>2, <2>3, <2>5 DEF Initial
  <2> QED
    BY <2>4, <2>5
<1> QED
  BY <1>1, ProgramInvariance, PTL
=============================================================================
