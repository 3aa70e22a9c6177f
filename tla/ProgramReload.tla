--------------------------- MODULE ProgramReload ---------------------------
(***************************************************************************)
(* One predicate of prechacthis.pl while the file is loaded again.         *)
(* Prolog.init() takes no lock: a generator thread that was overtaken in   *)
(* it loads the program a second time, while the search of the thread that *)
(* overtook it calls the program's predicates.                             *)
(*                                                                         *)
(* The predicate is static, neither multifile nor of the two clauses that  *)
(* get an S_LIST.  The calls are those that match all of its clauses, and  *)
(* that have one argument that can be indexed; what a thread does between  *)
(* them is left out, so that the calls of one thread may overlap here.     *)
(*                                                                         *)
(* L_PREDICATE is held by createSupervisor, where an index is linked, and  *)
(* from LinkClause to UpdateDefinition; all else that a call reads or      *)
(* writes it reads or writes unlocked.  The unloading of a file, and the   *)
(* garbage collection that the boot file calls at the end of a load, stop  *)
(* all threads at any point of theirs where they do not hold that lock,    *)
(* and find the frames that are open for the predicate.                    *)
(*                                                                         *)
(* Clauses are numbered as they are made.  They are only ever added at the *)
(* end, so that a list of clauses is the set of their numbers.             *)
(***************************************************************************)
EXTENDS Integers, FiniteSetsExt

CONSTANTS
    Calls,  \* calls of the predicate
    N,      \* its clauses in the file
    Loads   \* how often the file is loaded

ASSUME SizesAssumption == N \in Nat \ {0} /\ Loads \in Nat \ {0}

NoClause == 0
NoIndex == "none"

ASSUME CallsAssumption == NoIndex \notin Calls

Clauses == 1 .. N * Loads
Program(load) == (load - 1) * N + 1 .. load * N

Supervisor(op) == [op |-> op, clause |-> NoClause]
TrustMe(k) == [op |-> "S_TRUSTME", clause |-> k]

VARIABLES
    clauses,    \* the list of clauses of the definition
    made,       \* the number of clauses ever made
    created,    \* generation.created of each clause, 0 before it is set
    erased,     \* generation.erased of the clauses that are CL_ERASED, or 0
    generation, \* GD->generation
    codes,      \* the supervisor: its instruction, and the clause of S_TRUSTME
    index,      \* the call that has made the linked index, or NoIndex
    oldIndexes, \* old_clause_indexes
    table,      \* the clauses in the index that each call has made
    built,      \* how many there were when it was made
    dirty,      \* NEEDSCLAUSEGC
    loader,     \* where the thread is that loads the file
    pc,         \* where each call is
    gen,        \* the generation of its frame
    where,      \* the index whose chain it follows, or NoIndex for the list
    at,         \* the clause it looks at next, or NoClause
    freed,      \* history: the clauses and indexes that were freed
    crashed,    \* history: freed memory was read
    seen,       \* history: the clauses each call was given, while its frame is open
    calm,       \* history: the calls that found their first clause between loads
    glimpsed,   \* history: the calls that saw a clause without generations
    late,       \* history: the indexes that were being made during a load
    stopped,    \* history: those of them that an unload has stopped
    lateUndef   \* history: S_UNDEF was stored when there were clauses

clauseVars == <<clauses, made, created, erased, generation>>
indexVars == <<index, oldIndexes, table, built>>
callVars == <<pc, gen, where, at, seen>>
history == <<calm, glimpsed, late, stopped, lateUndef>>
vars == <<clauseVars, codes, indexVars, dirty, loader, callVars, freed, crashed, history>>

Live == {k \in clauses : erased[k] = 0}

\* What number_of_clauses may tell one that holds no lock: it is updated after a
\* clause is linked and before its generations are set.
CountedSome == Live # {}
CountedNone == \A k \in Live : created[k] = 0

\* markPredicatesInEnvironments: there is a frame of the predicate.
Framed == {c \in Calls : pc[c] \notin {"closed", "returned", "undefined"}}

\* Mutant: only frames that have a clause are found.
ReferencedByClause == \E c \in Framed : pc[c] = "running"

Referenced == Framed # {}

Loading == loader \in {"load", "linked", "dated"}
Building == {c \in Calls : pc[c] \in {"build", "link"}}
Locked == loader \in {"linked", "dated"}

\* The thread that initialised Prolog first has loaded the program.
Init ==
    /\ clauses = Program(1) /\ made = N
    /\ created = [k \in Clauses |-> IF k <= N THEN k ELSE 0]
    /\ erased = [k \in Clauses |-> 0]
    /\ generation = N
    /\ codes = Supervisor("S_VIRGIN")
    /\ index = NoIndex /\ oldIndexes = {}
    /\ table = [c \in Calls |-> {}] /\ built = [c \in Calls |-> 0]
    /\ dirty = FALSE /\ loader = "idle"
    /\ pc = [c \in Calls |-> "closed"] /\ gen = [c \in Calls |-> 0]
    /\ where = [c \in Calls |-> NoIndex] /\ at = [c \in Calls |-> NoClause]
    /\ seen = [c \in Calls |-> {}]
    /\ freed = [clauses |-> {}, indexes |-> {}] /\ crashed = FALSE
    /\ calm = {} /\ glimpsed = {} /\ late = {} /\ stopped = {} /\ lateUndef = FALSE

Goto(c, place) == pc' = [pc EXCEPT ![c] = place]

-----------------------------------------------------------------------------
(***************************************************************************)
(* The supervisor of a call.                                               *)
(***************************************************************************)

\* normal_call opens the frame ...
OpenFrame(c) ==
    /\ pc[c] = "closed"
    /\ Goto(c, "opened")
    /\ calm' = IF Loading THEN calm ELSE calm \cup {c}
    /\ UNCHANGED <<clauseVars, codes, indexVars, dirty, loader, gen, where, at, seen, freed,
                   crashed, glimpsed, late, stopped, lateUndef>>

\* ... and then sets its generation.
SetGeneration(c) ==
    /\ pc[c] = "opened"
    /\ Goto(c, "entered")
    /\ gen' = [gen EXCEPT ![c] = generation]
    /\ UNCHANGED <<clauseVars, codes, indexVars, dirty, loader, where, at, seen, freed,
                   crashed, history>>

\* PC = DEF->codes.
Dispatch(c) ==
    /\ pc[c] = "entered"
    /\ Goto(c, codes.op)
    /\ at' = [at EXCEPT ![c] = codes.clause]
    /\ UNCHANGED <<clauseVars, codes, indexVars, dirty, loader, gen, where, seen, freed,
                   crashed, history>>

\* getProcDefinedDefinition.
SVirgin(c) ==
    /\ pc[c] = "S_VIRGIN"
    /\ Goto(c, IF clauses = {} THEN "trapped" ELSE "supervise")
    /\ UNCHANGED <<clauseVars, codes, indexVars, dirty, loader, gen, where, at, seen, freed,
                   crashed, history>>

\* trapUndefined tries imports and the autoloader, and ends in createUndefSupervisor.
TrapUndefined(c) ==
    /\ pc[c] = "trapped"
    /\ \/ CountedNone /\ Goto(c, "undefining")
       \/ CountedSome /\ Goto(c, "supervise")
    /\ UNCHANGED <<clauseVars, codes, indexVars, dirty, loader, gen, where, at, seen, freed,
                   crashed, history>>

StoreUndef(c) ==
    /\ pc[c] = "undefining"
    /\ codes' = Supervisor("S_UNDEF")
    /\ Goto(c, "supervise")
    /\ lateUndef' = (lateUndef \/ Live # {})
    /\ UNCHANGED <<clauseVars, indexVars, dirty, loader, gen, where, at, seen, freed,
                   crashed, calm, glimpsed, late, stopped>>

CreateSupervisor(c) ==
    /\ pc[c] = "supervise" /\ ~Locked
    /\ codes' = IF Live = {} THEN Supervisor("S_UNDEF")
                ELSE IF Cardinality(Live) = 1 THEN TrustMe(CHOOSE k \in Live : TRUE)
                ELSE Supervisor("S_STATIC")
    /\ Goto(c, "entered")
    /\ UNCHANGED <<clauseVars, indexVars, dirty, loader, gen, where, at, seen, freed,
                   crashed, history>>

\* The exception of an undefined procedure leaves the frame.
SUndef(c) ==
    /\ pc[c] = "S_UNDEF"
    /\ Goto(c, "undefined")
    /\ UNCHANGED <<clauseVars, codes, indexVars, dirty, loader, gen, where, at, seen, freed,
                   crashed, history>>

-----------------------------------------------------------------------------
(***************************************************************************)
(* The clauses of a call.                                                  *)
(***************************************************************************)

\* visibleClause reads what malloc has left while the generations are not set.
Visible(k, g) ==
    IF created[k] = 0 THEN {TRUE, FALSE}
    ELSE {created[k] <= g /\ (erased[k] = 0 \/ erased[k] > g)}

Chain(c) == IF where'[c] = NoIndex THEN clauses ELSE table[where'[c]]

Crash(c) ==
    /\ crashed' = TRUE
    /\ UNCHANGED <<pc, at, seen, glimpsed>>

\* What a walk along some clauses may find, and what it has looked at then.
FirstVisible(S, g) ==
    {r \in S : TRUE \in Visible(r, g) /\ \A k \in S : k < r => FALSE \in Visible(k, g)}
    \cup (IF \A k \in S : FALSE \in Visible(k, g) THEN {NoClause} ELSE {})
Passed(S, r) == IF r = NoClause THEN S ELSE {k \in S : k <= r}

Undated(S) == \E k \in S : created[k] = 0

\* The first visible clause of a chain.  The choice point is at the next one, or, if
\* the call has no key, at whatever comes next.
Scan(c, from) ==
    LET ahead == {k \in Chain(c) : k >= from} IN
    IF ahead \cap freed.clauses # {} \/ where'[c] \in freed.indexes
    THEN Crash(c)
    ELSE \E r \in FirstVisible(ahead, gen[c]) :
           LET next == IF r = NoClause THEN {} ELSE {k \in ahead : k > r} IN
           /\ seen' = [seen EXCEPT ![c] = @ \cup ({r} \ {NoClause})]
           /\ \/ \E n \in FirstVisible(next, gen[c]) :
                    /\ at' = [at EXCEPT ![c] = n]
                    /\ glimpsed' = IF Undated(Passed(ahead, r) \cup Passed(next, n))
                                   THEN glimpsed \cup {c} ELSE glimpsed
              \/ /\ next # {}
                 /\ at' = [at EXCEPT ![c] = Min(next)]
                 /\ glimpsed' = IF Undated(Passed(ahead, r))
                                THEN glimpsed \cup {c} ELSE glimpsed
           /\ Goto(c, "running")
           /\ UNCHANGED crashed

STrustMe(c) ==
    /\ pc[c] = "S_TRUSTME"
    /\ IF at[c] \in freed.clauses
       THEN Crash(c)
       ELSE /\ seen' = [seen EXCEPT ![c] = {at[c]}]
            /\ at' = [at EXCEPT ![c] = NoClause]
            /\ Goto(c, "running")
            /\ UNCHANGED <<crashed, glimpsed>>
    /\ UNCHANGED <<clauseVars, codes, indexVars, dirty, loader, gen, where, freed,
                   calm, late, stopped, lateUndef>>

\* firstClause: the linked index, if the argument is bound ...
UseIndex(c) ==
    /\ pc[c] = "S_STATIC" /\ index # NoIndex
    /\ where' = [where EXCEPT ![c] = index]
    /\ Goto(c, "table")
    /\ UNCHANGED <<clauseVars, codes, indexVars, dirty, loader, gen, at, seen, freed,
                   crashed, history>>

FirstInTable(c) ==
    /\ pc[c] = "table"
    /\ where' = where
    /\ Scan(c, 1)
    /\ UNCHANGED <<clauseVars, codes, indexVars, dirty, loader, gen, freed,
                   calm, late, stopped, lateUndef>>

\* ... nothing if number_of_clauses is 0 ...
NoClauses(c) ==
    /\ pc[c] = "S_STATIC" /\ CountedNone
    /\ Goto(c, "running")
    /\ UNCHANGED <<clauseVars, codes, indexVars, dirty, loader, gen, where, at, seen, freed,
                   crashed, history>>

\* ... the list, if the clauses are few or no argument is worth an index ...
UseList(c) ==
    /\ pc[c] = "S_STATIC" /\ CountedSome
    /\ where' = where
    /\ Scan(c, 1)
    /\ UNCHANGED <<clauseVars, codes, indexVars, dirty, loader, gen, freed,
                   calm, late, stopped, lateUndef>>

\* ... or a new index.  hashDefinition adds all clauses of the list, unlocked.
BeginHash(c) ==
    /\ pc[c] = "S_STATIC" /\ CountedSome /\ index = NoIndex
    /\ at' = [at EXCEPT ![c] = Min(clauses)]
    /\ Goto(c, "build")
    /\ late' = IF Loading THEN late \cup {c} ELSE late
    /\ UNCHANGED <<clauseVars, codes, indexVars, dirty, loader, gen, where, seen, freed,
                   crashed, calm, glimpsed, stopped, lateUndef>>

HashClause(c) ==
    LET next == {k \in clauses : k > at[c]} IN
    /\ pc[c] = "build"
    /\ IF at[c] \in freed.clauses
       THEN Crash(c) /\ UNCHANGED <<table, built>>
       ELSE /\ table' = [table EXCEPT ![c] = @ \cup ({at[c]} \cap Live)]
            /\ IF next # {}
               THEN /\ at' = [at EXCEPT ![c] = Min(next)]
                    /\ UNCHANGED <<pc, built>>
               ELSE /\ at' = [at EXCEPT ![c] = NoClause]
                    /\ built' = [built EXCEPT ![c] = Cardinality(table'[c])]
                    /\ Goto(c, "link")
            /\ UNCHANGED <<crashed, seen, glimpsed>>
    /\ UNCHANGED <<clauseVars, codes, index, oldIndexes, dirty, loader, gen, where, freed,
                   calm, late, stopped, lateUndef>>

\* Takes the place of an index that another call has linked meanwhile.
LinkIndex(c) ==
    /\ pc[c] = "link" /\ ~Locked
    /\ index' = c
    /\ oldIndexes' = oldIndexes \cup ({index} \ {NoIndex})
    /\ where' = [where EXCEPT ![c] = c]
    /\ Goto(c, "table")
    /\ UNCHANGED <<clauseVars, codes, table, built, dirty, loader, gen, at, seen, freed,
                   crashed, history>>

NextClause(c) ==
    /\ pc[c] = "running" /\ at[c] # NoClause
    /\ where' = where
    /\ Scan(c, at[c])
    /\ UNCHANGED <<clauseVars, codes, indexVars, dirty, loader, gen, freed,
                   calm, late, stopped, lateUndef>>

\* A cut, an exit without choice point, a failure or an exception.
LeaveFrame(c) ==
    /\ pc[c] = "running"
    /\ Goto(c, "returned")
    /\ gen' = [gen EXCEPT ![c] = 0]
    /\ where' = [where EXCEPT ![c] = NoIndex]
    /\ at' = [at EXCEPT ![c] = NoClause]
    /\ seen' = [seen EXCEPT ![c] = {}]
    /\ calm' = calm \ {c} /\ glimpsed' = glimpsed \ {c}
    /\ UNCHANGED <<clauseVars, codes, indexVars, dirty, loader, freed, crashed, late,
                   stopped, lateUndef>>

-----------------------------------------------------------------------------
(***************************************************************************)
(* The thread that loads the file.                                         *)
(***************************************************************************)

\* cleanDefinition, of a definition with the clauses `gone' erased and the index
\* `linked': an index that holds little else is removed, all that were removed are
\* freed, and so are the erased clauses.  Sizes are unsigned.
Clean(gone, linked, old) ==
    LET remove == /\ linked # NoIndex
                  /\ Cardinality(table[linked]) >= Cardinality(gone)
                  /\ Cardinality(table[linked]) - Cardinality(gone) < built[linked] \div 4
    IN  /\ index' = IF remove THEN NoIndex ELSE linked
        /\ freed' = [clauses |-> freed.clauses \cup gone,
                     indexes |-> freed.indexes \cup old \cup (IF remove THEN {linked} ELSE {})]
        /\ oldIndexes' = {}
        /\ clauses' = clauses \ gone
        /\ dirty' = FALSE

\* Mutant: the supervisor is kept.
KeepCodes == UNCHANGED codes

\* freeCodesDefinition.  The codes that threads may be in are left to linger.
FreeCodes == codes' = Supervisor("S_VIRGIN")

\* startConsult of a file that was loaded before: unloadFile.
Unload ==
    /\ loader = "idle" /\ made < N * Loads
    /\ generation' = generation + 1
    /\ erased' = [k \in Clauses |-> IF k \in Live THEN generation' ELSE erased[k]]
    /\ FreeCodes
    /\ LET old == oldIndexes \cup ({index} \ {NoIndex}) IN
       IF ~Referenced
       THEN Clean(clauses, NoIndex, old)
       ELSE /\ index' = NoIndex /\ oldIndexes' = old
            /\ dirty' = TRUE
            /\ UNCHANGED <<clauses, freed>>
    /\ loader' = "load"
    /\ calm' = {c \in calm : pc[c] \in {"running", "returned"}}
    /\ late' = late \cup Building
    /\ stopped' = stopped \cup Building
    /\ UNCHANGED <<made, created, table, built, callVars, crashed, glimpsed, lateUndef>>

\* assertProcedure links the clause, ...
LinkClause ==
    /\ loader = "load"
    /\ made' = made + 1
    /\ clauses' = clauses \cup {made'}
    /\ loader' = "linked"
    /\ UNCHANGED <<created, erased, generation, codes, indexVars, dirty, callVars, freed,
                   crashed, history>>

\* ... sets its generations: three stores in one step, for a call that looks at the
\* clause between them finds it without generations, as before them, and one that
\* does not may as well have begun after them ...
DateClause ==
    /\ loader = "linked"
    /\ generation' = generation + 1
    /\ created' = [created EXCEPT ![made] = generation']
    /\ loader' = "dated"
    /\ UNCHANGED <<clauses, made, erased, codes, indexVars, dirty, callVars, freed,
                   crashed, history>>

\* ... and drops the supervisor and adds the clause to the index, which it removes
\* if it has doubled.
UpdateDefinition ==
    /\ loader = "dated"
    /\ FreeCodes
    /\ IF index # NoIndex /\ Cardinality(table[index]) >= 2 * built[index]
       THEN /\ index' = NoIndex
            /\ oldIndexes' = oldIndexes \cup {index}
            /\ UNCHANGED table
       ELSE /\ table' = [c \in Calls |-> IF c = index THEN table[c] \cup {made} ELSE table[c]]
            /\ UNCHANGED <<index, oldIndexes>>
    /\ loader' = IF made % N = 0 THEN "loaded" ELSE "load"
    /\ UNCHANGED <<clauseVars, built, dirty, callVars, freed, crashed, history>>

\* garbage_collect_clauses.
CollectClauses ==
    /\ loader = "loaded"
    /\ IF dirty /\ ~Referenced
       THEN Clean(clauses \ Live, index, oldIndexes)
       ELSE UNCHANGED <<clauses, index, oldIndexes, dirty, freed>>
    /\ loader' = "idle"
    /\ UNCHANGED <<made, created, erased, generation, codes, table, built, callVars,
                   crashed, history>>

-----------------------------------------------------------------------------
CallStep(c) ==
    \/ OpenFrame(c) \/ SetGeneration(c) \/ Dispatch(c) \/ SVirgin(c) \/ TrapUndefined(c)
    \/ StoreUndef(c) \/ CreateSupervisor(c) \/ SUndef(c) \/ STrustMe(c)
    \/ UseIndex(c) \/ FirstInTable(c) \/ NoClauses(c) \/ UseList(c)
    \/ BeginHash(c) \/ HashClause(c) \/ LinkIndex(c) \/ NextClause(c) \/ LeaveFrame(c)

LoadStep == Unload \/ LinkClause \/ DateClause \/ UpdateDefinition \/ CollectClauses

Next == ~crashed /\ (LoadStep \/ \E c \in Calls : CallStep(c))

Spec == Init /\ [][Next]_vars

-----------------------------------------------------------------------------
(***************************************************************************)
(* Properties.                                                             *)
(***************************************************************************)

\* Freed clauses and indexes are never read: stopping the world finds all that is
\* held in a frame, and what is linked is never freed.  The exception is an index
\* that was being made when the file was unloaded: it is linked with clauses that
\* were erased behind it, and outlives them.
FreedNeverRead == crashed => stopped # {}

Trusted(c) == c \notin glimpsed /\ where[c] \notin late

\* A call is given clauses of one load of the file only, from the first on and
\* without gaps, and a call that finds its first clause between two loads goes on to
\* all of them, whatever is unloaded, loaded and freed meanwhile.  Only three races
\* break this: a clause that is met before its generations are set, an index that
\* is made during a load, and S_UNDEF stored after clauses were added.
CallsSeeOneProgram ==
    \A c \in Calls : Trusted(c) =>
        /\ \E load \in 1 .. Loads :
               /\ seen[c] \subseteq Program(load)
               /\ \A k \in seen[c] : \A j \in Program(load) : j < k => j \in seen[c]
               /\ c \in calm /\ pc[c] = "running" /\ at[c] = NoClause =>
                      seen[c] = Program(load)
        /\ pc[c] = "undefined" => c \notin calm \/ lateUndef
=============================================================================
