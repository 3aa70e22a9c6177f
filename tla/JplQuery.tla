------------------------------ MODULE JplQuery ------------------------------
(***************************************************************************)
(* The life of a jpl.Query (src/jpl/Query.java) on an engine of the pool.  *)
(*                                                                         *)
(* A query that is opened takes an engine from the pool, unless its thread *)
(* has one already, and is stacked on the query opened last on that        *)
(* engine.  It is closed when its solutions are exhausted, or by close(),  *)
(* and gives the engine back if no query is below it.  The static map `m'  *)
(* holds the topmost query of every engine.                                *)
(*                                                                         *)
(* The methods are synchronized on the query, except for abort().  A       *)
(* thread inside one of them holds the query's monitor.                    *)
(*                                                                         *)
(* A client iterates a query in the thread that opened it, as the comment  *)
(* of nextSolution() asks, and no query but the one on top of its engine,  *)
(* which the code does not check.  What next_solution() computes is left   *)
(* out: when it fails, get1() closes the query, so Close is also the end   *)
(* of hasMoreSolutions().  A call that throws and changes nothing is no    *)
(* step.                                                                   *)
(***************************************************************************)
EXTENDS EnginePool, Sequences

CONSTANTS
    Queries,
    BadGoals,       \* the queries M:G with an M that is no atom
    NoQuery         \* Java's null, for a query

ASSUME QueriesAssumption == NoQuery \notin Queries /\ BadGoals \subseteq Queries

VARIABLES
    topmost,        \* Query.m
    open,           \* the queries whose `open' is true
    engine,         \* Query.engine; a closed query may keep an old one
    subQuery,       \* Query.subQuery, likewise
    frames,         \* the queries open in the Prolog system, on each engine
    monitor,        \* the query in a method of which each thread is
    stage,          \* how far the thread is with it
    target,         \* the query whose abort() started an Aborter
    crashed         \* the process has been killed

queryVars == <<topmost, open, engine, subQuery, frames, monitor, stage, target,
               crashed>>
vars == <<poolVars, queryVars>>

Users == Threads \ Aborters

JplTypeOK ==
    /\ TypeOK
    /\ topmost \in [Slots -> Queries \cup {NoQuery}]
    /\ open \subseteq Queries
    /\ engine \in [Queries -> Slots \cup {NoEngine}]
    /\ subQuery \in [Queries -> Queries \cup {NoQuery}]
    /\ frames \in [Slots -> Seq(Queries)]
    /\ monitor \in [Users -> Queries \cup {NoQuery}]
    /\ stage \in [Users -> {"none", "opening", "releasing", "closing"}]
    /\ target \in [Aborters -> Queries \cup {NoQuery}]
    /\ crashed \in BOOLEAN

JplInit ==
    /\ Init
    /\ topmost = [e \in Slots |-> NoQuery]
    /\ open = {}
    /\ engine = [q \in Queries |-> NoEngine]
    /\ subQuery = [q \in Queries |-> NoQuery]
    /\ frames = [e \in Slots |-> <<>>]
    /\ monitor = [t \in Users |-> NoQuery]
    /\ stage = [t \in Users |-> "none"]
    /\ target = [a \in Aborters |-> NoQuery]
    /\ crashed = FALSE

-----------------------------------------------------------------------------
\* A thread enters a synchronized method of a query, goes on, and returns.
Outside(t) == pc[t] = "outside" /\ monitor[t] = NoQuery

Enter(t, q, s) ==
    /\ Outside(t)
    /\ \A u \in Users : monitor[u] # q
    /\ monitor' = [monitor EXCEPT ![t] = q]
    /\ stage' = [stage EXCEPT ![t] = s]

At(t, q, s) == pc[t] = "outside" /\ monitor[t] = q /\ stage[t] = s

Return(t) ==
    /\ monitor' = [monitor EXCEPT ![t] = NoQuery]
    /\ stage' = [stage EXCEPT ![t] = "none"]

-----------------------------------------------------------------------------
(***************************************************************************)
(* open().                                                                 *)
(***************************************************************************)

\* The thread takes an engine of the pool, or uses the one it has.
Open(t, q) ==
    /\ q \notin open
    /\ Enter(t, q, "opening")
    /\ \/ AttachPoolEngine(t)
       \/ attached[t] # NoEngine /\ UNCHANGED poolVars
    /\ UNCHANGED <<topmost, open, engine, subQuery, frames, target, crashed>>

Push(q, e) ==
    /\ engine' = [engine EXCEPT ![q] = e]
    /\ subQuery' = [subQuery EXCEPT ![q] = topmost[e]]
    /\ topmost' = [topmost EXCEPT ![e] = q]

OpenSucceeds(t, q) ==
    /\ At(t, q, "opening") /\ attached[t] # NoEngine
    /\ q \notin BadGoals
    /\ Push(q, attached[t])
    /\ frames' = [frames EXCEPT ![attached[t]] = Append(@, q)]
    /\ open' = open \cup {q}
    /\ Return(t)
    /\ UNCHANGED <<poolVars, target, crashed>>

\* The module prefix is looked at when the query is in `m' already.
OpenThrows(t, q) ==
    /\ At(t, q, "opening") /\ attached[t] # NoEngine
    /\ q \in BadGoals
    /\ Push(q, attached[t])
    /\ Return(t)
    /\ UNCHANGED <<poolVars, open, frames, target, crashed>>

\* attach_pool_engine gave null: `engine.value' throws.
OpenWithoutEngine(t, q) ==
    /\ At(t, q, "opening") /\ attached[t] = NoEngine
    /\ engine' = [engine EXCEPT ![q] = NoEngine]
    /\ Return(t)
    /\ UNCHANGED <<poolVars, topmost, open, subQuery, frames, target, crashed>>

-----------------------------------------------------------------------------
(***************************************************************************)
(* close(): it throws unless the thread has the query's engine and the     *)
(* query is the topmost of it.                                             *)
(***************************************************************************)

\* PL_close_query and PL_discard_foreign_frame discard the query, and whatever
\* may be above it.
Discard(q, e) ==
    \E i \in 1 .. Len(frames[e]) :
        /\ frames[e][i] = q
        /\ frames' = [frames EXCEPT ![e] = SubSeq(@, 1, i - 1)]

\* Mutant: the topmost query is not compared.
CloseAnyQuery(t, q) ==
    /\ q \in open /\ engine[q] = attached[t]
    /\ Enter(t, q, IF subQuery[q] = NoQuery THEN "releasing" ELSE "closing")
    /\ Discard(q, engine[q])
    /\ topmost' = [topmost EXCEPT ![engine[q]] = subQuery[q]]
    /\ UNCHANGED <<poolVars, open, engine, subQuery, target, crashed>>

\* Mutant: the engine is released whether or not a query is left on it.
CloseAndRelease(t, q) ==
    /\ q \in open /\ engine[q] = attached[t] /\ topmost[engine[q]] = q
    /\ Enter(t, q, "releasing")
    /\ Discard(q, engine[q])
    /\ topmost' = [topmost EXCEPT ![engine[q]] = subQuery[q]]
    /\ UNCHANGED <<poolVars, open, engine, subQuery, target, crashed>>

Close(t, q) ==
    /\ q \in open /\ engine[q] = attached[t] /\ topmost[engine[q]] = q
    /\ Enter(t, q, IF subQuery[q] = NoQuery THEN "releasing" ELSE "closing")
    /\ Discard(q, engine[q])
    /\ topmost' = [topmost EXCEPT ![engine[q]] = subQuery[q]]
    /\ UNCHANGED <<poolVars, open, engine, subQuery, target, crashed>>

\* Mutant: the engine stays with the thread.
KeepEngine(t, q) ==
    /\ At(t, q, "releasing")
    /\ UNCHANGED poolVars
    /\ stage' = [stage EXCEPT ![t] = "closing"]
    /\ UNCHANGED <<topmost, open, engine, subQuery, frames, monitor, target, crashed>>

\* release_pool_engine, which does nothing for the default engine.
Release(t, q) ==
    /\ At(t, q, "releasing")
    /\ \/ ReleasePoolEngine(t)
       \/ attached[t] = 0 /\ UNCHANGED poolVars
    /\ stage' = [stage EXCEPT ![t] = "closing"]
    /\ UNCHANGED <<topmost, open, engine, subQuery, frames, monitor, target, crashed>>

CloseReturns(t, q) ==
    /\ At(t, q, "closing")
    /\ open' = open \ {q}
    /\ engine' = [engine EXCEPT ![q] = NoEngine]
    /\ subQuery' = [subQuery EXCEPT ![q] = NoQuery]
    /\ Return(t)
    /\ UNCHANGED <<poolVars, topmost, frames, target, crashed>>

-----------------------------------------------------------------------------
(***************************************************************************)
(* abort() is not synchronized.  It starts a thread that tries to attach   *)
(* itself to the query's engine, and then calls PL_action(ABORT) whatever  *)
(* came of that.                                                           *)
(***************************************************************************)

Abort(a, q) ==
    /\ q \in open /\ target[a] = NoQuery
    /\ target' = [target EXCEPT ![a] = q]
    /\ UNCHANGED <<poolVars, topmost, open, engine, subQuery, frames, monitor,
                   stage, crashed>>

AbortAttaches(a) ==
    /\ target[a] # NoQuery
    /\ AttachEngine(a, engine[target[a]])
    /\ UNCHANGED queryVars

\* Mutant: a thread that gets no engine gives up.
AbortGivesUp(a) ==
    /\ target[a] # NoQuery /\ pc[a] = "outside" /\ attached[a] = NoEngine
    /\ engine[target[a]] \in created => InUse(engine[target[a]])
    /\ UNCHANGED vars

\* The engine is in use, or the query has none any more: abortProlog()
\* dereferences the null pointer that an unattached thread has for local data.
AbortCrashes(a) ==
    /\ target[a] # NoQuery /\ pc[a] = "outside" /\ attached[a] = NoEngine
    /\ engine[target[a]] \in created => InUse(engine[target[a]])
    /\ crashed' = TRUE
    /\ UNCHANGED <<poolVars, topmost, open, engine, subQuery, frames, monitor,
                   stage, target>>

\* A thread ends outside of the methods; it need not have closed its queries.
End(t) ==
    /\ IF t \in Aborters THEN attached[t] # NoEngine ELSE Outside(t)
    /\ EndThread(t)
    /\ UNCHANGED queryVars

\* The process is killed: by an exception of open() that the client does not catch,
\* or by Android.
Killed ==
    /\ crashed' = TRUE
    /\ UNCHANGED <<poolVars, topmost, open, engine, subQuery, frames, monitor,
                   stage, target>>

-----------------------------------------------------------------------------
UserStep(t, q) ==
    \/ Open(t, q) \/ OpenSucceeds(t, q) \/ OpenThrows(t, q) \/ OpenWithoutEngine(t, q)
    \/ Close(t, q) \/ Release(t, q) \/ CloseReturns(t, q)

PoolOnly(t) == (PoolStep(t) \/ SpuriousWakeup(t)) /\ UNCHANGED queryVars

JplNext ==
    /\ ~crashed
    /\ \/ \E t \in Users, q \in Queries : UserStep(t, q)
       \/ \E a \in Aborters : AbortAttaches(a) \/ AbortCrashes(a) \/ \E q \in Queries : Abort(a, q)
       \/ \E t \in Threads : PoolOnly(t) \/ End(t)
       \/ Killed

JplSpec == JplInit /\ [][JplNext]_vars

-----------------------------------------------------------------------------
(***************************************************************************)
(* Properties.                                                             *)
(***************************************************************************)

\* open() has thrown on engine `e' and left its query in the map.
Tainted(e) ==
    \/ topmost[e] \in BadGoals
    \/ \E q \in open : engine[q] = e /\ subQuery[q] \in BadGoals

\* What Java knows of an engine's queries is what the Prolog system has open on
\* it, in the same order: `m' names the last, `subQuery' of each the one below,
\* and none is open in Java only, but while close() is under way.  So close()
\* never discards a query that another one stands on.  An open() that throws
\* spoils this for its own engine only.
StacksAgree ==
    \A e \in Slots : ~Tainted(e) =>
        LET n == Len(frames[e]) IN
        /\ topmost[e] = IF n = 0 THEN NoQuery ELSE frames[e][n]
        /\ \A i \in 1 .. n :
              /\ frames[e][i] \in open
              /\ engine[frames[e][i]] = e
              /\ subQuery[frames[e][i]] = IF i = 1 THEN NoQuery ELSE frames[e][i - 1]
        /\ \A q \in open : engine[q] = e =>
              \/ \E i \in 1 .. n : frames[e][i] = q
              \/ \E t \in Users : monitor[t] = q

\* An engine that is free has nothing left on it: a thread that takes an engine
\* of the pool does not find the queries of the thread that had it before.
FreeEngineIsClean ==
    \A e \in Slots : ~InUse(e) => frames[e] = <<>> /\ topmost[e] = NoQuery

\* While a query is open on an engine, the engine stays with one thread.
EngineStaysWithQueries ==
    [][\A e \in Slots : frames[e] # <<>> => owner'[e] = owner[e]]_vars

\* A thread that has left Query's methods holds an engine of the pool only for a
\* query that is still open on it, or because an open() threw there.
EngineGivenBack ==
    \A t \in Users :
        Outside(t) /\ attached[t] > 0 /\ ~Tainted(attached[t]) => frames[attached[t]] # <<>>

\* The thread of abort() gets an engine only when the query that it was meant for
\* has left it: it never aborts a query.
AbortComesTooLate ==
    \A a \in Aborters :
        attached[a] # NoEngine => frames[attached[a]] = <<>>
=============================================================================
