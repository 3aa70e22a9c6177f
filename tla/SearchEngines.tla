---------------------------- MODULE SearchEngines ----------------------------
(***************************************************************************)
(* How the search service uses queries and engines: the generator threads  *)
(* of PrechacGenerator.java as clients of JplQuery.                        *)
(*                                                                         *)
(* A search opens its query on the generator thread, iterates it, and ends *)
(* in one of three ways: the solutions are exhausted, and hasMoreSolutions *)
(* has closed the query; the cache is full, and the query is left open; or *)
(* another search takes over, the query is left open too, abort() is       *)
(* called on it, and the other search opens its own on the same thread.    *)
(* The thread ends with its last search.                                   *)
(*                                                                         *)
(* Here a request starts a thread only if no thread is at work, so what    *)
(* the module shows needs none of the races of PrechacGenerator.           *)
(***************************************************************************)
EXTENDS JplQuery

VARIABLES
    requested,      \* the searches that were requested, each with a query
    search,         \* the search a generator thread is at
    next,           \* the search that is to take over: finishCallback
    phase           \* how far the generator thread is with its search

searchVars == <<requested, search, next, phase>>
allVars == <<vars, searchVars>>

Generators == Users
AtWork == {t \in Generators : phase[t] \notin {"new", "ended"}}

SearchInit ==
    /\ JplInit
    /\ requested = {}
    /\ search = [t \in Generators |-> NoQuery]
    /\ next = [t \in Generators |-> NoQuery]
    /\ phase = [t \in Generators |-> "new"]

\* The first of the threads is the one in which Prolog.init() starts Prolog.
StartsPrologFirst(t) == (\A u \in Generators : phase[u] = "new") <=> t = FirstThread

\* Mutant: a thread is started though another is at work.
StartAnotherThread(q) ==
    /\ q \notin requested
    /\ requested' = requested \cup {q}
    /\ \E t \in Generators :
          /\ phase[t] = "new" /\ StartsPrologFirst(t)
          /\ search' = [search EXCEPT ![t] = q]
          /\ phase' = [phase EXCEPT ![t] = "open"]
    /\ UNCHANGED <<vars, next>>

\* startGenerator: a thread of its own, or finishAnd of the current generator.
StartGenerator(q) ==
    /\ q \notin requested
    /\ requested' = requested \cup {q}
    /\ \/ /\ AtWork = {}
          /\ \E t \in Generators :
                /\ phase[t] = "new" /\ StartsPrologFirst(t)
                /\ search' = [search EXCEPT ![t] = q]
                /\ phase' = [phase EXCEPT ![t] = "open"]
          /\ UNCHANGED next
       \/ /\ next' = [t \in Generators |-> IF t \in AtWork THEN q ELSE next[t]]
          /\ AtWork # {}
          /\ UNCHANGED <<search, phase>>
    /\ UNCHANGED vars

Proceed(t, from, to) ==
    /\ phase[t] = from /\ phase' = [phase EXCEPT ![t] = to]
    /\ UNCHANGED requested

\* hasMoreSolutions opens the query, and tells the first solution.
OpenQuery(t) ==
    /\ Proceed(t, "open", "iterate")
    /\ Open(t, search[t])
    /\ UNCHANGED <<search, next>>

\* hasMoreSolutions finds that there are no more, and closes the query.
Exhaust(t) ==
    /\ Proceed(t, "iterate", "close")
    /\ Close(t, search[t])
    /\ UNCHANGED <<search, next>>

\* The cache is full.
Fill(t) ==
    /\ Outside(t) /\ search[t] \in open
    /\ Proceed(t, "iterate", "finish")
    /\ UNCHANGED <<vars, search, next>>

\* A search is to take over: query.abort(), finishCallback.run().
TakeOver(t) ==
    /\ Outside(t) /\ search[t] \in open /\ next[t] # NoQuery
    /\ Proceed(t, "iterate", "open")
    /\ \E a \in Aborters : Abort(a, search[t])
    /\ search' = [search EXCEPT ![t] = next[t]]
    /\ next' = [next EXCEPT ![t] = NoQuery]

Closed(t) ==
    /\ Outside(t)
    /\ Proceed(t, "close", "finish")
    /\ UNCHANGED <<vars, search, next>>

\* open() threw for want of an engine; nothing catches it.
Uncaught(t) ==
    /\ phase[t] = "iterate" /\ Outside(t) /\ search[t] \notin open
    /\ Killed
    /\ UNCHANGED searchVars

Finish(t) ==
    /\ Proceed(t, "finish", "ended")
    /\ End(t)
    /\ UNCHANGED <<search, next>>

\* The steps inside the methods of Query, and of the pool.
Inside(t) ==
    /\ \E q \in Queries :
          \/ OpenSucceeds(t, q) \/ OpenWithoutEngine(t, q)
          \/ Release(t, q) \/ CloseReturns(t, q)
    /\ UNCHANGED searchVars

InPool(t) == PoolStep(t) /\ UNCHANGED <<queryVars, searchVars>>
Wakeup(t) == SpuriousWakeup(t) /\ UNCHANGED <<queryVars, searchVars>>

GeneratorStep(t) ==
    \/ OpenQuery(t) \/ Exhaust(t) \/ Fill(t) \/ TakeOver(t) \/ Closed(t)
    \/ Uncaught(t) \/ Finish(t) \/ Inside(t) \/ InPool(t)

AborterStep(a) == (AbortAttaches(a) \/ AbortCrashes(a)) /\ UNCHANGED searchVars

SearchNext ==
    /\ ~crashed
    /\ \/ \E q \in Queries : StartGenerator(q)
       \/ \E t \in Generators : GeneratorStep(t) \/ Wakeup(t)
       \/ \E a \in Aborters : AborterStep(a)

\* Every thread runs on; the user opens screens or does not.
SearchFairness ==
    /\ \A t \in Generators : WF_allVars(~crashed /\ GeneratorStep(t))
    /\ \A a \in Aborters : WF_allVars(~crashed /\ AborterStep(a))

SearchSpec == SearchInit /\ [][SearchNext]_allVars /\ SearchFairness

-----------------------------------------------------------------------------
(***************************************************************************)
(* Properties.                                                             *)
(***************************************************************************)

\* A search waits for an engine only when each of the pool's engines belongs to
\* a thread that has ended: not one of them can ever be given back.
WaitsForTheDead ==
    waiting # {} => \A e \in Slots : InUse(e) /\ phase[owner[e]] = "ended"

\* An engine that an ended thread keeps is the default one, or one with the
\* query of a search that filled the cache or was taken over: a search that
\* exhausts its query leaks nothing.
LeaksOnlyOpenQueries ==
    \A e \in Slots :
        InUse(e) /\ phase[owner[e]] = "ended" =>
            e = 0 \/ \E q \in Queries : q \in open /\ engine[q] = e

\* Every hand-over that is carried out kills the process: the thread of abort()
\* never gets the engine, for the query that is aborted keeps it, and goes on
\* without.
HandOverKills ==
    \A a \in Aborters : target[a] # NoQuery ~> crashed

\* A generator thread at work ends, is killed with the process, or waits for an
\* engine: the scan of the pool finds one, makes one, or gives up after finitely
\* many tries, whatever other threads do meanwhile.
GeneratorEnds ==
    \A t \in Generators :
        t \in AtWork ~> (phase[t] = "ended" \/ t \in waiting \/ crashed)

\* attach_pool_engine "may block for a while", as Query.open() says: a search that
\* waits for an engine gets one, or the process ends.
WaitsForAWhile ==
    \A t \in Generators : pc[t] = "wait" ~> (attached[t] # NoEngine \/ crashed)
=============================================================================
