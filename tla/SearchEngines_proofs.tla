------------------------ MODULE SearchEngines_proofs ------------------------
(***************************************************************************)
(* Theorems about the searches as clients of queries and engines, for any  *)
(* number of generator threads, of threads of abort(), of searches and of  *)
(* engines.                                                                *)
(***************************************************************************)
EXTENDS SearchEngines, JplQuery_proofs

(***************************************************************************)
(* The strengthened invariant.                                             *)
(***************************************************************************)

SearchTypeOK ==
    /\ requested \subseteq Queries
    /\ search \in [Generators -> Queries \cup {NoQuery}]
    /\ next \in [Generators -> Queries \cup {NoQuery}]
    /\ phase \in [Generators -> {"new", "open", "iterate", "close", "finish", "ended"}]

\* One generator thread is at work at a time, the first one first, and it is in the
\* methods of no query but its search's.  A thread that has not begun has no engine,
\* unless it is the one that starts Prolog.
OneAtWork ==
    /\ \A t, u \in AtWork : t = u
    /\ phase[FirstThread] = "new" => \A t \in Generators : phase[t] = "new"
    /\ \A t \in Generators :
          /\ phase[t] \notin {"iterate", "close"} => monitor[t] = NoQuery
          /\ monitor[t] \in {NoQuery, search[t]}
          /\ phase[t] = "new" => t = FirstThread \/ attached[t] = NoEngine
          /\ phase[t] = "new" => next[t] = NoQuery
          /\ t \in AtWork => search[t] # NoQuery

\* Each search has a query of its own.  The one that is aborted is open, and no
\* thread has to do with it any more.
OwnQueries ==
    /\ \A t \in Generators :
          /\ search[t] \in requested \cup {NoQuery}
          /\ next[t] \in requested \cup {NoQuery}
          /\ t \in AtWork => search[t] # next[t]
    /\ \A a \in Aborters : target[a] # NoQuery =>
          /\ target[a] \in requested /\ target[a] \in open
          /\ \A t \in Generators : monitor[t] # target[a]
          /\ \A t \in AtWork : target[a] # search[t] /\ target[a] # next[t]

\* No open() of a search throws on an engine, and no thread of abort() gets one.
NoneTainted ==
    /\ \A e \in Slots : topmost[e] \notin BadGoals
    /\ \A q \in Queries : subQuery[q] \notin BadGoals
    /\ \A a \in Aborters : attached[a] = NoEngine

SearchInv == SearchTypeOK /\ OneAtWork /\ OwnQueries /\ NoneTainted

AllInv == Inv /\ StackInv /\ SearchInv

-----------------------------------------------------------------------------
(***************************************************************************)
(* A search uses its query as JplQuery asks of a client.                   *)
(***************************************************************************)

LEMMA GeneratorsAreUsers ==
    /\ Generators \subseteq Threads /\ Generators \cap Aborters = {}
    /\ Aborters \subseteq Threads
    /\ FirstThread \in Generators
  BY ThreadsAssumption DEF Generators, Users

LEMMA GeneratorJplStep ==
    ASSUME SearchInv, ~crashed, NEW t \in Generators, GeneratorStep(t) \/ Wakeup(t)
    PROVE  JplNext \/ UNCHANGED vars
<1> USE DEF Generators
<1>1. phase[t] \notin {"new", "ended"} => search[t] \in Queries
  BY DEF SearchInv, SearchTypeOK, OneAtWork, AtWork
<1>2. CASE OpenQuery(t) \/ Exhaust(t)
  <2>1. search[t] \in Queries /\ UserStep(t, search[t])
    BY <1>1, <1>2 DEF OpenQuery, Exhaust, Proceed, UserStep
  <2> QED
    BY <2>1 DEF JplNext
<1>3. CASE Fill(t) \/ Closed(t)
  BY <1>3 DEF Fill, Closed
<1>4. CASE TakeOver(t)
  <2>1. search[t] \in Queries /\ \E a \in Aborters : Abort(a, search[t])
    BY <1>1, <1>4 DEF TakeOver, Proceed
  <2> QED
    BY <2>1 DEF JplNext
<1>5. CASE Uncaught(t)
  BY <1>5 DEF Uncaught, JplNext
<1>6. CASE Finish(t) \/ InPool(t) \/ Wakeup(t)
  <2>1. t \in Threads /\ (PoolOnly(t) \/ End(t))
    BY <1>6, GeneratorsAreUsers DEF Finish, InPool, Wakeup, PoolOnly
  <2> QED
    BY <2>1 DEF JplNext
<1>7. CASE Inside(t)
  <2>1. \E q \in Queries : UserStep(t, q)
    BY <1>7 DEF Inside, UserStep
  <2> QED
    BY <2>1 DEF JplNext
<1> QED
  BY <1>2, <1>3, <1>4, <1>5, <1>6, <1>7 DEF GeneratorStep

LEMMA SearchJplStep == SearchInv /\ [SearchNext]_allVars => [JplNext]_vars
<1> SUFFICES ASSUME SearchInv, [SearchNext]_allVars PROVE JplNext \/ UNCHANGED vars
  OBVIOUS
<1>1. CASE UNCHANGED allVars
  BY <1>1 DEF allVars
<1>2. ASSUME NEW q \in Queries, StartGenerator(q) PROVE UNCHANGED vars
  BY <1>2 DEF StartGenerator
<1>3. ASSUME NEW a \in Aborters, AborterStep(a), ~crashed PROVE JplNext
  BY <1>3 DEF AborterStep, JplNext
<1> QED
  BY <1>1, <1>2, <1>3, GeneratorJplStep DEF SearchNext

\* A query that was aborted keeps its engine in use.
LEMMA AbortedKeepsEngine ==
    ASSUME AllInv, NEW a \in Aborters, target[a] # NoQuery
    PROVE  engine[target[a]] \in Slots /\ InUse(engine[target[a]])
<1>1. target[a] \in open /\ target[a] \in Queries /\ \A t \in Users : monitor[t] # target[a]
  BY DEF AllInv, SearchInv, OwnQueries, Generators, Inv, QueryInv, JplTypeOK
<1>2. PICK e \in Slots : engine[target[a]] = e
  BY <1>1 DEF AllInv, Inv, QueryInv, Stacked
<1>3. ~Tainted(e)
  BY DEF AllInv, SearchInv, NoneTainted, Tainted, Inv, QueryInv, JplTypeOK
<1>4. \E i \in 1 .. Len(frames[e]) : frames[e][i] = target[a]
  BY <1>1, <1>2, <1>3 DEF AllInv, StackInv, Agrees
<1>5. frames[e] # <<>>
  BY <1>4
<1> QED
  BY <1>2, <1>5 DEF AllInv, Inv, QueryInv, FreeEngineIsClean

-----------------------------------------------------------------------------
(***************************************************************************)
(* The invariant, step by step.                                            *)
(***************************************************************************)

LEMMA InitSearchInv == SearchInit => SearchInv
<1> SUFFICES ASSUME SearchInit PROVE SearchInv
  OBVIOUS
<1>1. SearchTypeOK
  BY DEF SearchInit, SearchTypeOK
<1>2. OneAtWork
  BY GeneratorsAreUsers DEF SearchInit, JplInit, Init, OneAtWork, AtWork, Generators
<1>3. OwnQueries
  BY DEF SearchInit, JplInit, OwnQueries, AtWork
<1>4. NoneTainted
  BY QueriesAssumption, GeneratorsAreUsers DEF SearchInit, JplInit, Init, NoneTainted
<1> QED
  BY <1>1, <1>2, <1>3, <1>4 DEF SearchInv

\* The steps that leave the searches where they are: a thread may return from a
\* query's method, close the query it is in, and exchange its engine in there.
LEMMA StepsInside ==
    ASSUME AllInv, UNCHANGED <<searchVars, target>>,
           \A u \in Users : monitor'[u] \in {monitor[u], NoQuery},
           \A u \in Threads : attached'[u] # attached[u] =>
               u \in Users /\ stage[u] \in {"opening", "releasing"},
           \A x \in open : x \in open' \/ \E u \in Users : monitor[u] = x,
           \A e \in Slots : topmost'[e] \notin BadGoals,
           \A q \in Queries : subQuery'[q] \notin BadGoals
    PROVE  SearchInv'
<1>1. UNCHANGED <<requested, search, next, phase, target>> /\ AtWork' = AtWork
  BY DEF searchVars, AtWork
<1>2. SearchTypeOK'
  BY <1>1 DEF AllInv, SearchInv, SearchTypeOK
<1>3. \A t \in Generators : phase[t] \notin {"iterate", "close"} => attached'[t] = attached[t]
  BY GeneratorsAreUsers DEF AllInv, SearchInv, OneAtWork, StackInv, InMethods, Generators
<1>4. OneAtWork'
  BY <1>1, <1>3 DEF AllInv, SearchInv, OneAtWork, Generators
<1>5. OwnQueries'
  BY <1>1 DEF AllInv, SearchInv, OwnQueries, Generators
<1>6. NoneTainted'
  BY GeneratorsAreUsers DEF AllInv, SearchInv, NoneTainted, Generators
<1> QED
  BY <1>2, <1>4, <1>5, <1>6 DEF SearchInv

LEMMA InsideInv ==
    ASSUME AllInv, NEW t \in Generators, Inside(t) PROVE SearchInv'
<1>1. PICK q \in Queries : \/ OpenSucceeds(t, q) \/ OpenWithoutEngine(t, q)
                           \/ Release(t, q) \/ CloseReturns(t, q)
  BY DEF Inside
<1>2. UNCHANGED <<searchVars, target>> /\ t \in Users
  BY <1>1 DEF Inside, OpenSucceeds, OpenWithoutEngine, Release, CloseReturns, Generators
<1>3. /\ monitor \in [Users -> Queries \cup {NoQuery}]
      /\ topmost \in [Slots -> Queries \cup {NoQuery}]
      /\ subQuery \in [Queries -> Queries \cup {NoQuery}]
      /\ NoQuery \notin BadGoals
      /\ \A e \in Slots : topmost[e] \notin BadGoals
      /\ \A x \in Queries : subQuery[x] \notin BadGoals
  BY QueriesAssumption DEF AllInv, Inv, QueryInv, JplTypeOK, SearchInv, NoneTainted
<1>4. \A u \in Users : monitor'[u] \in {monitor[u], NoQuery}
  BY <1>1, <1>3 DEF OpenSucceeds, OpenWithoutEngine, Release, CloseReturns, Return
<1>5. \A u \in Threads : attached'[u] # attached[u] =>
          u \in Users /\ stage[u] \in {"opening", "releasing"}
  <2>1. CASE Release(t, q)
    BY <1>2, <2>1 DEF Release, ReleasePoolEngine, Detach, At, poolVars, AllInv, Inv, PoolInv, TypeOK
  <2>2. CASE OpenSucceeds(t, q) \/ OpenWithoutEngine(t, q) \/ CloseReturns(t, q)
    BY <2>2 DEF OpenSucceeds, OpenWithoutEngine, CloseReturns, poolVars
  <2> QED
    BY <1>1, <2>1, <2>2
<1>6. \A x \in open : x \in open' \/ \E u \in Users : monitor[u] = x
  BY <1>1, <1>2 DEF OpenSucceeds, OpenWithoutEngine, Release, CloseReturns, At
<1>7. /\ \A e \in Slots : topmost'[e] \notin BadGoals
      /\ \A x \in Queries : subQuery'[x] \notin BadGoals
  <2>1. CASE OpenSucceeds(t, q)
    <3>1. attached[t] \in Slots /\ Push(q, attached[t]) /\ q \notin BadGoals
      BY <1>2, <2>1, OwnEngine DEF OpenSucceeds, AllInv
    <3> QED
      BY <1>3, <3>1 DEF Push
  <2>2. CASE OpenWithoutEngine(t, q) \/ Release(t, q) \/ CloseReturns(t, q)
    BY <1>3, <2>2 DEF OpenWithoutEngine, Release, CloseReturns
  <2> QED
    BY <1>1, <2>1, <2>2
<1> QED
  BY <1>2, <1>4, <1>5, <1>6, <1>7, StepsInside

LEMMA PoolSearchInv ==
    ASSUME AllInv, NEW t \in Generators, InPool(t) \/ Wakeup(t) PROVE SearchInv'
<1>1. /\ UNCHANGED <<queryVars, searchVars>> /\ t \in Users /\ t \in Threads
      /\ PoolStep(t) \/ SpuriousWakeup(t)
  BY GeneratorsAreUsers DEF InPool, Wakeup, Generators
<1>2. \A u \in Threads : attached'[u] # attached[u] => u = t /\ stage[t] = "opening"
  <2>1. CASE TakeEngine(t)
    BY <1>1, <2>1 DEF TakeEngine, SetEngine, Goto, AllInv, StackInv, InMethods, Inv, PoolInv, TypeOK
  <2>2. CASE Lock(t) \/ SkipEngine(t) \/ CreateEngine(t) \/ CreateFails(t) \/ Wait(t)
             \/ Signal(t) \/ SpuriousWakeup(t)
    BY <2>2 DEF Lock, SkipEngine, CreateEngine, CreateFails, Wait, Signal, SpuriousWakeup
  <2> QED
    BY <1>1, <2>1, <2>2 DEF PoolStep
<1>3. UNCHANGED <<searchVars, target, monitor, open, topmost, subQuery>>
  BY <1>1 DEF queryVars
<1>4. /\ \A e \in Slots : topmost'[e] \notin BadGoals
      /\ \A q \in Queries : subQuery'[q] \notin BadGoals
  BY <1>3 DEF AllInv, SearchInv, NoneTainted
<1> QED
  BY <1>1, <1>2, <1>3, <1>4, StepsInside

\* abort() reaches no engine, for the query that is aborted keeps it.
LEMMA AborterInv ==
    ASSUME AllInv, NEW a \in Aborters, AborterStep(a)
    PROVE  SearchInv' /\ UNCHANGED poolVars
<1>1. ~AbortAttaches(a)
  BY AbortedKeepsEngine DEF AbortAttaches, AttachEngine
<1>2. UNCHANGED <<poolVars, searchVars, target, monitor, open, topmost, subQuery>>
  BY <1>1 DEF AborterStep, AbortCrashes
<1>3. /\ \A e \in Slots : topmost'[e] \notin BadGoals
      /\ \A q \in Queries : subQuery'[q] \notin BadGoals
  BY <1>2 DEF AllInv, SearchInv, NoneTainted
<1> QED
  BY <1>2, <1>3, StepsInside DEF poolVars

LEMMA UncaughtInv ==
    ASSUME AllInv, NEW t \in Generators, Uncaught(t) PROVE SearchInv'
<1>1. UNCHANGED <<poolVars, searchVars, target, monitor, open, topmost, subQuery>>
  BY DEF Uncaught, Killed
<1>2. /\ \A e \in Slots : topmost'[e] \notin BadGoals
      /\ \A q \in Queries : subQuery'[q] \notin BadGoals
  BY <1>1 DEF AllInv, SearchInv, NoneTainted
<1> QED
  BY <1>1, <1>2, StepsInside DEF poolVars

-----------------------------------------------------------------------------
\* A request starts a thread when none is at work, or is left to the one that is.
LEMMA StartInv ==
    ASSUME AllInv, NEW q \in Queries, StartGenerator(q) PROVE SearchInv'
<1>1. /\ UNCHANGED vars /\ q \notin requested /\ requested' = requested \cup {q}
      /\ q # NoQuery
  BY QueriesAssumption DEF StartGenerator
<1>2. /\ UNCHANGED <<topmost, open, subQuery, monitor, target, attached>>
  BY <1>1 DEF vars, poolVars, queryVars
<1>3. NoneTainted'
  BY <1>2 DEF AllInv, SearchInv, NoneTainted
<1>4. \A a \in Aborters : target[a] # NoQuery => target[a] # q
  BY <1>1 DEF AllInv, SearchInv, OwnQueries
<1>5. CASE AtWork = {}
  <2>1. PICK t \in Generators :
           /\ phase[t] = "new" /\ StartsPrologFirst(t)
           /\ search' = [search EXCEPT ![t] = q]
           /\ phase' = [phase EXCEPT ![t] = "open"]
           /\ UNCHANGED next
    BY <1>5 DEF StartGenerator
  <2>2. /\ \A u \in Generators : phase'[u] = IF u = t THEN "open" ELSE phase[u]
        /\ \A u \in Generators : search'[u] = IF u = t THEN q ELSE search[u]
    BY <2>1 DEF AllInv, SearchInv, SearchTypeOK
  <2>3. AtWork' = {t}
    BY <1>5, <2>2 DEF AtWork
  <2>4. SearchTypeOK'
    BY <1>1, <2>1 DEF AllInv, SearchInv, SearchTypeOK
  <2>5. phase'[FirstThread] # "new"
    BY <2>1, <2>2, GeneratorsAreUsers DEF StartsPrologFirst, AllInv, SearchInv, OneAtWork
  <2>6. OneAtWork'
    BY <1>1, <1>2, <2>1, <2>2, <2>3, <2>5 DEF AllInv, SearchInv, OneAtWork
  <2>7. OwnQueries'
    BY <1>1, <1>2, <1>4, <2>1, <2>2, <2>3 DEF AllInv, SearchInv, OwnQueries, OneAtWork
  <2> QED
    BY <1>3, <2>4, <2>6, <2>7 DEF SearchInv
<1>6. CASE AtWork # {}
  <2>1. /\ next' = [t \in Generators |-> IF t \in AtWork THEN q ELSE next[t]]
        /\ UNCHANGED <<search, phase>> /\ AtWork' = AtWork
    BY <1>6 DEF StartGenerator, AtWork
  <2>2. SearchTypeOK'
    BY <1>1, <2>1 DEF AllInv, SearchInv, SearchTypeOK
  <2>3. OneAtWork'
    BY <1>1, <1>2, <2>1 DEF AllInv, SearchInv, OneAtWork, AtWork
  <2>4. OwnQueries'
    BY <1>1, <1>2, <1>4, <2>1 DEF AllInv, SearchInv, OwnQueries, AtWork
  <2> QED
    BY <1>3, <2>2, <2>3, <2>4 DEF SearchInv
<1> QED
  BY <1>5, <1>6

\* A thread enters a method of its search's query.
LEMMA EnterInv ==
    ASSUME AllInv, NEW t \in Generators, OpenQuery(t) \/ Exhaust(t) PROVE SearchInv'
<1>1. /\ phase[t] \in {"open", "iterate"} /\ UNCHANGED <<requested, search, next, target, open, subQuery>>
      /\ \/ phase' = [phase EXCEPT ![t] = "iterate"]
         \/ phase' = [phase EXCEPT ![t] = "close"]
      /\ Open(t, search[t]) \/ Close(t, search[t])
  BY DEF OpenQuery, Exhaust, Proceed, Open, Close
<1>2. /\ phase'[t] \in {"iterate", "close"} /\ \A u \in Generators \ {t} : phase'[u] = phase[u]
      /\ phase' \in [Generators -> {"new", "open", "iterate", "close", "finish", "ended"}]
  BY <1>1 DEF AllInv, SearchInv, SearchTypeOK
<1>3. AtWork' = AtWork /\ t \in AtWork
  BY <1>1, <1>2 DEF AtWork
<1>4. \A u \in Users : monitor'[u] = IF u = t THEN search[t] ELSE monitor[u]
  BY <1>1 DEF Open, Close, Enter, AllInv, Inv, QueryInv, JplTypeOK
<1>5. attached' = attached
  BY <1>1 DEF Open, AttachPoolEngine, Close, poolVars
<1>6. SearchTypeOK'
  BY <1>1, <1>2 DEF AllInv, SearchInv, SearchTypeOK
<1>7. OneAtWork'
  <2>1. phase'[FirstThread] # "new"
    BY <1>1, <1>2, GeneratorsAreUsers DEF AllInv, SearchInv, OneAtWork
  <2>2. \A u \in Generators :
           /\ phase'[u] \notin {"iterate", "close"} => monitor'[u] = NoQuery
           /\ monitor'[u] \in {NoQuery, search'[u]}
           /\ phase'[u] = "new" => u = FirstThread \/ attached'[u] = NoEngine
           /\ phase'[u] = "new" => next'[u] = NoQuery
    BY <1>1, <1>2, <1>4, <1>5 DEF AllInv, SearchInv, OneAtWork, Generators
  <2> QED
    BY <1>1, <1>3, <2>1, <2>2 DEF AllInv, SearchInv, OneAtWork
<1>8. OwnQueries'
  BY <1>1, <1>3, <1>4 DEF AllInv, SearchInv, OwnQueries, Generators
<1>9. \A e \in Slots : topmost'[e] \notin BadGoals
  <2>1. CASE Open(t, search[t])
    BY <2>1 DEF Open, AllInv, SearchInv, NoneTainted
  <2>2. CASE Close(t, search[t])
    <3>1. search[t] \in Queries /\ topmost' = [topmost EXCEPT ![engine[search[t]]] = subQuery[search[t]]]
      BY <2>2 DEF Close, AllInv, Inv, QueryInv, JplTypeOK
    <3> QED
      BY <3>1 DEF AllInv, SearchInv, NoneTainted, Inv, QueryInv, JplTypeOK
  <2> QED
    BY <1>1, <2>1, <2>2
<1>10. NoneTainted'
  BY <1>1, <1>5, <1>9 DEF AllInv, SearchInv, NoneTainted
<1> QED
  BY <1>6, <1>7, <1>8, <1>10 DEF SearchInv

LEMMA ProceedInv ==
    ASSUME AllInv, NEW t \in Generators, Fill(t) \/ Closed(t) \/ Finish(t) PROVE SearchInv'
<1>1. /\ monitor[t] = NoQuery /\ phase[t] \notin {"new", "ended"}
      /\ UNCHANGED <<requested, search, next, target, open, topmost, subQuery, monitor, attached>>
      /\ \/ phase' = [phase EXCEPT ![t] = "finish"]
         \/ phase' = [phase EXCEPT ![t] = "ended"]
  BY GeneratorsAreUsers DEF Fill, Closed, Finish, End, EndThread, Outside, Proceed, vars, poolVars, queryVars
<1>2. /\ phase'[t] \in {"finish", "ended"} /\ \A u \in Generators \ {t} : phase'[u] = phase[u]
      /\ phase' \in [Generators -> {"new", "open", "iterate", "close", "finish", "ended"}]
  BY <1>1 DEF AllInv, SearchInv, SearchTypeOK
<1>3. AtWork' \subseteq AtWork
  BY <1>1, <1>2 DEF AtWork
<1>4. SearchTypeOK'
  BY <1>1, <1>2 DEF AllInv, SearchInv, SearchTypeOK
<1>5. OneAtWork'
  <2>1. phase'[FirstThread] # "new"
    BY <1>1, <1>2, GeneratorsAreUsers DEF AllInv, SearchInv, OneAtWork
  <2>2. \A u \in Generators :
           /\ phase'[u] \notin {"iterate", "close"} => monitor'[u] = NoQuery
           /\ monitor'[u] \in {NoQuery, search'[u]}
           /\ phase'[u] = "new" => u = FirstThread \/ attached'[u] = NoEngine
           /\ phase'[u] = "new" => next'[u] = NoQuery
    BY <1>1, <1>2 DEF AllInv, SearchInv, OneAtWork
  <2>3. \A u \in AtWork' : u \in Generators /\ search'[u] # NoQuery
    BY <1>1, <1>3 DEF AllInv, SearchInv, OneAtWork, AtWork
  <2>4. \A u, v \in AtWork' : u = v
    BY <1>3 DEF AllInv, SearchInv, OneAtWork
  <2> QED
    BY <2>1, <2>2, <2>3, <2>4 DEF OneAtWork
<1>6. OwnQueries'
  BY <1>1, <1>3 DEF AllInv, SearchInv, OwnQueries
<1>7. NoneTainted'
  BY <1>1 DEF AllInv, SearchInv, NoneTainted
<1> QED
  BY <1>4, <1>5, <1>6, <1>7 DEF SearchInv

\* The search that takes over leaves the query of the other open, for ever.
LEMMA TakeOverInv ==
    ASSUME AllInv, NEW t \in Generators, TakeOver(t) PROVE SearchInv'
<1>1. PICK a \in Aborters : Abort(a, search[t])
  BY DEF TakeOver
<1>2. /\ monitor[t] = NoQuery /\ search[t] \in open /\ next[t] # NoQuery
      /\ phase[t] = "iterate" /\ phase' = [phase EXCEPT ![t] = "open"]
      /\ search' = [search EXCEPT ![t] = next[t]] /\ next' = [next EXCEPT ![t] = NoQuery]
      /\ UNCHANGED <<requested, open, topmost, subQuery, monitor, attached>>
      /\ target' = [target EXCEPT ![a] = search[t]]
  BY <1>1 DEF TakeOver, Outside, Proceed, Abort, poolVars
<1>3. /\ \A u \in Generators : phase'[u] = IF u = t THEN "open" ELSE phase[u]
      /\ \A u \in Generators : search'[u] = IF u = t THEN next[t] ELSE search[u]
      /\ \A u \in Generators : next'[u] = IF u = t THEN NoQuery ELSE next[u]
      /\ \A b \in Aborters : target'[b] = IF b = a THEN search[t] ELSE target[b]
  BY <1>2 DEF AllInv, SearchInv, SearchTypeOK, Inv, QueryInv, JplTypeOK
<1>4. AtWork' = AtWork /\ AtWork = {t}
  BY <1>2, <1>3 DEF AtWork, AllInv, SearchInv, OneAtWork
<1>5. SearchTypeOK'
  BY <1>2 DEF AllInv, SearchInv, SearchTypeOK
<1>6. OneAtWork'
  <2>1. phase'[FirstThread] # "new"
    BY <1>2, <1>3, GeneratorsAreUsers DEF AllInv, SearchInv, OneAtWork
  <2>2. next[t] # NoQuery => search'[t] # NoQuery
    BY <1>3
  <2> QED
    BY <1>2, <1>3, <1>4, <2>1, <2>2 DEF AllInv, SearchInv, OneAtWork
<1>7. search[t] # NoQuery /\ search[t] \in requested /\ search[t] # next[t]
  BY <1>4 DEF AllInv, SearchInv, OneAtWork, OwnQueries
<1>8. \A u \in Generators : monitor[u] # search[t]
  BY <1>2, <1>4, <1>7 DEF AllInv, SearchInv, OneAtWork, AtWork
<1>9. OwnQueries'
  <2>1. ASSUME NEW u \in Generators
        PROVE  /\ search'[u] \in requested' \cup {NoQuery}
               /\ next'[u] \in requested' \cup {NoQuery}
               /\ u \in AtWork' => search'[u] # next'[u]
    BY <1>2, <1>3, <1>4 DEF AllInv, SearchInv, OwnQueries
  <2>2. ASSUME NEW b \in Aborters, target'[b] # NoQuery
        PROVE  /\ target'[b] \in requested' /\ target'[b] \in open'
               /\ \A u \in Generators : monitor'[u] # target'[b]
               /\ \A u \in AtWork' : target'[b] # search'[u] /\ target'[b] # next'[u]
    BY <1>2, <1>3, <1>4, <1>7, <1>8, <2>2 DEF AllInv, SearchInv, OwnQueries
  <2> QED
    BY <2>1, <2>2 DEF OwnQueries
<1>10. NoneTainted'
  BY <1>2 DEF AllInv, SearchInv, NoneTainted
<1> QED
  BY <1>5, <1>6, <1>9, <1>10 DEF SearchInv

LEMMA SearchInvStep == AllInv /\ [SearchNext]_allVars => AllInv'
<1> SUFFICES ASSUME AllInv, [SearchNext]_allVars PROVE AllInv'
  OBVIOUS
<1>1. [JplNext]_vars
  BY SearchJplStep DEF AllInv
<1>2. Inv' /\ StackInv'
  BY <1>1, InvStep, StackInvStep DEF AllInv
<1>3. CASE UNCHANGED allVars
  <2>1. UNCHANGED <<poolVars, searchVars, target, monitor, open, topmost, subQuery>>
    BY <1>3 DEF allVars, vars, queryVars
  <2>2. /\ \A e \in Slots : topmost'[e] \notin BadGoals
        /\ \A q \in Queries : subQuery'[q] \notin BadGoals
    BY <2>1 DEF AllInv, SearchInv, NoneTainted
  <2>3. SearchInv'
    BY <2>1, <2>2, StepsInside DEF poolVars
  <2> QED
    BY <1>2, <2>3 DEF AllInv
<1>4. ASSUME NEW t \in Generators, GeneratorStep(t) \/ Wakeup(t) PROVE SearchInv'
  BY <1>4, EnterInv, ProceedInv, TakeOverInv, UncaughtInv, InsideInv, PoolSearchInv
     DEF GeneratorStep
<1> QED
  BY <1>2, <1>3, <1>4, StartInv, AborterInv DEF SearchNext, AllInv

LEMMA SearchInvariant == SearchSpec => []AllInv
<1>1. SearchInit => AllInv
  BY InitInv, InitStackInv, InitSearchInv DEF SearchInit, AllInv
<1> QED
  BY <1>1, SearchInvStep, PTL DEF SearchSpec

\* The searches are clients that keep to the rules of JplQuery, and so of the pool:
\* whatever is true of all such clients is true of them.
THEOREM SearchesUseQueries == SearchSpec => JplSpec
<1>1. SearchInit => JplInit
  BY DEF SearchInit
<1>2. AllInv /\ [SearchNext]_allVars => [JplNext]_vars
  BY SearchJplStep DEF AllInv
<1> QED
  BY <1>1, <1>2, SearchInvariant, PTL DEF SearchSpec, JplSpec

\* The engine that an ended search keeps has the query of a search on it that was
\* not exhausted; only the default engine is kept without.
THEOREM OnlyOpenQueriesLeak == SearchSpec => []LeaksOnlyOpenQueries
<1>1. AllInv => LeaksOnlyOpenQueries
  <2> SUFFICES ASSUME AllInv, NEW e \in Slots, InUse(e), phase[owner[e]] = "ended", e # 0
               PROVE  \E q \in Queries : q \in open /\ engine[q] = e
    BY DEF LeaksOnlyOpenQueries
  <2>1. owner[e] \in Threads /\ attached[owner[e]] = e
    BY DEF AllInv, Inv, PoolInv, TypeOK, ExclusiveEngine, InUse
  <2>2. owner[e] \in Users
    BY <2>1 DEF AllInv, SearchInv, NoneTainted, Users, Slots, NoEngine
  <2>3. stage[owner[e]] = "none"
    BY <2>2 DEF AllInv, SearchInv, OneAtWork, Generators, StackInv, InMethods
  <2>4. ~Tainted(e)
    BY DEF AllInv, SearchInv, NoneTainted, Tainted, Inv, QueryInv, JplTypeOK
  <2>5. frames[e] # <<>> /\ frames[e] \in Seq(Queries)
    BY <2>1, <2>2, <2>3, <2>4 DEF AllInv, StackInv, HasReason, Inv, QueryInv, JplTypeOK
  <2>6. 1 \in 1 .. Len(frames[e])
    BY <2>5
  <2> QED
    BY <2>6 DEF AllInv, Inv, QueryInv, Stacked, JplTypeOK
<1> QED
  BY <1>1, SearchInvariant, PTL

-----------------------------------------------------------------------------
(***************************************************************************)
(* The pool runs out.                                                      *)
(***************************************************************************)

\* A thread that waits has seen every engine in use, and nobody is at work that
\* could give one back.
NoneFree ==
    \A t \in Generators : \A e \in Slots :
        /\ pc[t] = "scan" /\ e < slot[t] /\ e \in created => InUse(e)
        /\ pc[t] = "wait" => InUse(e)

GeneratorsWait == waiting \subseteq Generators

LEMMA InPoolIsAtWork ==
    ASSUME AllInv, NEW t \in Generators, pc[t] \in {"lock", "scan", "wait"}
    PROVE  t \in AtWork /\ stage[t] = "opening"
  BY DEF AllInv, StackInv, InMethods, SearchInv, OneAtWork, AtWork, Generators

LEMMA PoolNoneFree ==
    ASSUME AllInv, NoneFree, NEW t \in Generators, InPool(t) \/ Wakeup(t)
    PROVE  NoneFree'
<1>1. t \in Threads /\ (PoolStep(t) \/ SpuriousWakeup(t))
  BY GeneratorsAreUsers DEF InPool, Wakeup
<1>2. \A e \in Slots : InUse(e) => InUse(e)'
  <2>1. \A e \in Slots : InUse(e) => owner'[e] = owner[e]
    BY <1>1, StepOfOthers DEF AllInv, Inv
  <2> QED
    BY <2>1 DEF InUse
<1>3. /\ pc \in [Threads -> Places] /\ slot \in [Threads -> 0 .. MaxEngines]
      /\ created \subseteq Slots /\ MaxEngines \in Nat \ {0}
      /\ \A w \in waiting : pc[w] = "wait" /\ w \in Threads
  BY MaxEnginesAssumption DEF AllInv, Inv, PoolInv, TypeOK, EmptyHanded
<1>4. \A u \in Generators \ {t} :
         pc[u] \in {"scan", "wait"} => pc[t] \notin {"lock", "scan", "wait"}
  BY InPoolIsAtWork DEF AllInv, SearchInv, OneAtWork
<1>5. CASE Lock(t)
  <2>1. /\ \A u \in Threads : pc'[u] = IF u = t THEN "scan" ELSE pc[u]
        /\ \A u \in Threads : slot'[u] = IF u = t THEN 0 ELSE slot[u]
        /\ created' = created
    BY <1>1, <1>3, <1>5 DEF Lock, Goto
  <2>2. \A e \in Slots : ~(e < 0)
    BY <1>3 DEF Slots
  <2> QED
    BY <1>2, <2>1, <2>2, GeneratorsAreUsers DEF NoneFree
<1>6. CASE SkipEngine(t)
  <2>1. /\ \A u \in Threads : pc'[u] = pc[u]
        /\ \A u \in Threads : slot'[u] = IF u = t THEN slot[t] + 1 ELSE slot[u]
        /\ created' = created /\ pc[t] = "scan"
        /\ slot[t] \in Slots /\ (slot[t] \notin created \/ InUse(slot[t]))
    BY <1>1, <1>3, <1>6 DEF SkipEngine, Goto
  <2>2. \A e \in Slots : e < slot[t] + 1 => e < slot[t] \/ e = slot[t]
    BY <1>1, <1>3, <2>1 DEF Slots
  <2> QED
    BY <1>2, <2>1, <2>2, GeneratorsAreUsers DEF NoneFree
<1>7. CASE TakeEngine(t) \/ CreateFails(t)
  <2>1. /\ \A u \in Threads : pc'[u] = IF u = t THEN "outside" ELSE pc[u]
        /\ created' = created /\ slot' = slot
    BY <1>1, <1>3, <1>7 DEF TakeEngine, CreateFails, Goto
  <2> QED
    BY <1>2, <2>1, GeneratorsAreUsers DEF NoneFree
<1>8. CASE CreateEngine(t)
  <2>1. /\ \A u \in Threads : pc'[u] = pc[u]
        /\ \A u \in Threads : slot'[u] = IF u = t THEN 0 ELSE slot[u]
        /\ pc[t] = "scan"
    BY <1>1, <1>3, <1>8 DEF CreateEngine, ScannedAll
  <2>2. \A e \in Slots : ~(e < 0)
    BY <1>3 DEF Slots
  <2> QED
    BY <1>2, <1>4, <2>1, <2>2, GeneratorsAreUsers DEF NoneFree
<1>9. CASE Wait(t)
  <2>1. /\ \A u \in Threads : pc'[u] = IF u = t THEN "wait" ELSE pc[u]
        /\ created' = created /\ slot' = slot
        /\ pc[t] = "scan" /\ slot[t] = MaxEngines /\ created = Slots
    BY <1>1, <1>3, <1>9 DEF Wait, ScannedAll
  <2>2. \A e \in Slots : e < MaxEngines
    BY <1>3 DEF Slots
  <2>3. \A e \in Slots : InUse(e)
    BY <2>1, <2>2 DEF NoneFree
  <2> QED
    BY <1>2, <2>3 DEF NoneFree
<1>10. CASE Signal(t) \/ SpuriousWakeup(t)
  <2>1. \A u \in Threads : pc'[u] \in {"scan", "wait"} => pc'[u] = pc[u]
    <3>1. CASE SpuriousWakeup(t)
      BY <1>1, <1>3, <3>1 DEF SpuriousWakeup, Goto
    <3>2. CASE Signal(t)
      <4>1. ASSUME NEW w \in waiting, pc' = [pc EXCEPT ![t] = "outside", ![w] = "lock"]
            PROVE  \A u \in Threads : pc'[u] \in {pc[u], "outside", "lock"}
        BY <1>1, <1>3, <4>1
      <4> QED
        BY <1>1, <1>3, <3>2, <4>1 DEF Signal
    <3> QED
      BY <1>10, <3>1, <3>2
  <2>2. created' = created /\ slot' = slot
    BY <1>10 DEF Signal, SpuriousWakeup
  <2> QED
    BY <1>2, <2>1, <2>2, GeneratorsAreUsers DEF NoneFree
<1> QED
  BY <1>1, <1>5, <1>6, <1>7, <1>8, <1>9, <1>10 DEF PoolStep

\* The only step that gives an engine back is one of a thread at work, which nobody
\* waits beside.
LEMMA ReleaseNoneFree ==
    ASSUME AllInv, NEW t \in Generators, NEW q \in Queries, Release(t, q)
    PROVE  NoneFree'
<1>1. stage[t] = "releasing" /\ t \in Users /\ t \in Threads
  BY GeneratorsAreUsers DEF Release, At, Generators
<1>2. t \in AtWork
  BY <1>1 DEF AllInv, StackInv, InMethods, SearchInv, OneAtWork, AtWork, Generators
<1>3. \A u \in Generators : pc[u] \notin {"scan", "wait"}
  BY <1>1, <1>2, InPoolIsAtWork DEF AllInv, SearchInv, OneAtWork
<1>4. \A u \in Generators : pc'[u] \in {pc[u], "signal"}
  BY <1>1, GeneratorsAreUsers DEF Release, ReleasePoolEngine, Goto, poolVars, AllInv, Inv, PoolInv, TypeOK
<1> QED
  BY <1>3, <1>4 DEF NoneFree

LEMMA NoneFreeStep == AllInv /\ NoneFree /\ [SearchNext]_allVars => NoneFree'
<1> SUFFICES ASSUME AllInv, NoneFree, [SearchNext]_allVars PROVE NoneFree'
  OBVIOUS
<1>1. ASSUME UNCHANGED <<created, owner, slot>>,
             \A u \in Generators : pc'[u] \in {"scan", "wait"} => pc'[u] = pc[u]
      PROVE  NoneFree'
  BY <1>1 DEF NoneFree, InUse
<1>2. ASSUME UNCHANGED poolVars PROVE NoneFree'
  BY <1>1, <1>2 DEF poolVars
<1>3. ASSUME UNCHANGED vars PROVE NoneFree'
  BY <1>2, <1>3 DEF vars
<1>4. CASE UNCHANGED allVars
  BY <1>3, <1>4 DEF allVars
<1>5. ASSUME NEW q \in Queries, StartGenerator(q) PROVE NoneFree'
  BY <1>3, <1>5 DEF StartGenerator
<1>6. ASSUME NEW t \in Generators, GeneratorStep(t) \/ Wakeup(t) PROVE NoneFree'
  <2>1. CASE OpenQuery(t) \/ Finish(t)
    <3>1. /\ UNCHANGED <<created, owner, slot>> /\ t \in Threads
          /\ \A u \in Threads : pc'[u] \in {pc[u], "lock", "ended"}
      BY <2>1, GeneratorsAreUsers DEF OpenQuery, Open, AttachPoolEngine, Goto, Finish, End, EndThread,
         poolVars, AllInv, Inv, PoolInv, TypeOK
    <3> QED
      BY <1>1, <3>1, GeneratorsAreUsers
  <2>2. CASE Exhaust(t) \/ Fill(t) \/ TakeOver(t) \/ Closed(t) \/ Uncaught(t)
    <3>1. UNCHANGED poolVars
      BY <2>2 DEF Exhaust, Close, Fill, TakeOver, Abort, Closed, Uncaught, Killed, vars
    <3> QED
      BY <1>2, <3>1
  <2>3. CASE Inside(t)
    <3>1. ASSUME NEW q \in Queries,
                 OpenSucceeds(t, q) \/ OpenWithoutEngine(t, q) \/ CloseReturns(t, q)
          PROVE  NoneFree'
      BY <1>2, <3>1 DEF OpenSucceeds, OpenWithoutEngine, CloseReturns
    <3> QED
      BY <2>3, <3>1, ReleaseNoneFree DEF Inside
  <2> QED
    BY <1>6, <2>1, <2>2, <2>3, PoolNoneFree DEF GeneratorStep
<1>7. ASSUME NEW a \in Aborters, AborterStep(a) PROVE NoneFree'
  BY <1>2, <1>7, AborterInv
<1> QED
  BY <1>4, <1>5, <1>6, <1>7 DEF SearchNext

LEMMA GeneratorsWaitStep == AllInv /\ GeneratorsWait /\ [SearchNext]_allVars => GeneratorsWait'
<1> SUFFICES ASSUME AllInv, GeneratorsWait, [SearchNext]_allVars PROVE GeneratorsWait'
  OBVIOUS
<1>1. ASSUME NEW t \in Generators, GeneratorStep(t) \/ Wakeup(t) PROVE waiting' \subseteq waiting \cup {t}
  <2>1. CASE OpenQuery(t) \/ Finish(t) \/ Exhaust(t) \/ Fill(t) \/ TakeOver(t) \/ Closed(t) \/ Uncaught(t)
    BY <2>1 DEF OpenQuery, Open, AttachPoolEngine, Finish, End, EndThread, Exhaust, Close, Fill,
       TakeOver, Abort, Closed, Uncaught, Killed, vars, poolVars
  <2>2. CASE Inside(t)
    BY <2>2 DEF Inside, OpenSucceeds, OpenWithoutEngine, CloseReturns, Release, ReleasePoolEngine,
       poolVars
  <2>3. CASE InPool(t) \/ Wakeup(t)
    BY <2>3 DEF InPool, Wakeup, PoolStep, Lock, SkipEngine, TakeEngine, CreateEngine, CreateFails,
       Wait, SpuriousWakeup, Signal
  <2> QED
    BY <1>1, <2>1, <2>2, <2>3 DEF GeneratorStep
<1>2. ASSUME NEW a \in Aborters, AborterStep(a) PROVE waiting' = waiting
  BY <1>2, AborterInv DEF poolVars
<1>3. (\E q \in Queries : StartGenerator(q)) \/ UNCHANGED allVars => waiting' = waiting
  BY DEF StartGenerator, allVars, vars, poolVars
<1> QED
  BY <1>1, <1>2, <1>3 DEF SearchNext, GeneratorsWait

\* However many searches and engines there are: a search that waits for an engine
\* waits for threads that have ended.
THEOREM AlwaysWaitsForTheDead == SearchSpec => []WaitsForTheDead
<1>1. SearchInit => NoneFree /\ GeneratorsWait
  BY GeneratorsAreUsers DEF SearchInit, JplInit, Init, NoneFree, GeneratorsWait
<1>2. AllInv /\ NoneFree /\ GeneratorsWait => WaitsForTheDead
  <2> SUFFICES ASSUME AllInv, NoneFree, GeneratorsWait, NEW t \in waiting, NEW e \in Slots
               PROVE  InUse(e) /\ phase[owner[e]] = "ended"
    BY DEF WaitsForTheDead
  <2>1. pc[t] = "wait" /\ t \in Generators /\ t \in Threads
    BY GeneratorsAreUsers DEF GeneratorsWait, AllInv, Inv, PoolInv, EmptyHanded
  <2>2. InUse(e) /\ t \in AtWork /\ attached[t] = NoEngine
    BY <2>1, InPoolIsAtWork DEF NoneFree, AllInv, Inv, PoolInv, EmptyHanded
  <2>3. owner[e] \in Threads /\ attached[owner[e]] = e /\ e # NoEngine
    BY <2>2 DEF AllInv, Inv, PoolInv, TypeOK, ExclusiveEngine, InUse, Slots, NoEngine
  <2>4. owner[e] \in Generators /\ owner[e] # t
    BY <2>2, <2>3 DEF AllInv, SearchInv, NoneTainted, Users, Generators
  <2>5. phase[owner[e]] # "new"
    BY <2>2, <2>3, <2>4, GeneratorsAreUsers DEF AllInv, SearchInv, OneAtWork, AtWork
  <2> QED
    BY <2>2, <2>4, <2>5 DEF AllInv, SearchInv, OneAtWork, AtWork
<1> QED
  BY <1>1, <1>2, NoneFreeStep, GeneratorsWaitStep, SearchInvariant, PTL DEF SearchSpec
=============================================================================
