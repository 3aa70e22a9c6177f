--------------------------- MODULE JplQuery_proofs ---------------------------
(***************************************************************************)
(* Theorems about the pool of engines and about queries on its engines,    *)
(* for any threads, any queries, whether or not their goals are bad, any   *)
(* number of engines, and engines that may or may not fail to be created.  *)
(***************************************************************************)
EXTENDS JplQuery, TLAPS

(***************************************************************************)
(* The pool, without queries.                                              *)
(***************************************************************************)

\* A thread in one of the pool's functions holds no engine: those that look for
\* one have none yet, the one about to signal has just given its own back.
EmptyHanded ==
    /\ \A t \in Threads : pc[t] \notin {"outside", "ended"} => attached[t] = NoEngine
    /\ \A t \in waiting : pc[t] = "wait"

PoolInv == TypeOK /\ ExclusiveEngine /\ FirstEngineKept /\ EmptyHanded

\* What an engine being attached or detached does to both views of it.
LEMMA SetEngineExclusive ==
    ASSUME PoolInv, NEW t \in Threads, NEW e \in created,
           attached[t] = NoEngine, ~InUse(e), SetEngine(t, e), created' = created
    PROVE  /\ owner' \in [Slots -> Threads \cup {NoThread}]
           /\ attached' \in [Threads -> Slots \cup {NoEngine}]
           /\ ExclusiveEngine' /\ FirstEngineKept'
           /\ \A u \in Threads \ {t} : attached'[u] = attached[u]
<1> USE ThreadsAssumption, MaxEnginesAssumption DEF Slots, NoEngine
<1>1. created \subseteq Slots /\ e \in Slots /\ 0 \in Slots /\ e # 0 /\ owner[e] = NoThread
  BY DEF PoolInv, TypeOK, FirstEngineKept, InUse
<1>2. /\ owner'[e] = t /\ \A x \in Slots \ {e} : owner'[x] = owner[x]
      /\ attached'[t] = e /\ \A u \in Threads \ {t} : attached'[u] = attached[u]
  BY <1>1 DEF PoolInv, TypeOK, SetEngine
<1>3. ExclusiveEngine'
  BY <1>1, <1>2 DEF PoolInv, TypeOK, ExclusiveEngine
<1> QED
  BY <1>1, <1>2, <1>3 DEF PoolInv, TypeOK, FirstEngineKept, SetEngine

LEMMA DetachExclusive ==
    ASSUME PoolInv, NEW t \in Threads, attached[t] > 0, Detach(t), created' = created
    PROVE  /\ owner' \in [Slots -> Threads \cup {NoThread}]
           /\ attached' \in [Threads -> Slots \cup {NoEngine}]
           /\ ExclusiveEngine' /\ FirstEngineKept'
           /\ attached'[t] = NoEngine
           /\ \A u \in Threads \ {t} : attached'[u] = attached[u]
<1> USE ThreadsAssumption, MaxEnginesAssumption DEF Slots, NoEngine
<1>1. attached[t] \in Slots /\ attached[t] # 0 /\ owner[attached[t]] = t
  BY DEF PoolInv, TypeOK, ExclusiveEngine
<1>2. /\ owner'[attached[t]] = NoThread
      /\ \A x \in Slots \ {attached[t]} : owner'[x] = owner[x]
      /\ attached'[t] = NoEngine /\ \A u \in Threads \ {t} : attached'[u] = attached[u]
  BY <1>1 DEF PoolInv, TypeOK, Detach
<1>3. ExclusiveEngine'
  BY <1>1, <1>2 DEF PoolInv, TypeOK, ExclusiveEngine
<1> QED
  BY <1>1, <1>2, <1>3 DEF PoolInv, TypeOK, FirstEngineKept, Detach

LEMMA PoolInvStep == PoolInv /\ [Next]_poolVars => PoolInv'
<1> SUFFICES ASSUME PoolInv, [Next]_poolVars PROVE PoolInv'
  OBVIOUS
<1> USE ThreadsAssumption, MaxEnginesAssumption
<1>1. CASE UNCHANGED poolVars
  BY <1>1 DEF PoolInv, TypeOK, ExclusiveEngine, FirstEngineKept, EmptyHanded, poolVars
<1>2. ASSUME NEW t \in Threads,
             AttachPoolEngine(t) \/ Lock(t) \/ SkipEngine(t) \/ CreateFails(t) \/ Wait(t)
             \/ SpuriousWakeup(t) \/ EndThread(t)
      PROVE PoolInv'
  <2>1. TypeOK'
    <3>1. CASE SkipEngine(t)
      <4>1. slot[t] + 1 \in 0 .. MaxEngines
        BY <3>1 DEF SkipEngine, Slots
      <4> QED
        BY <3>1, <4>1 DEF PoolInv, TypeOK, SkipEngine, Goto, Places
    <3>2. CASE AttachPoolEngine(t) \/ Lock(t)
      BY <3>2 DEF PoolInv, TypeOK, AttachPoolEngine, Lock, Goto, Places
    <3>3. CASE CreateFails(t) \/ Wait(t) \/ SpuriousWakeup(t) \/ EndThread(t)
      BY <3>3 DEF PoolInv, TypeOK, CreateFails, Wait, SpuriousWakeup, EndThread, Goto, Places
    <3> QED
      BY <1>2, <3>1, <3>2, <3>3
  <2>2. ExclusiveEngine' /\ FirstEngineKept'
    BY <1>2 DEF PoolInv, ExclusiveEngine, FirstEngineKept, AttachPoolEngine, Lock, SkipEngine,
       CreateFails, Wait, SpuriousWakeup, EndThread
  <2>3. EmptyHanded'
    BY <1>2 DEF PoolInv, TypeOK, EmptyHanded, AttachPoolEngine, Lock, SkipEngine, CreateFails,
       Wait, SpuriousWakeup, EndThread, ScannedAll, Goto
  <2> QED
    BY <2>1, <2>2, <2>3 DEF PoolInv
<1>3. ASSUME NEW t \in Threads, CreateEngine(t) PROVE PoolInv'
  BY <1>3 DEF PoolInv, TypeOK, ExclusiveEngine, FirstEngineKept, EmptyHanded, CreateEngine, Slots
<1>4. ASSUME NEW t \in Threads, TakeEngine(t) PROVE PoolInv'
  <2>1. attached[t] = NoEngine
    BY <1>4 DEF PoolInv, EmptyHanded, TakeEngine, Goto
  <2>2. /\ owner' \in [Slots -> Threads \cup {NoThread}]
        /\ attached' \in [Threads -> Slots \cup {NoEngine}]
        /\ ExclusiveEngine' /\ FirstEngineKept'
        /\ \A u \in Threads \ {t} : attached'[u] = attached[u]
    BY <1>4, <2>1, SetEngineExclusive DEF TakeEngine
  <2>3. TypeOK' /\ EmptyHanded'
    BY <1>4, <2>2 DEF PoolInv, TypeOK, EmptyHanded, TakeEngine, Goto, Places
  <2> QED
    BY <2>2, <2>3 DEF PoolInv
<1>5. ASSUME NEW t \in Threads, NEW e \in Slots, AttachEngine(t, e) PROVE PoolInv'
  <2>1. /\ owner' \in [Slots -> Threads \cup {NoThread}]
        /\ attached' \in [Threads -> Slots \cup {NoEngine}]
        /\ ExclusiveEngine' /\ FirstEngineKept'
        /\ \A u \in Threads \ {t} : attached'[u] = attached[u]
    BY <1>5, SetEngineExclusive DEF AttachEngine
  <2>2. TypeOK' /\ EmptyHanded'
    BY <1>5, <2>1 DEF PoolInv, TypeOK, EmptyHanded, AttachEngine
  <2> QED
    BY <2>1, <2>2 DEF PoolInv
<1>6. ASSUME NEW t \in Threads, ReleasePoolEngine(t) PROVE PoolInv'
  <2>1. /\ owner' \in [Slots -> Threads \cup {NoThread}]
        /\ attached' \in [Threads -> Slots \cup {NoEngine}]
        /\ ExclusiveEngine' /\ FirstEngineKept'
        /\ attached'[t] = NoEngine
        /\ \A u \in Threads \ {t} : attached'[u] = attached[u]
    BY <1>6, DetachExclusive DEF ReleasePoolEngine
  <2>2. TypeOK' /\ EmptyHanded'
    BY <1>6, <2>1 DEF PoolInv, TypeOK, EmptyHanded, ReleasePoolEngine, Goto, Places
  <2> QED
    BY <2>1, <2>2 DEF PoolInv
<1>7. ASSUME NEW t \in Threads, Signal(t) PROVE PoolInv'
  <2>1. TypeOK' /\ ExclusiveEngine' /\ FirstEngineKept'
    BY <1>7 DEF PoolInv, TypeOK, ExclusiveEngine, FirstEngineKept, Signal, Places
  <2>2. \A w \in waiting : attached[w] = NoEngine
    BY DEF PoolInv, TypeOK, EmptyHanded
  <2> QED
    BY <1>7, <2>1, <2>2 DEF PoolInv, TypeOK, EmptyHanded, Signal
<1> QED
  BY <1>1, <1>2, <1>3, <1>4, <1>5, <1>6, <1>7 DEF Next, PoolStep

LEMMA InitPoolInv == Init => PoolInv
<1> SUFFICES ASSUME Init PROVE PoolInv
  OBVIOUS
<1> USE ThreadsAssumption, MaxEnginesAssumption DEF Slots, NoEngine
<1>1. 0 \in Slots /\ NoEngine \notin Slots
  OBVIOUS
<1>2. TypeOK
  BY <1>1 DEF Init, TypeOK, Places
<1>3. ExclusiveEngine /\ FirstEngineKept /\ EmptyHanded
  BY <1>1 DEF Init, ExclusiveEngine, FirstEngineKept, EmptyHanded
<1> QED
  BY <1>2, <1>3 DEF PoolInv

\* The variables of the pool stay within their types.
THEOREM PoolTypeCorrect == Spec => []TypeOK
<1>1. PoolInv => TypeOK
  BY DEF PoolInv
<1> QED
  BY <1>1, InitPoolInv, PoolInvStep, PTL DEF Spec

\* No engine is ever attached to two threads, and what a thread holds and what the
\* pool records agree, for any number of threads and engines.
THEOREM EnginesExclusive == Spec => []ExclusiveEngine
<1>1. PoolInv => ExclusiveEngine
  BY DEF PoolInv
<1> QED
  BY <1>1, InitPoolInv, PoolInvStep, PTL DEF Spec

\* The default engine never reaches another thread: the pool serves all others
\* with one engine less than it has slots.
THEOREM DefaultEngineKept == Spec => []FirstEngineKept
<1>1. PoolInv => FirstEngineKept
  BY DEF PoolInv
<1> QED
  BY <1>1, InitPoolInv, PoolInvStep, PTL DEF Spec

-----------------------------------------------------------------------------
(***************************************************************************)
(* The pool implements ResourcePool: a thread takes an engine in           *)
(* TakeEngine and AttachEngine, gives it back in ReleasePoolEngine, and    *)
(* all other steps leave every engine where it is.                         *)
(***************************************************************************)

LEMMA TakeIsTake ==
    ASSUME PoolInv, NEW t \in Threads, NEW e \in Slots,
           attached[t] = NoEngine, ~InUse(e), SetEngine(t, e)
    PROVE  Resource!Take(t, e)
<1>1. \A x \in Slots : owner[x] # t
  BY MaxEnginesAssumption DEF PoolInv, TypeOK, ExclusiveEngine, Slots, NoEngine
<1> QED
  BY <1>1 DEF InUse, SetEngine, Resource!Take

LEMMA PoolStepIsResourceStep ==
    PoolInv /\ [Next]_poolVars => [Resource!Next]_owner
<1> SUFFICES ASSUME PoolInv, [Next]_poolVars PROVE Resource!Next \/ owner' = owner
  OBVIOUS
<1>1. CASE UNCHANGED poolVars
  BY <1>1 DEF poolVars
<1>2. ASSUME NEW t \in Threads, TakeEngine(t) PROVE Resource!Next
  <2>1. attached[t] = NoEngine /\ slot[t] \in Slots
    BY <1>2 DEF PoolInv, TypeOK, EmptyHanded, TakeEngine, Goto
  <2>2. Resource!Take(t, slot[t])
    BY <1>2, <2>1, TakeIsTake DEF TakeEngine
  <2> QED
    BY <2>1, <2>2 DEF Resource!Next
<1>3. ASSUME NEW t \in Threads, NEW e \in Slots, AttachEngine(t, e) PROVE Resource!Next
  <2>1. Resource!Take(t, e)
    BY <1>3, TakeIsTake DEF AttachEngine
  <2> QED
    BY <2>1 DEF Resource!Next
<1>4. ASSUME NEW t \in Threads, ReleasePoolEngine(t) PROVE Resource!Next
  <2>1. attached[t] \in Slots /\ owner[attached[t]] = t
    BY <1>4 DEF PoolInv, TypeOK, ExclusiveEngine, ReleasePoolEngine, NoEngine
  <2>2. Resource!GiveBack(t, attached[t])
    BY <1>4, <2>1 DEF ReleasePoolEngine, Detach, Resource!GiveBack
  <2> QED
    BY <2>1, <2>2 DEF Resource!Next
<1>5. ASSUME NEW t \in Threads,
             \/ AttachPoolEngine(t) \/ Lock(t) \/ SkipEngine(t) \/ CreateEngine(t)
             \/ CreateFails(t) \/ Wait(t) \/ Signal(t) \/ SpuriousWakeup(t) \/ EndThread(t)
      PROVE owner' = owner
  BY <1>5 DEF AttachPoolEngine, Lock, SkipEngine, CreateEngine, CreateFails, Wait, Signal,
     SpuriousWakeup, EndThread
<1> QED
  BY <1>1, <1>2, <1>3, <1>4, <1>5 DEF Next, PoolStep

LEMMA InitIsResourceInit == Init => Resource!Init
<1> SUFFICES ASSUME Init PROVE Resource!Init
  OBVIOUS
<1>1. FirstThread \in Threads /\ 0 \in Slots
  BY ThreadsAssumption, MaxEnginesAssumption DEF Slots
<1>2. owner = [x \in Slots |-> IF x = 0 THEN FirstThread ELSE NoThread]
  BY DEF Init
<1> QED
  BY <1>1, <1>2 DEF Resource!Init

\* JPL's pool, with its scan that releases interleave with, implements the
\* abstract pool in which an engine is taken and given back in one step.
THEOREM PoolImplementsResource == Spec => PoolIsResourcePool
<1>1. Spec => []PoolInv
  BY InitPoolInv, PoolInvStep, PTL DEF Spec
<1> QED
  BY <1>1, InitIsResourceInit, PoolStepIsResourceStep, PTL
  DEF Spec, PoolIsResourcePool, Resource!Spec

-----------------------------------------------------------------------------
(***************************************************************************)
(* The strengthened invariant.                                             *)
(***************************************************************************)

\* At most one thread is in the methods of a query, and what it has found of the
\* query when it entered still holds.
Monitors ==
    /\ \A t, u \in Users : monitor[t] = monitor[u] /\ monitor[t] # NoQuery => t = u
    /\ \A t \in Users : stage[t] = "opening" => monitor[t] \notin open

\* The stack of an engine: each query once, each one open on this engine, and
\* each one but the lowest knowing that it is on top of something.
Stacked ==
    /\ \A q \in open : engine[q] \in Slots
    /\ \A e \in Slots : frames[e] # <<>> => topmost[e] # NoQuery
    /\ \A e \in Slots : \A i \in 1 .. Len(frames[e]) :
          /\ frames[e][i] \in open
          /\ engine[frames[e][i]] = e
          /\ i > 1 => subQuery[frames[e][i]] # NoQuery
          /\ \A j \in 1 .. Len(frames[e]) : frames[e][i] = frames[e][j] => i = j

\* A query that is being closed has left the stack, and the engine that is about
\* to be released is empty.
Closing ==
    \A t \in Users :
        /\ stage[t] \in {"releasing", "closing"} =>
              \A e \in Slots : \A i \in 1 .. Len(frames[e]) : frames[e][i] # monitor[t]
        /\ stage[t] = "releasing" =>
              /\ attached[t] \in Slots
              /\ frames[attached[t]] = <<>> /\ topmost[attached[t]] = NoQuery

QueryInv ==
    /\ JplTypeOK /\ Monitors /\ Stacked /\ Closing
    /\ FreeEngineIsClean /\ AbortComesTooLate

Inv == PoolInv /\ QueryInv

-----------------------------------------------------------------------------
(***************************************************************************)
(* Queries use the pool as the pool is meant to be used.                   *)
(***************************************************************************)

LEMMA UsersAreThreads == Users \subseteq Threads /\ Users \cap Aborters = {}
  BY DEF Users

LEMMA JplStepIsPoolStep == PoolInv /\ [JplNext]_vars => [Next]_poolVars
<1> SUFFICES ASSUME PoolInv, [JplNext]_vars PROVE Next \/ UNCHANGED poolVars
  OBVIOUS
<1>1. CASE UNCHANGED vars
  BY <1>1 DEF vars
<1>2. ASSUME NEW t \in Users, NEW q \in Queries, UserStep(t, q) PROVE Next \/ UNCHANGED poolVars
  <2>1. t \in Threads
    BY UsersAreThreads
  <2>2. AttachPoolEngine(t) \/ ReleasePoolEngine(t) \/ UNCHANGED poolVars
    BY <1>2 DEF UserStep, Open, OpenSucceeds, OpenThrows, OpenWithoutEngine, Close, Release,
       CloseReturns
  <2> QED
    BY <2>1, <2>2 DEF Next
<1>3. ASSUME NEW a \in Aborters, AbortAttaches(a) PROVE Next
  <2>1. a \in Threads /\ engine[target[a]] \in Slots /\ AttachEngine(a, engine[target[a]])
    BY <1>3, ThreadsAssumption DEF PoolInv, TypeOK, AbortAttaches, AttachEngine
  <2> QED
    BY <2>1 DEF Next
<1>4. ASSUME NEW a \in Aborters, AbortCrashes(a) \/ \E q \in Queries : Abort(a, q)
      PROVE UNCHANGED poolVars
  BY <1>4 DEF AbortCrashes, Abort
<1>6. Killed => UNCHANGED poolVars
  BY DEF Killed
<1>5. ASSUME NEW t \in Threads, PoolOnly(t) \/ End(t) PROVE Next
  BY <1>5 DEF Next, PoolOnly, End
<1> QED
  BY <1>1, <1>2, <1>3, <1>4, <1>5, <1>6 DEF JplNext

\* What a thread may do to the engines of the pool while it is with its queries:
\* others take only engines that are free, and lose none that they have.
LEMMA StepOfOthers ==
    ASSUME PoolInv, NEW t \in Threads,
           PoolStep(t) \/ SpuriousWakeup(t) \/ EndThread(t) \/ AttachPoolEngine(t)
    PROVE  /\ \A e \in Slots : InUse(e) => owner'[e] = owner[e]
           /\ \A u \in Threads : attached'[u] # attached[u] =>
                 /\ attached[u] = NoEngine
                 /\ attached'[u] \in Slots /\ ~InUse(attached'[u])
<1>1. CASE TakeEngine(t)
  <2>1. attached[t] = NoEngine /\ slot[t] \in Slots /\ ~InUse(slot[t])
    BY <1>1 DEF PoolInv, TypeOK, EmptyHanded, TakeEngine, Goto
  <2>2. /\ \A e \in Slots \ {slot[t]} : owner'[e] = owner[e]
        /\ \A u \in Threads : attached'[u] = IF u = t THEN slot[t] ELSE attached[u]
    BY <1>1, <2>1 DEF PoolInv, TypeOK, TakeEngine, SetEngine
  <2> QED
    BY <2>1, <2>2
<1>2. CASE Lock(t) \/ SkipEngine(t) \/ CreateEngine(t) \/ CreateFails(t) \/ Wait(t)
           \/ Signal(t) \/ SpuriousWakeup(t) \/ EndThread(t) \/ AttachPoolEngine(t)
  BY <1>2 DEF Lock, SkipEngine, CreateEngine, CreateFails, Wait, Signal, SpuriousWakeup,
     EndThread, AttachPoolEngine
<1> QED
  BY <1>1, <1>2 DEF PoolStep

-----------------------------------------------------------------------------
(***************************************************************************)
(* The invariant, step by step.                                            *)
(***************************************************************************)

LEMMA InitInv == JplInit => Inv
<1> SUFFICES ASSUME JplInit PROVE Inv
  OBVIOUS
<1>1. PoolInv
  BY InitPoolInv DEF JplInit
<1>2. JplTypeOK
  <2>1. <<>> \in Seq(Queries)
    OBVIOUS
  <2>2. frames \in [Slots -> Seq(Queries)]
    BY <2>1 DEF JplInit
  <2> QED
    BY <1>1, <2>2 DEF PoolInv, JplTypeOK, JplInit
<1>3. Monitors /\ Stacked /\ Closing /\ FreeEngineIsClean
  BY DEF JplInit, Monitors, Stacked, Closing, FreeEngineIsClean
<1>4. AbortComesTooLate
  BY <1>1, ThreadsAssumption DEF PoolInv, TypeOK, JplInit, Init, AbortComesTooLate
<1> QED
  BY <1>1, <1>2, <1>3, <1>4 DEF Inv, QueryInv

\* The steps that leave the queries alone.
LEMMA PoolOnlyInv ==
    ASSUME Inv, PoolInv', NEW t \in Threads, PoolOnly(t) \/ End(t)
    PROVE  QueryInv'
<1>1. UNCHANGED queryVars
  BY DEF PoolOnly, End
<1>2. /\ \A e \in Slots : InUse(e) => owner'[e] = owner[e]
      /\ \A u \in Threads : attached'[u] # attached[u] =>
            /\ attached[u] = NoEngine
            /\ attached'[u] \in Slots /\ ~InUse(attached'[u])
  BY StepOfOthers DEF Inv, PoolOnly, End
<1>3. JplTypeOK'
  BY <1>1 DEF Inv, QueryInv, JplTypeOK, queryVars, PoolInv
<1>4. Monitors' /\ Stacked'
  BY <1>1 DEF Inv, QueryInv, Monitors, Stacked, queryVars
<1>5. Closing'
  BY <1>1, <1>2, UsersAreThreads DEF Inv, QueryInv, Closing, queryVars, Slots, NoEngine
<1>6. FreeEngineIsClean'
  BY <1>1, <1>2 DEF Inv, QueryInv, FreeEngineIsClean, InUse, queryVars
<1>7. AbortComesTooLate'
  BY <1>1, <1>2, ThreadsAssumption DEF Inv, QueryInv, AbortComesTooLate, FreeEngineIsClean, queryVars
<1> QED
  BY <1>3, <1>4, <1>5, <1>6, <1>7 DEF QueryInv

\* A thread enters open().
LEMMA OpenInv ==
    ASSUME Inv, PoolInv', NEW t \in Users, NEW q \in Queries, Open(t, q)
    PROVE  QueryInv'
<1>1. /\ UNCHANGED <<topmost, open, engine, subQuery, frames, target, crashed>>
      /\ q \notin open /\ stage[t] \in {"none", "opening", "releasing", "closing"}
      /\ monitor[t] = NoQuery /\ \A u \in Users : monitor[u] # q
  BY DEF Inv, QueryInv, JplTypeOK, Open, Enter, Outside
<1>2. /\ \A u \in Users : monitor'[u] = IF u = t THEN q ELSE monitor[u]
      /\ \A u \in Users : stage'[u] = IF u = t THEN "opening" ELSE stage[u]
  BY DEF Inv, QueryInv, JplTypeOK, Open, Enter
<1>3. owner' = owner /\ attached' = attached
  BY DEF Open, AttachPoolEngine, poolVars
<1>4. JplTypeOK'
  BY <1>1 DEF Inv, PoolInv, QueryInv, JplTypeOK, Open, Enter
<1>5. Monitors' /\ Stacked'
  BY <1>1, <1>2 DEF Inv, QueryInv, Monitors, Stacked
<1>6. Closing' /\ FreeEngineIsClean' /\ AbortComesTooLate'
  BY <1>1, <1>2, <1>3 DEF Inv, QueryInv, Closing, FreeEngineIsClean, AbortComesTooLate, InUse
<1> QED
  BY <1>4, <1>5, <1>6 DEF QueryInv

\* What the rest of open() and of close() do to who is in which method.
LEMMA ReturnMonitors ==
    ASSUME Inv, NEW t \in Users, Return(t)
    PROVE  /\ \A u \in Users : monitor'[u] = IF u = t THEN NoQuery ELSE monitor[u]
           /\ \A u \in Users : stage'[u] = IF u = t THEN "none" ELSE stage[u]
           /\ monitor' \in [Users -> Queries \cup {NoQuery}]
           /\ stage' \in [Users -> {"none", "opening", "releasing", "closing"}]
  BY DEF Inv, QueryInv, JplTypeOK, Return

\* The engine of a thread in a method of Query is its own.
LEMMA OwnEngine ==
    ASSUME Inv, NEW t \in Users, attached[t] # NoEngine
    PROVE  /\ attached[t] \in Slots /\ InUse(attached[t])
           /\ \A u \in Threads : attached[u] = attached[t] => u = t
<1>1. t \in Threads /\ attached[t] \in Slots
  BY UsersAreThreads DEF Inv, PoolInv, TypeOK
<1>2. owner[attached[t]] = t
  BY <1>1 DEF Inv, PoolInv, ExclusiveEngine
<1> QED
  BY <1>1, <1>2, ThreadsAssumption DEF Inv, PoolInv, ExclusiveEngine, InUse

\* A query is entered into `m', whether or not it is opened then.
LEMMA PushInv ==
    ASSUME Inv, NEW t \in Users, NEW q \in Queries, At(t, q, "opening"),
           attached[t] # NoEngine, Push(q, attached[t])
    PROVE  /\ q \notin open
           /\ \A x \in Queries : engine'[x] = IF x = q THEN attached[t] ELSE engine[x]
           /\ \A x \in Queries :
                 subQuery'[x] = IF x = q THEN topmost[attached[t]] ELSE subQuery[x]
           /\ \A e \in Slots : topmost'[e] = IF e = attached[t] THEN q ELSE topmost[e]
           /\ engine' \in [Queries -> Slots \cup {NoEngine}]
           /\ subQuery' \in [Queries -> Queries \cup {NoQuery}]
           /\ topmost' \in [Slots -> Queries \cup {NoQuery}]
<1>1. attached[t] \in Slots
  BY OwnEngine
<1>2. q \notin open
  BY DEF Inv, QueryInv, Monitors, At
<1> QED
  BY <1>1, <1>2 DEF Inv, QueryInv, JplTypeOK, Push

LEMMA OpenSucceedsInv ==
    ASSUME Inv, PoolInv', NEW t \in Users, NEW q \in Queries, OpenSucceeds(t, q)
    PROVE  QueryInv'
<1> DEFINE e0 == attached[t]
<1>1. /\ At(t, q, "opening") /\ e0 # NoEngine /\ Push(q, e0) /\ Return(t)
      /\ UNCHANGED <<poolVars, target, crashed>>
      /\ frames' = [frames EXCEPT ![e0] = Append(@, q)] /\ open' = open \cup {q}
  BY DEF OpenSucceeds
<1>2. /\ e0 \in Slots /\ InUse(e0) /\ \A u \in Threads : attached[u] = e0 => u = t
  BY <1>1, OwnEngine
<1>3. owner' = owner /\ attached' = attached
  BY <1>1 DEF poolVars
<1> HIDE DEF e0
<1>4. /\ \A u \in Users : monitor'[u] = IF u = t THEN NoQuery ELSE monitor[u]
      /\ \A u \in Users : stage'[u] = IF u = t THEN "none" ELSE stage[u]
      /\ monitor' \in [Users -> Queries \cup {NoQuery}]
      /\ stage' \in [Users -> {"none", "opening", "releasing", "closing"}]
  BY <1>1, ReturnMonitors
<1>5. /\ q \notin open
      /\ \A x \in Queries : engine'[x] = IF x = q THEN e0 ELSE engine[x]
      /\ \A x \in Queries : subQuery'[x] = IF x = q THEN topmost[e0] ELSE subQuery[x]
      /\ \A e \in Slots : topmost'[e] = IF e = e0 THEN q ELSE topmost[e]
      /\ engine' \in [Queries -> Slots \cup {NoEngine}]
      /\ subQuery' \in [Queries -> Queries \cup {NoQuery}]
      /\ topmost' \in [Slots -> Queries \cup {NoQuery}]
  BY <1>1, PushInv DEF e0
<1>6. /\ frames \in [Slots -> Seq(Queries)] /\ open \subseteq Queries
      /\ monitor[t] = q
  BY <1>1 DEF Inv, QueryInv, JplTypeOK, At
<1>7. /\ frames' \in [Slots -> Seq(Queries)]
      /\ \A e \in Slots \ {e0} : frames'[e] = frames[e]
      /\ Len(frames'[e0]) = Len(frames[e0]) + 1 /\ Len(frames[e0]) \in Nat
      /\ frames'[e0][Len(frames[e0]) + 1] = q
      /\ \A i \in 1 .. Len(frames[e0]) : frames'[e0][i] = frames[e0][i]
  BY <1>1, <1>2, <1>6
<1>8. JplTypeOK'
  BY <1>1, <1>4, <1>5, <1>6, <1>7 DEF Inv, PoolInv, QueryInv, JplTypeOK
<1>9. Monitors'
  BY <1>1, <1>4, <1>6, QueriesAssumption DEF Inv, QueryInv, Monitors
<1>10. Stacked'
  <2>1. \A x \in open' : engine'[x] \in Slots
    BY <1>1, <1>2, <1>5, <1>6 DEF Inv, QueryInv, Stacked
  <2>2. \A e \in Slots : frames'[e] # <<>> => topmost'[e] # NoQuery
    BY <1>5, <1>7, QueriesAssumption DEF Inv, QueryInv, Stacked
  <2>3. ASSUME NEW e \in Slots \ {e0}, NEW i \in 1 .. Len(frames'[e])
        PROVE  /\ frames'[e][i] \in open'
               /\ engine'[frames'[e][i]] = e
               /\ i > 1 => subQuery'[frames'[e][i]] # NoQuery
               /\ \A j \in 1 .. Len(frames'[e]) : frames'[e][i] = frames'[e][j] => i = j
    <3>1. frames'[e] = frames[e]
      BY <1>7
    <3>2. /\ frames[e][i] \in open /\ engine[frames[e][i]] = e
          /\ i > 1 => subQuery[frames[e][i]] # NoQuery
          /\ \A j \in 1 .. Len(frames[e]) : frames[e][i] = frames[e][j] => i = j
      BY <3>1 DEF Inv, QueryInv, Stacked
    <3>3. frames[e][i] # q /\ frames[e][i] \in Queries
      BY <1>5, <1>6, <3>2
    <3> QED
      BY <1>1, <1>5, <3>1, <3>2, <3>3
  <2>4. ASSUME NEW i \in 1 .. Len(frames[e0])
        PROVE  /\ frames[e0][i] \in open /\ frames[e0][i] # q
               /\ engine'[frames[e0][i]] = e0
               /\ i > 1 => subQuery'[frames[e0][i]] # NoQuery
               /\ \A j \in 1 .. Len(frames[e0]) : frames[e0][i] = frames[e0][j] => i = j
    <3>1. /\ frames[e0][i] \in open /\ engine[frames[e0][i]] = e0
          /\ i > 1 => subQuery[frames[e0][i]] # NoQuery
          /\ \A j \in 1 .. Len(frames[e0]) : frames[e0][i] = frames[e0][j] => i = j
      BY <1>2 DEF Inv, QueryInv, Stacked
    <3> QED
      BY <1>5, <1>6, <3>1
  <2>5. Len(frames[e0]) > 0 => subQuery'[q] # NoQuery
    BY <1>2, <1>5, <1>6 DEF Inv, QueryInv, Stacked
  <2>6. ASSUME NEW i \in 1 .. Len(frames'[e0])
        PROVE  /\ frames'[e0][i] \in open'
               /\ engine'[frames'[e0][i]] = e0
               /\ i > 1 => subQuery'[frames'[e0][i]] # NoQuery
               /\ \A j \in 1 .. Len(frames'[e0]) : frames'[e0][i] = frames'[e0][j] => i = j
    <3> DEFINE n == Len(frames[e0])
    <3>1. n \in Nat /\ Len(frames'[e0]) = n + 1 /\ frames'[e0][n + 1] = q
      BY <1>7
    <3>2. \A j \in 1 .. n : frames'[e0][j] = frames[e0][j] /\ frames[e0][j] # q
      BY <1>7, <2>4
    <3> HIDE DEF n
    <3>3. \A j \in 1 .. Len(frames'[e0]) : j \in 1 .. n \/ j = n + 1
      BY <3>1
    <3>4. CASE i \in 1 .. n
      <4>1. /\ frames[e0][i] \in open /\ engine'[frames[e0][i]] = e0
            /\ i > 1 => subQuery'[frames[e0][i]] # NoQuery
            /\ \A j \in 1 .. n : frames[e0][i] = frames[e0][j] => i = j
        BY <2>4, <3>4 DEF n
      <4> QED
        BY <1>1, <3>1, <3>2, <3>3, <3>4, <4>1
    <3>5. CASE i = n + 1
      <4>1. i > 1 => subQuery'[q] # NoQuery
        BY <2>5, <3>1, <3>5 DEF n
      <4>2. engine'[q] = e0
        BY <1>5
      <4> QED
        BY <1>1, <3>1, <3>2, <3>3, <3>5, <4>1, <4>2
    <3> QED
      BY <3>3, <3>4, <3>5
  <2> QED
    BY <2>1, <2>2, <2>3, <2>6 DEF Stacked
<1>11. Closing'
  <2>1. ASSUME NEW u \in Users \ {t}, stage[u] \in {"releasing", "closing"}
        PROVE  monitor[u] # q /\ attached[u] # e0
    BY <1>2, <1>6, UsersAreThreads, QueriesAssumption DEF Inv, QueryInv, Monitors
  <2>2. ASSUME NEW u \in Users \ {t}, stage[u] \in {"releasing", "closing"},
               NEW e \in Slots, NEW i \in 1 .. Len(frames'[e])
        PROVE  frames'[e][i] # monitor[u]
    BY <1>2, <1>7, <2>1, <2>2 DEF Inv, QueryInv, Closing
  <2>3. ASSUME NEW u \in Users \ {t}, stage[u] = "releasing"
        PROVE  /\ attached'[u] \in Slots
               /\ frames'[attached'[u]] = <<>> /\ topmost'[attached'[u]] = NoQuery
    BY <1>3, <1>5, <1>7, <2>1, <2>3 DEF Inv, QueryInv, Closing
  <2> QED
    BY <1>4, <2>2, <2>3 DEF Closing
<1>12. FreeEngineIsClean' /\ AbortComesTooLate'
  <2>1. \A a \in Aborters : attached[a] # e0
    BY <1>2, UsersAreThreads, ThreadsAssumption
  <2>2. \A a \in Aborters : attached[a] # NoEngine => attached[a] \in Slots
    BY ThreadsAssumption DEF Inv, PoolInv, TypeOK
  <2>3. FreeEngineIsClean'
    BY <1>2, <1>3, <1>5, <1>7 DEF Inv, QueryInv, FreeEngineIsClean, InUse
  <2> QED
    BY <1>3, <1>7, <2>1, <2>2, <2>3 DEF Inv, QueryInv, AbortComesTooLate
<1> QED
  BY <1>8, <1>9, <1>10, <1>11, <1>12 DEF QueryInv

\* What open() has changed when it throws concerns a query that is not open.
LEMMA OpenFailsInv ==
    ASSUME Inv, PoolInv', NEW t \in Users, NEW q \in Queries,
           OpenThrows(t, q) \/ OpenWithoutEngine(t, q)
    PROVE  QueryInv'
<1>1. /\ At(t, q, "opening") /\ Return(t)
      /\ UNCHANGED <<poolVars, open, frames, target, crashed>>
  BY DEF OpenThrows, OpenWithoutEngine
<1>2. owner' = owner /\ attached' = attached
  BY <1>1 DEF poolVars
<1>3. /\ \A u \in Users : monitor'[u] = IF u = t THEN NoQuery ELSE monitor[u]
      /\ \A u \in Users : stage'[u] = IF u = t THEN "none" ELSE stage[u]
      /\ monitor' \in [Users -> Queries \cup {NoQuery}]
      /\ stage' \in [Users -> {"none", "opening", "releasing", "closing"}]
  BY <1>1, ReturnMonitors
<1>4. q \notin open
  BY <1>1 DEF Inv, QueryInv, Monitors, At
<1>5. /\ \A x \in Queries \ {q} : engine'[x] = engine[x] /\ subQuery'[x] = subQuery[x]
      /\ engine' \in [Queries -> Slots \cup {NoEngine}]
      /\ subQuery' \in [Queries -> Queries \cup {NoQuery}]
      /\ topmost' \in [Slots -> Queries \cup {NoQuery}]
      /\ \A e \in Slots :
            topmost'[e] = topmost[e] \/ (topmost'[e] # NoQuery /\ attached[t] = e)
  <2>1. CASE OpenThrows(t, q)
    <3>1. attached[t] # NoEngine /\ Push(q, attached[t])
      BY <2>1 DEF OpenThrows
    <3>2. /\ \A x \in Queries : engine'[x] = IF x = q THEN attached[t] ELSE engine[x]
          /\ \A x \in Queries :
                subQuery'[x] = IF x = q THEN topmost[attached[t]] ELSE subQuery[x]
          /\ \A e \in Slots : topmost'[e] = IF e = attached[t] THEN q ELSE topmost[e]
          /\ engine' \in [Queries -> Slots \cup {NoEngine}]
          /\ subQuery' \in [Queries -> Queries \cup {NoQuery}]
          /\ topmost' \in [Slots -> Queries \cup {NoQuery}]
      BY <1>1, <3>1, PushInv
    <3> QED
      BY <3>2, QueriesAssumption
  <2>2. CASE OpenWithoutEngine(t, q)
    BY <2>2 DEF OpenWithoutEngine, Inv, QueryInv, JplTypeOK
  <2> QED
    BY <2>1, <2>2
<1>6. JplTypeOK'
  BY <1>1, <1>3, <1>5 DEF Inv, PoolInv, QueryInv, JplTypeOK
<1>7. Monitors'
  BY <1>1, <1>3 DEF Inv, QueryInv, Monitors
<1>8. Stacked'
  <2>1. \A x \in open : x \in Queries \ {q}
    BY <1>4 DEF Inv, QueryInv, JplTypeOK
  <2>2. \A e \in Slots : \A i \in 1 .. Len(frames[e]) : frames[e][i] \in Queries \ {q}
    BY <2>1 DEF Inv, QueryInv, Stacked
  <2>3. \A e \in Slots : frames'[e] # <<>> => topmost'[e] # NoQuery
    BY <1>1, <1>5 DEF Inv, QueryInv, Stacked
  <2> QED
    BY <1>1, <1>5, <2>1, <2>2, <2>3 DEF Inv, QueryInv, Stacked
<1>9. \A e \in Slots : topmost'[e] = topmost[e] \/ InUse(e)
  BY <1>5, OwnEngine DEF Slots, NoEngine
<1>10. FreeEngineIsClean' /\ AbortComesTooLate'
  BY <1>1, <1>2, <1>9 DEF Inv, QueryInv, FreeEngineIsClean, AbortComesTooLate, InUse
<1>11. Closing'
  <2>1. ASSUME NEW u \in Users \ {t}, stage[u] = "releasing"
        PROVE  topmost'[attached[u]] = topmost[attached[u]]
    <3>1. attached[u] \in Slots
      BY <2>1 DEF Inv, QueryInv, Closing
    <3>2. attached[t] # attached[u]
      BY <3>1, OwnEngine, UsersAreThreads DEF Slots, NoEngine
    <3> QED
      BY <1>5, <3>1, <3>2
  <2> QED
    BY <1>1, <1>2, <1>3, <2>1 DEF Inv, QueryInv, Closing
<1> QED
  BY <1>6, <1>7, <1>8, <1>10, <1>11 DEF QueryInv

\* The queries that are left on an engine are the lower ones.
LEMMA DiscardKeepsLower ==
    ASSUME Inv, NEW q \in open, Discard(q, engine[q])
    PROVE  \E i \in 1 .. Len(frames[engine[q]]) :
              /\ engine[q] \in Slots
              /\ frames[engine[q]][i] = q
              /\ frames' \in [Slots -> Seq(Queries)]
              /\ \A e \in Slots \ {engine[q]} : frames'[e] = frames[e]
              /\ Len(frames'[engine[q]]) = i - 1
              /\ \A j \in 1 .. i - 1 : frames'[engine[q]][j] = frames[engine[q]][j]
<1> DEFINE s == frames[engine[q]]
<1>1. PICK i \in 1 .. Len(s) :
         s[i] = q /\ frames' = [frames EXCEPT ![engine[q]] = SubSeq(@, 1, i - 1)]
  BY DEF Discard
<1>2. engine[q] \in Slots /\ s \in Seq(Queries) /\ frames \in [Slots -> Seq(Queries)]
  BY DEF Inv, QueryInv, JplTypeOK, Stacked
<1>3. frames'[engine[q]] = SubSeq(s, 1, i - 1)
  BY <1>1, <1>2
<1> HIDE DEF s
<1>4. /\ SubSeq(s, 1, i - 1) \in Seq(Queries) /\ Len(SubSeq(s, 1, i - 1)) = i - 1
      /\ \A j \in 1 .. i - 1 : SubSeq(s, 1, i - 1)[j] = s[j]
  <2>1. i \in Nat /\ i - 1 \in 0 .. Len(s) /\ Len(s) \in Nat
    BY <1>1, <1>2
  <2> QED
    BY <1>2, <2>1
<1> QED
  BY <1>1, <1>2, <1>3, <1>4 DEF s

\* close() takes the query from its engine, and finds out whether it was the only
\* one there.
LEMMA CloseInv ==
    ASSUME Inv, PoolInv', NEW t \in Users, NEW q \in Queries, Close(t, q)
    PROVE  QueryInv'
<1> DEFINE e0 == engine[q]
           s == IF subQuery[q] = NoQuery THEN "releasing" ELSE "closing"
<1>1. /\ q \in open /\ e0 = attached[t] /\ topmost[e0] = q
      /\ Enter(t, q, s) /\ Discard(q, e0)
      /\ topmost' = [topmost EXCEPT ![e0] = subQuery[q]]
      /\ UNCHANGED <<poolVars, open, engine, subQuery, target, crashed>>
  BY DEF Close
<1>2. PICK n \in 1 .. Len(frames[e0]) :
         /\ e0 \in Slots /\ frames[e0][n] = q /\ frames' \in [Slots -> Seq(Queries)]
         /\ \A e \in Slots \ {e0} : frames'[e] = frames[e]
         /\ Len(frames'[e0]) = n - 1
         /\ \A j \in 1 .. n - 1 : frames'[e0][j] = frames[e0][j]
  BY <1>1, DiscardKeepsLower
<1>3. InUse(e0) /\ \A u \in Threads : attached[u] = e0 => u = t
  BY <1>1, <1>2, OwnEngine DEF Slots, NoEngine
<1>4. owner' = owner /\ attached' = attached
  BY <1>1 DEF poolVars
<1>5. s \in {"releasing", "closing"} /\ (s = "releasing" => subQuery[q] = NoQuery)
  OBVIOUS
<1> HIDE DEF e0, s
<1>6. /\ \A u \in Users : monitor'[u] = IF u = t THEN q ELSE monitor[u]
      /\ \A u \in Users : stage'[u] = IF u = t THEN s ELSE stage[u]
      /\ monitor' \in [Users -> Queries \cup {NoQuery}]
      /\ stage' \in [Users -> {"none", "opening", "releasing", "closing"}]
      /\ \A u \in Users : monitor[u] # q
  BY <1>1, <1>5 DEF Enter, Inv, QueryInv, JplTypeOK
<1>7. /\ \A e \in Slots : topmost'[e] = IF e = e0 THEN subQuery[q] ELSE topmost[e]
      /\ topmost' \in [Slots -> Queries \cup {NoQuery}]
  BY <1>1, <1>2 DEF Inv, QueryInv, JplTypeOK
<1>8. n \in Nat /\ \A j \in 1 .. n - 1 : j \in 1 .. Len(frames[e0]) /\ j # n
  <2>1. Len(frames[e0]) \in Nat
    BY <1>2 DEF Inv, QueryInv, JplTypeOK
  <2> QED
    BY <2>1
<1>9. \A e \in Slots : \A i \in 1 .. Len(frames'[e]) :
         i \in 1 .. Len(frames[e]) /\ frames'[e][i] = frames[e][i]
  BY <1>2, <1>8
<1>10. \A e \in Slots : \A i \in 1 .. Len(frames'[e]) : frames'[e][i] # q
  <2>1. ASSUME NEW e \in Slots, NEW i \in 1 .. Len(frames'[e]) PROVE frames'[e][i] # q
    <3>1. i \in 1 .. Len(frames[e]) /\ frames'[e][i] = frames[e][i] /\ engine[frames[e][i]] = e
      BY <1>9 DEF Inv, QueryInv, Stacked
    <3>2. CASE e = e0
      BY <1>2, <1>8, <3>1, <3>2 DEF Inv, QueryInv, Stacked
    <3>3. CASE e # e0
      BY <3>1, <3>3 DEF e0
    <3> QED
      BY <3>2, <3>3
  <2> QED
    BY <2>1
<1>11. subQuery[q] = NoQuery => n = 1 /\ frames'[e0] = <<>>
  <2>1. n > 1 => subQuery[q] # NoQuery
    BY <1>2 DEF Inv, QueryInv, Stacked
  <2>2. n = 1 => frames'[e0] = <<>>
    BY <1>2
  <2> QED
    BY <1>2, <1>8, <2>1, <2>2
<1>12. JplTypeOK'
  BY <1>1, <1>2, <1>6, <1>7 DEF Inv, PoolInv, QueryInv, JplTypeOK
<1>13. Monitors'
  BY <1>1, <1>5, <1>6 DEF Inv, QueryInv, Monitors
<1>14. Stacked'
  <2>1. \A e \in Slots : frames'[e] # <<>> => topmost'[e] # NoQuery
    BY <1>2, <1>7, <1>11 DEF Inv, QueryInv, Stacked
  <2> QED
    BY <1>1, <1>9, <2>1 DEF Inv, QueryInv, Stacked
<1>15. Closing'
  <2>1. ASSUME NEW u \in Users \ {t}, stage[u] = "releasing"
        PROVE  /\ attached'[u] \in Slots
               /\ frames'[attached'[u]] = <<>> /\ topmost'[attached'[u]] = NoQuery
    <3>1. attached[u] # e0
      BY <1>3, UsersAreThreads
    <3> QED
      BY <1>2, <1>4, <1>7, <2>1, <3>1 DEF Inv, QueryInv, Closing
  <2>2. ASSUME NEW u \in Users \ {t}, stage[u] \in {"releasing", "closing"},
               NEW e \in Slots, NEW i \in 1 .. Len(frames'[e])
        PROVE  frames'[e][i] # monitor[u]
    BY <1>9, <2>2 DEF Inv, QueryInv, Closing
  <2>3. s = "releasing" =>
            /\ attached'[t] \in Slots
            /\ frames'[attached'[t]] = <<>> /\ topmost'[attached'[t]] = NoQuery
    BY <1>1, <1>2, <1>4, <1>5, <1>7, <1>11
  <2> QED
    BY <1>6, <1>10, <2>1, <2>2, <2>3 DEF Closing
<1>16. FreeEngineIsClean'
  BY <1>2, <1>3, <1>4, <1>7 DEF Inv, QueryInv, FreeEngineIsClean, InUse
<1>17. AbortComesTooLate'
  <2>1. \A a \in Aborters : attached[a] # e0
    BY <1>3, UsersAreThreads, ThreadsAssumption
  <2>2. \A a \in Aborters : attached[a] # NoEngine => attached[a] \in Slots
    BY ThreadsAssumption DEF Inv, PoolInv, TypeOK
  <2> QED
    BY <1>2, <1>4, <2>1, <2>2 DEF Inv, QueryInv, AbortComesTooLate
<1> QED
  BY <1>12, <1>13, <1>14, <1>15, <1>16, <1>17 DEF QueryInv

\* The engine that is released has nothing left on it.
LEMMA ReleaseInv ==
    ASSUME Inv, PoolInv', NEW t \in Users, NEW q \in Queries, Release(t, q)
    PROVE  /\ QueryInv'
           /\ \A e \in Slots : frames[e] # <<>> => owner'[e] = owner[e]
<1>1. /\ At(t, q, "releasing") /\ stage' = [stage EXCEPT ![t] = "closing"]
      /\ UNCHANGED <<topmost, open, engine, subQuery, frames, monitor, target, crashed>>
      /\ ReleasePoolEngine(t) \/ UNCHANGED poolVars
  BY DEF Release
<1>2. /\ attached[t] \in Slots /\ t \in Threads
      /\ frames[attached[t]] = <<>> /\ topmost[attached[t]] = NoQuery
  BY <1>1, UsersAreThreads DEF Inv, QueryInv, Closing, At
<1>3. /\ \A e \in Slots : owner'[e] = owner[e] \/ e = attached[t]
      /\ \A u \in Threads \ {t} : attached'[u] = attached[u]
      /\ \A u \in Threads : attached'[u] \in {attached[u], NoEngine}
  <2>1. CASE ReleasePoolEngine(t)
    BY <2>1 DEF ReleasePoolEngine, Detach, Inv, PoolInv, TypeOK
  <2>2. CASE UNCHANGED poolVars
    BY <2>2 DEF poolVars
  <2> QED
    BY <1>1, <2>1, <2>2
<1>4. /\ \A u \in Users : stage'[u] = IF u = t THEN "closing" ELSE stage[u]
      /\ stage' \in [Users -> {"none", "opening", "releasing", "closing"}]
      /\ stage[t] = "releasing"
  BY <1>1 DEF Inv, QueryInv, JplTypeOK, At
<1>5. JplTypeOK'
  BY <1>1, <1>4 DEF Inv, PoolInv, QueryInv, JplTypeOK
<1>6. Monitors' /\ Stacked'
  BY <1>1, <1>4 DEF Inv, QueryInv, Monitors, Stacked
<1>7. Closing'
  BY <1>1, <1>3, <1>4, UsersAreThreads DEF Inv, QueryInv, Closing
<1>8. FreeEngineIsClean'
  BY <1>1, <1>2, <1>3 DEF Inv, QueryInv, FreeEngineIsClean, InUse
<1>9. AbortComesTooLate'
  BY <1>1, <1>3, ThreadsAssumption DEF Inv, QueryInv, AbortComesTooLate
<1> QED
  BY <1>2, <1>3, <1>5, <1>6, <1>7, <1>8, <1>9 DEF QueryInv

LEMMA CloseReturnsInv ==
    ASSUME Inv, PoolInv', NEW t \in Users, NEW q \in Queries, CloseReturns(t, q)
    PROVE  QueryInv'
<1>1. /\ At(t, q, "closing") /\ Return(t)
      /\ open' = open \ {q}
      /\ engine' = [engine EXCEPT ![q] = NoEngine]
      /\ subQuery' = [subQuery EXCEPT ![q] = NoQuery]
      /\ UNCHANGED <<poolVars, topmost, frames, target, crashed>>
  BY DEF CloseReturns
<1>2. owner' = owner /\ attached' = attached
  BY <1>1 DEF poolVars
<1>3. /\ \A u \in Users : monitor'[u] = IF u = t THEN NoQuery ELSE monitor[u]
      /\ \A u \in Users : stage'[u] = IF u = t THEN "none" ELSE stage[u]
      /\ monitor' \in [Users -> Queries \cup {NoQuery}]
      /\ stage' \in [Users -> {"none", "opening", "releasing", "closing"}]
  BY <1>1, ReturnMonitors
<1>4. \A e \in Slots : \A i \in 1 .. Len(frames[e]) : frames[e][i] # q
  BY <1>1 DEF Inv, QueryInv, Closing, At
<1>5. \A x \in Queries \ {q} : engine'[x] = engine[x] /\ subQuery'[x] = subQuery[x]
  BY <1>1 DEF Inv, QueryInv, JplTypeOK
<1>6. JplTypeOK'
  BY <1>1, <1>3 DEF Inv, PoolInv, QueryInv, JplTypeOK
<1>7. Monitors'
  BY <1>1, <1>3 DEF Inv, QueryInv, Monitors
<1>8. Stacked'
  <2>1. open \subseteq Queries
    BY DEF Inv, QueryInv, JplTypeOK
  <2>2. \A x \in open' : engine'[x] \in Slots
    BY <1>1, <1>5, <2>1 DEF Inv, QueryInv, Stacked
  <2>3. \A e \in Slots : \A i \in 1 .. Len(frames[e]) :
           frames[e][i] \in open' /\ frames[e][i] \in Queries \ {q}
    BY <1>1, <1>4, <2>1 DEF Inv, QueryInv, Stacked
  <2> QED
    BY <1>1, <1>5, <2>2, <2>3 DEF Inv, QueryInv, Stacked
<1>9. Closing' /\ FreeEngineIsClean' /\ AbortComesTooLate'
  BY <1>1, <1>2, <1>3 DEF Inv, QueryInv, Closing, FreeEngineIsClean, AbortComesTooLate, InUse
<1> QED
  BY <1>6, <1>7, <1>8, <1>9 DEF QueryInv

\* The thread of abort() may take an engine that is free, which then is clean.
LEMMA AbortInv ==
    ASSUME Inv, PoolInv', NEW a \in Aborters,
           AbortAttaches(a) \/ AbortCrashes(a) \/ \E q \in Queries : Abort(a, q)
    PROVE  /\ QueryInv'
           /\ \A e \in Slots : frames[e] # <<>> => owner'[e] = owner[e]
<1>1. CASE AbortAttaches(a)
  <2> DEFINE e0 == engine[target[a]]
  <2>1. /\ UNCHANGED queryVars /\ a \in Threads /\ a \notin Users
        /\ attached[a] = NoEngine
        /\ e0 \in Slots /\ ~InUse(e0) /\ SetEngine(a, e0)
    BY <1>1, ThreadsAssumption DEF AbortAttaches, AttachEngine, Users, Inv, PoolInv, TypeOK
  <2> HIDE DEF e0
  <2>2. /\ \A e \in Slots \ {e0} : owner'[e] = owner[e]
        /\ \A u \in Threads : attached'[u] = IF u = a THEN e0 ELSE attached[u]
    BY <2>1 DEF SetEngine, Inv, PoolInv, TypeOK
  <2>3. frames[e0] = <<>>
    BY <2>1 DEF Inv, QueryInv, FreeEngineIsClean
  <2>4. JplTypeOK' /\ Monitors' /\ Stacked'
    BY <2>1 DEF Inv, PoolInv, QueryInv, JplTypeOK, Monitors, Stacked, queryVars
  <2>5. Closing'
    BY <2>1, <2>2, UsersAreThreads DEF Inv, QueryInv, Closing, queryVars
  <2>6. FreeEngineIsClean'
    BY <2>1, <2>2 DEF Inv, QueryInv, FreeEngineIsClean, InUse, queryVars
  <2>7. AbortComesTooLate'
    BY <2>1, <2>2, <2>3, ThreadsAssumption DEF Inv, QueryInv, AbortComesTooLate, queryVars
  <2> QED
    BY <2>2, <2>3, <2>4, <2>5, <2>6, <2>7 DEF QueryInv
<1>2. CASE AbortCrashes(a) \/ \E q \in Queries : Abort(a, q)
  <2>1. /\ UNCHANGED <<poolVars, topmost, open, engine, subQuery, frames, monitor, stage>>
        /\ target' \in [Aborters -> Queries \cup {NoQuery}] /\ crashed' \in BOOLEAN
    BY <1>2 DEF AbortCrashes, Abort, Inv, QueryInv, JplTypeOK
  <2>2. owner' = owner /\ attached' = attached
    BY <2>1 DEF poolVars
  <2>3. JplTypeOK'
    BY <2>1 DEF Inv, PoolInv, QueryInv, JplTypeOK
  <2>4. Monitors' /\ Stacked' /\ Closing' /\ FreeEngineIsClean' /\ AbortComesTooLate'
    BY <2>1, <2>2 DEF Inv, QueryInv, Monitors, Stacked, Closing, FreeEngineIsClean,
       AbortComesTooLate, InUse
  <2> QED
    BY <2>2, <2>3, <2>4 DEF QueryInv
<1> QED
  BY <1>1, <1>2

-----------------------------------------------------------------------------
\* All steps together: the invariant, and that no engine leaves its thread while a
\* query is open on it.
LEMMA InvStep ==
    Inv /\ [JplNext]_vars => Inv' /\ (\A e \in Slots : frames[e] # <<>> => owner'[e] = owner[e])
<1> SUFFICES ASSUME Inv, [JplNext]_vars
             PROVE  Inv' /\ \A e \in Slots : frames[e] # <<>> => owner'[e] = owner[e]
  OBVIOUS
<1>1. PoolInv'
  BY JplStepIsPoolStep, PoolInvStep DEF Inv
<1>2. CASE Killed \/ UNCHANGED vars
  <2>1. /\ UNCHANGED <<poolVars, topmost, open, engine, subQuery, frames, monitor, stage, target>>
        /\ crashed' \in {TRUE, crashed}
    BY <1>2 DEF Killed, vars, queryVars
  <2>2. JplTypeOK'
    BY <1>1, <2>1 DEF Inv, PoolInv, QueryInv, JplTypeOK
  <2>3. /\ Monitors' /\ Stacked' /\ Closing' /\ FreeEngineIsClean' /\ AbortComesTooLate'
        /\ owner' = owner
    BY <2>1 DEF poolVars, Inv, QueryInv, Monitors, Stacked, Closing, FreeEngineIsClean,
       AbortComesTooLate, InUse
  <2> QED
    BY <1>1, <2>2, <2>3 DEF Inv, QueryInv
<1>3. ASSUME NEW t \in Users, NEW q \in Queries,
             \/ Open(t, q) \/ OpenSucceeds(t, q) \/ OpenThrows(t, q)
             \/ OpenWithoutEngine(t, q) \/ Close(t, q) \/ CloseReturns(t, q)
      PROVE  QueryInv' /\ owner' = owner
  <2>1. owner' = owner
    BY <1>3 DEF Open, AttachPoolEngine, OpenSucceeds, OpenThrows, OpenWithoutEngine, Close,
       CloseReturns, poolVars
  <2> QED
    BY <1>1, <1>3, <2>1, OpenInv, OpenSucceedsInv, OpenFailsInv, CloseInv, CloseReturnsInv
<1>4. ASSUME NEW t \in Users, NEW q \in Queries, UserStep(t, q)
      PROVE  QueryInv' /\ \A e \in Slots : frames[e] # <<>> => owner'[e] = owner[e]
  BY <1>1, <1>3, <1>4, ReleaseInv DEF UserStep
<1>5. ASSUME NEW t \in Threads, PoolOnly(t) \/ End(t)
      PROVE  QueryInv' /\ \A e \in Slots : frames[e] # <<>> => owner'[e] = owner[e]
  <2>1. \A e \in Slots : InUse(e) => owner'[e] = owner[e]
    BY <1>5, StepOfOthers DEF Inv, PoolOnly, End
  <2> QED
    BY <1>1, <1>5, <2>1, PoolOnlyInv DEF Inv, QueryInv, FreeEngineIsClean
<1> QED
  BY <1>1, <1>2, <1>4, <1>5, AbortInv DEF Inv, JplNext

LEMMA JplInvariant == JplSpec => []Inv
<1>1. Inv /\ [JplNext]_vars => Inv'
  BY InvStep
<1> QED
  BY <1>1, InitInv, PTL DEF JplSpec

\* All variables stay within their types.
THEOREM JplTypeCorrect == JplSpec => []JplTypeOK
<1>1. Inv => JplTypeOK
  BY DEF Inv, QueryInv
<1> QED
  BY <1>1, JplInvariant, PTL

\* However queries are opened, closed, aborted and left open by however many
\* threads, an engine that the pool can hand out has no query left on it.
THEOREM FreeEnginesClean == JplSpec => []FreeEngineIsClean
<1>1. Inv => FreeEngineIsClean
  BY DEF Inv, QueryInv
<1> QED
  BY <1>1, JplInvariant, PTL

\* No engine changes hands while a query is open on it.
THEOREM EnginesStay == JplSpec => EngineStaysWithQueries
<1>1. Inv /\ [JplNext]_vars =>
          [\A e \in Slots : frames[e] # <<>> => owner'[e] = owner[e]]_vars
  BY InvStep
<1> QED
  BY <1>1, JplInvariant, PTL DEF JplSpec, EngineStaysWithQueries

\* Query.abort() never reaches a query: if its thread gets an engine at all, no
\* query is left on it.
THEOREM AbortNeverReaches == JplSpec => []AbortComesTooLate
<1>1. Inv => AbortComesTooLate
  BY DEF Inv, QueryInv
<1> QED
  BY <1>1, JplInvariant, PTL

\* Queries use the pool as its own specification says, so that all that holds of
\* the pool holds of the pool under queries.
THEOREM QueriesUsePool == JplSpec => Spec
<1>1. JplInit => Init
  BY DEF JplInit
<1>2. Inv /\ [JplNext]_vars => [Next]_poolVars
  BY JplStepIsPoolStep DEF Inv
<1> QED
  BY <1>1, <1>2, JplInvariant, PTL DEF JplSpec, Spec

-----------------------------------------------------------------------------
(***************************************************************************)
(* Java's stack of queries and Prolog's.                                   *)
(***************************************************************************)

\* How far a thread has come determines what is true of the query it is with.
\* The one that leaves a lower query on the engine keeps the engine, and `m' names
\* the lower one until another is opened.
InMethods ==
    /\ open \cap BadGoals = {}
    /\ \A t \in Users :
          /\ monitor[t] = NoQuery <=> stage[t] = "none"
          /\ stage[t] \in {"releasing", "closing"} => monitor[t] \in open
          /\ stage[t] = "releasing" => subQuery[monitor[t]] = NoQuery
          /\ pc[t] \in {"lock", "scan", "wait"} => stage[t] = "opening"
          /\ stage[t] = "closing" => \A e \in Slots :
                engine[monitor[t]] = e /\ subQuery[monitor[t]] # NoQuery =>
                    attached[t] = e /\ topmost[e] = subQuery[monitor[t]]

\* Java and Prolog have the same stack on engine `e'.
Agrees(e) ==
    /\ topmost[e] = IF Len(frames[e]) = 0 THEN NoQuery ELSE frames[e][Len(frames[e])]
    /\ \A i \in 1 .. Len(frames[e]) :
          subQuery[frames[e][i]] = IF i = 1 THEN NoQuery ELSE frames[e][i - 1]
    /\ \A q \in open : engine[q] = e =>
          \/ \E i \in 1 .. Len(frames[e]) : frames[e][i] = q
          \/ \E t \in Users : monitor[t] = q

\* A thread that is not about to open a query, nor to give its engine back, has it
\* for a query.
HasReason ==
    \A t \in Users, e \in Slots :
        stage[t] \in {"none", "closing"} /\ attached[t] = e /\ e # 0 =>
            Tainted(e) \/ frames[e] # <<>>

StackInv == InMethods /\ HasReason /\ \A e \in Slots : Tainted(e) \/ Agrees(e)

LEMMA InitStackInv == JplInit => StackInv
<1> SUFFICES ASSUME JplInit PROVE StackInv
  OBVIOUS
<1>1. InMethods
  BY UsersAreThreads DEF InMethods, JplInit, Init
<1>2. HasReason
  BY UsersAreThreads DEF HasReason, JplInit, Init, NoEngine, Slots
<1>3. \A e \in Slots : Agrees(e)
  BY DEF Agrees, JplInit
<1> QED
  BY <1>1, <1>2, <1>3 DEF StackInv

\* The steps that leave the queries alone: no thread that takes an engine is out of
\* Query.open(), so none takes one without reason.
LEMMA PoolOnlyStackInv ==
    ASSUME Inv, StackInv, NEW t \in Threads, PoolOnly(t) \/ End(t)
    PROVE  StackInv'
<1>1. UNCHANGED queryVars
  BY DEF PoolOnly, End
<1>2. \A u \in Users : pc'[u] \in {"lock", "scan", "wait"} => pc[u] \in {"lock", "scan", "wait"}
  <2>1. pc \in [Threads -> Places] /\ \A w \in waiting : pc[w] = "wait"
    BY DEF Inv, PoolInv, TypeOK, EmptyHanded
  <2>2. CASE Lock(t) \/ SkipEngine(t) \/ TakeEngine(t) \/ CreateEngine(t) \/ CreateFails(t)
             \/ Wait(t) \/ SpuriousWakeup(t) \/ EndThread(t)
    BY <2>1, <2>2, UsersAreThreads DEF Lock, SkipEngine, TakeEngine, CreateEngine, CreateFails, Wait,
       SpuriousWakeup, EndThread, Goto, ScannedAll
  <2>3. CASE Signal(t)
    <3>1. ASSUME NEW w \in waiting, pc' = [pc EXCEPT ![t] = "outside", ![w] = "lock"]
          PROVE  \A u \in Threads : pc'[u] \in {pc[u], "outside"} \/ pc[u] = "wait"
      BY <2>1, <3>1
    <3>2. \A u \in Threads : pc'[u] \in {"lock", "scan", "wait"} => pc[u] \in {"lock", "scan", "wait"}
      BY <2>1, <2>3, <3>1 DEF Signal
    <3> QED
      BY <3>2, UsersAreThreads
  <2> QED
    BY <2>2, <2>3 DEF PoolOnly, PoolStep, End
<1>3. \A u \in Users : attached'[u] # attached[u] => u = t /\ stage[t] = "opening"
  <2>1. CASE TakeEngine(t)
    BY <2>1, UsersAreThreads DEF TakeEngine, SetEngine, Goto, StackInv, InMethods, Inv, PoolInv,
       TypeOK
  <2>2. CASE Lock(t) \/ SkipEngine(t) \/ CreateEngine(t) \/ CreateFails(t) \/ Wait(t)
             \/ Signal(t) \/ SpuriousWakeup(t) \/ EndThread(t)
    BY <2>2 DEF Lock, SkipEngine, CreateEngine, CreateFails, Wait, Signal, SpuriousWakeup,
       EndThread
  <2> QED
    BY <2>1, <2>2 DEF PoolOnly, PoolStep, End
<1>4. \A e \in Slots : (Tainted(e)' <=> Tainted(e)) /\ (Agrees(e)' <=> Agrees(e))
  BY <1>1 DEF queryVars, Tainted, Agrees
<1>5. InMethods'
  BY <1>1, <1>2, <1>3 DEF StackInv, InMethods, queryVars
<1>6. HasReason'
  BY <1>1, <1>3, <1>4 DEF StackInv, HasReason, queryVars
<1> QED
  BY <1>4, <1>5, <1>6 DEF StackInv

LEMMA OpenStackInv ==
    ASSUME Inv, StackInv, NEW t \in Users, NEW q \in Queries, Open(t, q)
    PROVE  StackInv'
<1>1. /\ UNCHANGED <<topmost, open, engine, subQuery, frames, target, crashed>>
      /\ q \notin open /\ q # NoQuery /\ monitor[t] = NoQuery
  BY QueriesAssumption DEF Open, Enter, Outside
<1>2. /\ \A u \in Users : monitor'[u] = IF u = t THEN q ELSE monitor[u]
      /\ \A u \in Users : stage'[u] = IF u = t THEN "opening" ELSE stage[u]
  BY DEF Inv, QueryInv, JplTypeOK, Open, Enter
<1>3. attached' = attached /\ \A u \in Users : pc'[u] = pc[u] \/ u = t
  BY UsersAreThreads DEF Open, AttachPoolEngine, Goto, poolVars, Inv, PoolInv, TypeOK
<1>4. \A e \in Slots : Tainted(e)' <=> Tainted(e)
  BY <1>1 DEF Tainted
<1>5. \A e \in Slots : Agrees(e) => Agrees(e)'
  <2>1. \A x \in open : (\E u \in Users : monitor[u] = x) => \E u \in Users : monitor'[u] = x
    BY <1>1, <1>2, QueriesAssumption DEF Inv, QueryInv, JplTypeOK
  <2> QED
    BY <1>1, <2>1 DEF Agrees
<1>6. InMethods'
  BY <1>1, <1>2, <1>3 DEF StackInv, InMethods
<1>7. HasReason'
  BY <1>1, <1>2, <1>3, <1>4 DEF StackInv, HasReason
<1> QED
  BY <1>4, <1>5, <1>6, <1>7 DEF StackInv

LEMMA OpenSucceedsStackInv ==
    ASSUME Inv, StackInv, NEW t \in Users, NEW q \in Queries, OpenSucceeds(t, q)
    PROVE  StackInv'
<1>0. PICK e0 \in Slots : e0 = attached[t]
  BY OwnEngine DEF OpenSucceeds
<1>1. /\ At(t, q, "opening") /\ e0 # NoEngine /\ Push(q, e0) /\ Return(t)
      /\ q \notin BadGoals /\ UNCHANGED <<poolVars, target, crashed>>
      /\ frames' = [frames EXCEPT ![e0] = Append(@, q)] /\ open' = open \cup {q}
  BY <1>0 DEF OpenSucceeds
<1>2. \A u \in Threads : attached[u] = e0 => u = t
  BY <1>0, <1>1, OwnEngine
<1>3. /\ q \notin open
      /\ \A x \in Queries : engine'[x] = IF x = q THEN e0 ELSE engine[x]
      /\ \A x \in Queries : subQuery'[x] = IF x = q THEN topmost[e0] ELSE subQuery[x]
      /\ \A e \in Slots : topmost'[e] = IF e = e0 THEN q ELSE topmost[e]
  BY <1>0, <1>1, PushInv
<1>4. attached' = attached /\ pc' = pc
  BY <1>1 DEF poolVars
<1>5. /\ \A u \in Users : monitor'[u] = IF u = t THEN NoQuery ELSE monitor[u]
      /\ \A u \in Users : stage'[u] = IF u = t THEN "none" ELSE stage[u]
  BY <1>1, ReturnMonitors
<1>6. /\ frames \in [Slots -> Seq(Queries)] /\ open \subseteq Queries
      /\ monitor[t] = q /\ stage[t] = "opening" /\ pc[t] = "outside"
  BY <1>1 DEF Inv, QueryInv, JplTypeOK, At
<1>7. /\ \A e \in Slots \ {e0} : frames'[e] = frames[e]
      /\ Len(frames'[e0]) = Len(frames[e0]) + 1 /\ Len(frames[e0]) \in Nat
      /\ frames'[e0][Len(frames[e0]) + 1] = q
      /\ \A i \in 1 .. Len(frames[e0]) : frames'[e0][i] = frames[e0][i]
  BY <1>1, <1>6
<1>8. \A x \in open : x # q /\ engine'[x] = engine[x] /\ subQuery'[x] = subQuery[x]
  BY <1>3, <1>6
<1>9. \A e \in Slots : Tainted(e) => Tainted(e)'
  BY <1>1, <1>3, <1>8 DEF Tainted
<1>10. \A e \in Slots : \A i \in 1 .. Len(frames[e]) : frames[e][i] \in open
  BY DEF Inv, QueryInv, Stacked
<1>11. ASSUME NEW e \in Slots \ {e0}, Agrees(e) PROVE Agrees(e)'
  <2>1. \A x \in open : (\E u \in Users : monitor[u] = x) => x = q \/ \E u \in Users : monitor'[u] = x
    BY <1>5, <1>6
  <2>2. \A x \in open' : engine'[x] = e => x \in open /\ engine[x] = e
    BY <1>1, <1>3, <1>8
  <2> QED
    BY <1>3, <1>7, <1>8, <1>10, <1>11, <2>1, <2>2 DEF Agrees
<1>12. ASSUME Agrees(e0) PROVE Agrees(e0)'
  <2> DEFINE n == Len(frames[e0])
  <2>1. n \in Nat /\ Len(frames'[e0]) = n + 1 /\ frames'[e0][n + 1] = q
    BY <1>7
  <2>2. topmost'[e0] = frames'[e0][Len(frames'[e0])] /\ Len(frames'[e0]) # 0
    BY <1>2, <1>3, <2>1
  <2>3. ASSUME NEW i \in 1 .. Len(frames'[e0])
        PROVE  subQuery'[frames'[e0][i]] = IF i = 1 THEN NoQuery ELSE frames'[e0][i - 1]
    <3>1. CASE i \in 1 .. n
      <4>1. i = 1 \/ i - 1 \in 1 .. n
        BY <2>1, <3>1
      <4>2. /\ frames'[e0][i] = frames[e0][i] /\ (i # 1 => frames'[e0][i - 1] = frames[e0][i - 1])
            /\ subQuery[frames[e0][i]] = IF i = 1 THEN NoQuery ELSE frames[e0][i - 1]
            /\ subQuery'[frames[e0][i]] = subQuery[frames[e0][i]]
        BY <1>2, <1>7, <1>8, <1>10, <1>12, <3>1, <4>1 DEF Agrees
      <4> QED
        BY <4>2
    <3>2. CASE i = n + 1
      <4>1. subQuery'[q] = IF n = 0 THEN NoQuery ELSE frames[e0][n]
        BY <1>3, <1>12 DEF Agrees
      <4>2. n # 0 => n \in 1 .. n /\ n = i - 1 /\ i # 1
        BY <2>1, <3>2
      <4> QED
        BY <1>7, <2>1, <3>2, <4>1, <4>2
    <3> QED
      BY <2>1, <3>1, <3>2
  <2>4. ASSUME NEW x \in open', engine'[x] = e0
        PROVE  (\E i \in 1 .. Len(frames'[e0]) : frames'[e0][i] = x)
               \/ \E u \in Users : monitor'[u] = x
    <3>1. CASE x = q
      BY <2>1, <3>1
    <3>2. CASE x # q
      <4>1. x \in open /\ engine[x] = e0
        BY <1>1, <1>8, <2>4, <3>2
      <4>2. (\E i \in 1 .. n : frames[e0][i] = x) \/ \E u \in Users : monitor[u] = x
        BY <1>12, <4>1 DEF Agrees
      <4>3. CASE \E i \in 1 .. n : frames[e0][i] = x
        <5>1. \A i \in 1 .. n : i \in 1 .. Len(frames'[e0]) /\ frames'[e0][i] = frames[e0][i]
          BY <1>7
        <5> QED
          BY <4>3, <5>1
      <4>4. CASE \E u \in Users : monitor[u] = x
        BY <1>5, <1>6, <3>2, <4>4
      <4> QED
        BY <4>2, <4>3, <4>4
    <3> QED
      BY <3>1, <3>2
  <2> QED
    BY <2>2, <2>3, <2>4 DEF Agrees
<1>13. InMethods'
  <2>1. open' \cap BadGoals = {}
    BY <1>1 DEF StackInv, InMethods
  <2>2. \A u \in Users \ {t} : stage[u] = "closing" => \A e \in Slots :
           engine[monitor[u]] = e /\ subQuery[monitor[u]] # NoQuery => e # e0
    BY <1>2, UsersAreThreads DEF StackInv, InMethods
  <2>3. \A u \in Users \ {t} : stage[u] \in {"releasing", "closing"} => monitor[u] \in open
    BY DEF StackInv, InMethods
  <2> QED
    BY <1>1, <1>3, <1>4, <1>5, <1>6, <1>8, <2>1, <2>2, <2>3 DEF StackInv, InMethods
<1>14. HasReason'
  <2>1. frames'[e0] # <<>>
    BY <1>7
  <2>2. \A u \in Users \ {t} : attached[u] # e0
    BY <1>2, UsersAreThreads
  <2> QED
    BY <1>0, <1>4, <1>5, <1>7, <1>9, <2>1, <2>2 DEF StackInv, HasReason
<1>15. \A e \in Slots : Tainted(e)' \/ Agrees(e)'
  BY <1>9, <1>11, <1>12 DEF StackInv
<1> QED
  BY <1>13, <1>14, <1>15 DEF StackInv

\* What open() leaves behind when it throws taints the engine, and no other.
LEMMA OpenFailsStackInv ==
    ASSUME Inv, StackInv, NEW t \in Users, NEW q \in Queries,
           OpenThrows(t, q) \/ OpenWithoutEngine(t, q)
    PROVE  StackInv'
<1>1. /\ At(t, q, "opening") /\ Return(t)
      /\ UNCHANGED <<poolVars, open, frames, target, crashed>>
  BY DEF OpenThrows, OpenWithoutEngine
<1>2. attached' = attached /\ pc' = pc
  BY <1>1 DEF poolVars
<1>3. /\ \A u \in Users : monitor'[u] = IF u = t THEN NoQuery ELSE monitor[u]
      /\ \A u \in Users : stage'[u] = IF u = t THEN "none" ELSE stage[u]
  BY <1>1, ReturnMonitors
<1>4. /\ q \notin open /\ monitor[t] = q /\ pc[t] = "outside" /\ open \subseteq Queries
  BY <1>1 DEF Inv, QueryInv, Monitors, At, JplTypeOK
<1>5. /\ \A x \in Queries \ {q} : engine'[x] = engine[x] /\ subQuery'[x] = subQuery[x]
      /\ \A e \in Slots : topmost'[e] = topmost[e] \/ (topmost'[e] \in BadGoals /\ attached[t] = e)
      /\ \A e \in Slots : attached[t] = e => topmost'[e] \in BadGoals
  <2>1. CASE OpenThrows(t, q)
    <3>1. attached[t] # NoEngine /\ Push(q, attached[t]) /\ q \in BadGoals
      BY <2>1 DEF OpenThrows
    <3> QED
      BY <1>1, <3>1, PushInv
  <2>2. CASE OpenWithoutEngine(t, q)
    BY <2>2 DEF OpenWithoutEngine, Inv, QueryInv, JplTypeOK, Slots, NoEngine
  <2> QED
    BY <2>1, <2>2
<1>6. \A x \in open : engine'[x] = engine[x] /\ subQuery'[x] = subQuery[x]
  BY <1>4, <1>5
<1>7. \A e \in Slots : Tainted(e) => Tainted(e)'
  BY <1>1, <1>5, <1>6 DEF Tainted
<1>8. ASSUME NEW e \in Slots, Agrees(e) PROVE Tainted(e)' \/ Agrees(e)'
  <2>1. CASE topmost'[e] \in BadGoals
    BY <2>1 DEF Tainted
  <2>2. CASE topmost'[e] = topmost[e]
    <3>1. \A i \in 1 .. Len(frames[e]) : frames[e][i] \in open
      BY DEF Inv, QueryInv, Stacked
    <3>2. \A x \in open : (\E u \in Users : monitor[u] = x) => \E u \in Users : monitor'[u] = x
      BY <1>3, <1>4
    <3>3. Agrees(e)'
      BY <1>1, <1>6, <1>8, <2>2, <3>1, <3>2 DEF Agrees
    <3> QED
      BY <3>3
  <2> QED
    BY <1>5, <2>1, <2>2
<1>9. InMethods'
  <2>1. \A u \in Users \ {t} : stage[u] = "closing" => \A e \in Slots :
           engine[monitor[u]] = e /\ subQuery[monitor[u]] # NoQuery => topmost'[e] = topmost[e]
    <3>1. ASSUME NEW u \in Users \ {t}, stage[u] = "closing", NEW e \in Slots,
                 engine[monitor[u]] = e, subQuery[monitor[u]] # NoQuery
          PROVE  topmost'[e] = topmost[e]
      <4>1. attached[u] = e /\ e # NoEngine
        BY <3>1 DEF StackInv, InMethods, Slots, NoEngine
      <4>2. attached[t] # e
        BY <4>1, OwnEngine, UsersAreThreads
      <4> QED
        BY <1>5, <4>2
    <3> QED
      BY <3>1
  <2>2. \A u \in Users \ {t} : stage[u] \in {"releasing", "closing"} => monitor[u] \in open
    BY DEF StackInv, InMethods
  <2> QED
    BY <1>1, <1>2, <1>3, <1>4, <1>6, <2>1, <2>2 DEF StackInv, InMethods
<1>10. HasReason'
  <2>1. \A e \in Slots : attached[t] = e => Tainted(e)'
    BY <1>5 DEF Tainted
  <2> QED
    BY <1>1, <1>2, <1>3, <1>7, <2>1 DEF StackInv, HasReason
<1> QED
  BY <1>7, <1>8, <1>9, <1>10 DEF StackInv

LEMMA CloseStackInv ==
    ASSUME Inv, StackInv, NEW t \in Users, NEW q \in Queries, Close(t, q)
    PROVE  StackInv'
<1>0. PICK e0 \in Slots : e0 = engine[q]
  BY DEF Close, Inv, QueryInv, Stacked
<1> DEFINE s == IF subQuery[q] = NoQuery THEN "releasing" ELSE "closing"
<1>1. /\ q \in open /\ e0 = attached[t] /\ topmost[e0] = q
      /\ Enter(t, q, s) /\ Discard(q, engine[q])
      /\ topmost' = [topmost EXCEPT ![e0] = subQuery[q]]
      /\ UNCHANGED <<poolVars, open, engine, subQuery, target, crashed>>
  BY <1>0 DEF Close
<1>2. PICK n \in 1 .. Len(frames[e0]) :
         /\ frames[e0][n] = q
         /\ \A e \in Slots \ {e0} : frames'[e] = frames[e]
         /\ Len(frames'[e0]) = n - 1
         /\ \A j \in 1 .. n - 1 : frames'[e0][j] = frames[e0][j]
  <2>1. \E n \in 1 .. Len(frames[engine[q]]) :
           /\ engine[q] \in Slots
           /\ frames[engine[q]][n] = q
           /\ frames' \in [Slots -> Seq(Queries)]
           /\ \A e \in Slots \ {engine[q]} : frames'[e] = frames[e]
           /\ Len(frames'[engine[q]]) = n - 1
           /\ \A j \in 1 .. n - 1 : frames'[engine[q]][j] = frames[engine[q]][j]
    BY <1>1, DiscardKeepsLower
  <2> QED
    BY <1>0, <2>1
<1>3. \A u \in Threads : attached[u] = e0 => u = t
  BY <1>1, OwnEngine DEF Slots, NoEngine
<1>4. attached' = attached /\ pc' = pc /\ pc[t] = "outside" /\ monitor[t] = NoQuery
  BY <1>1 DEF poolVars, Enter, Outside
<1>5. s \in {"releasing", "closing"} /\ (s = "releasing" <=> subQuery[q] = NoQuery)
  OBVIOUS
<1> HIDE DEF s
<1>6. /\ \A u \in Users : monitor'[u] = IF u = t THEN q ELSE monitor[u]
      /\ \A u \in Users : stage'[u] = IF u = t THEN s ELSE stage[u]
      /\ q # NoQuery
  BY <1>1, <1>5, QueriesAssumption DEF Enter, Inv, QueryInv, JplTypeOK
<1>7. \A e \in Slots : topmost'[e] = IF e = e0 THEN subQuery[q] ELSE topmost[e]
  BY <1>1 DEF Inv, QueryInv, JplTypeOK
<1>8. n \in Nat /\ n - 1 \in Nat /\ Len(frames[e0]) \in Nat
  BY DEF Inv, QueryInv, JplTypeOK
<1>9. \A e \in Slots : Tainted(e) => Tainted(e)'
  <2>1. topmost[e0] \notin BadGoals
    BY <1>1 DEF StackInv, InMethods
  <2> QED
    BY <1>1, <1>7, <2>1 DEF Tainted
<1>10. \A x \in open : (\E u \in Users : monitor[u] = x) => \E u \in Users : monitor'[u] = x
  BY <1>4, <1>6, QueriesAssumption DEF Inv, QueryInv, JplTypeOK
<1>11. ASSUME NEW e \in Slots \ {e0}, Agrees(e) PROVE Agrees(e)'
  BY <1>1, <1>2, <1>7, <1>10, <1>11 DEF Agrees
<1>12. ASSUME Agrees(e0)
       PROVE  Agrees(e0)' /\ (subQuery[q] # NoQuery => frames'[e0] # <<>>)
  <2>1. n = Len(frames[e0])
    <3>1. Len(frames[e0]) # 0 /\ frames[e0][Len(frames[e0])] = q
      BY <1>1, <1>6, <1>12 DEF Agrees
    <3>2. Len(frames[e0]) \in 1 .. Len(frames[e0])
      BY <1>8, <3>1
    <3> QED
      BY <1>2, <3>1, <3>2 DEF Inv, QueryInv, Stacked
  <2>2. subQuery[q] = IF n = 1 THEN NoQuery ELSE frames[e0][n - 1]
    BY <1>2, <1>12 DEF Agrees
  <2>3. n # 1 => n - 1 \in 1 .. n - 1
    BY <1>8, <1>2
  <2>4. topmost'[e0] = IF Len(frames'[e0]) = 0 THEN NoQuery ELSE frames'[e0][Len(frames'[e0])]
    BY <1>2, <1>7, <1>8, <2>2, <2>3
  <2>5. ASSUME NEW i \in 1 .. Len(frames'[e0])
        PROVE  subQuery'[frames'[e0][i]] = IF i = 1 THEN NoQuery ELSE frames'[e0][i - 1]
    <3>1. i \in 1 .. n - 1 /\ i \in 1 .. Len(frames[e0]) /\ (i # 1 => i - 1 \in 1 .. n - 1)
      BY <1>2, <1>8
    <3>2. frames'[e0][i] = frames[e0][i] /\ (i # 1 => frames'[e0][i - 1] = frames[e0][i - 1])
      BY <1>2, <3>1
    <3> QED
      BY <1>1, <1>12, <3>1, <3>2 DEF Agrees
  <2>6. ASSUME NEW x \in open, engine[x] = e0
        PROVE  (\E i \in 1 .. Len(frames'[e0]) : frames'[e0][i] = x)
               \/ \E u \in Users : monitor'[u] = x
    <3>1. CASE x = q
      BY <1>6, <3>1
    <3>2. CASE \E u \in Users : monitor[u] = x
      BY <1>10, <3>2
    <3>3. ASSUME x # q, NEW i \in 1 .. Len(frames[e0]), frames[e0][i] = x
          PROVE  \E j \in 1 .. Len(frames'[e0]) : frames'[e0][j] = x
      <4>1. i \in 1 .. n - 1
        BY <1>2, <1>8, <2>1, <3>3
      <4> QED
        BY <1>2, <3>3, <4>1
    <3> QED
      BY <1>12, <2>6, <3>1, <3>2, <3>3 DEF Agrees
  <2>7. Agrees(e0)'
    BY <1>1, <2>4, <2>5, <2>6 DEF Agrees
  <2>8. n # 1 => frames'[e0] # <<>>
    <3>1. n # 1 => Len(frames'[e0]) # 0
      BY <1>2, <1>8
    <3> QED
      BY <3>1
  <2> QED
    BY <2>2, <2>7, <2>8
<1>13. InMethods'
  <2>1. \A u \in Users \ {t} : stage[u] = "closing" => \A e \in Slots :
           engine[monitor[u]] = e /\ subQuery[monitor[u]] # NoQuery => e # e0
    BY <1>3, UsersAreThreads DEF StackInv, InMethods
  <2>2. open' \cap BadGoals = {}
    BY <1>1 DEF StackInv, InMethods
  <2>3. ASSUME NEW u \in Users \ {t}
        PROVE  /\ monitor'[u] = NoQuery <=> stage'[u] = "none"
               /\ stage'[u] \in {"releasing", "closing"} => monitor'[u] \in open'
               /\ stage'[u] = "releasing" => subQuery'[monitor'[u]] = NoQuery
               /\ pc'[u] \in {"lock", "scan", "wait"} => stage'[u] = "opening"
               /\ stage'[u] = "closing" => \A e \in Slots :
                     engine'[monitor'[u]] = e /\ subQuery'[monitor'[u]] # NoQuery =>
                         attached'[u] = e /\ topmost'[e] = subQuery'[monitor'[u]]
    BY <1>1, <1>4, <1>6, <1>7, <2>1 DEF StackInv, InMethods
  <2>4. /\ monitor'[t] = q /\ stage'[t] = s /\ q \in open' /\ pc'[t] = "outside"
        /\ \A e \in Slots : engine'[q] = e => e = e0
        /\ attached'[t] = e0 /\ topmost'[e0] = subQuery'[q]
        /\ s = "releasing" => subQuery'[q] = NoQuery
    BY <1>0, <1>1, <1>4, <1>5, <1>6, <1>7
  <2> QED
    BY <1>5, <1>6, <2>2, <2>3, <2>4 DEF InMethods
<1>14. HasReason'
  <2>1. \A u \in Users \ {t} : attached[u] # e0
    BY <1>3, UsersAreThreads
  <2>2. s = "closing" => Tainted(e0)' \/ frames'[e0] # <<>>
    BY <1>5, <1>9, <1>12 DEF StackInv
  <2>3. ASSUME NEW u \in Users \ {t}, NEW e \in Slots,
               stage'[u] \in {"none", "closing"}, attached'[u] = e, e # 0
        PROVE  Tainted(e)' \/ frames'[e] # <<>>
    BY <1>2, <1>4, <1>6, <1>9, <2>1, <2>3 DEF StackInv, HasReason
  <2>4. ASSUME NEW e \in Slots, stage'[t] \in {"none", "closing"}, attached'[t] = e
        PROVE  Tainted(e)' \/ frames'[e] # <<>>
    BY <1>1, <1>4, <1>5, <1>6, <2>2, <2>4
  <2> QED
    BY <2>3, <2>4 DEF HasReason
<1>15. \A e \in Slots : Tainted(e)' \/ Agrees(e)'
  BY <1>9, <1>11, <1>12 DEF StackInv
<1> QED
  BY <1>13, <1>14, <1>15 DEF StackInv

LEMMA ReleaseStackInv ==
    ASSUME Inv, StackInv, NEW t \in Users, NEW q \in Queries, Release(t, q)
    PROVE  StackInv'
<1>1. /\ At(t, q, "releasing") /\ stage' = [stage EXCEPT ![t] = "closing"]
      /\ UNCHANGED <<topmost, open, engine, subQuery, frames, monitor, target, crashed>>
      /\ ReleasePoolEngine(t) \/ (attached[t] = 0 /\ UNCHANGED poolVars)
  BY DEF Release
<1>2. /\ attached'[t] \in {0, NoEngine} /\ pc'[t] \in {"outside", "signal"}
      /\ \A u \in Users \ {t} : attached'[u] = attached[u] /\ pc'[u] = pc[u]
  <2>1. CASE ReleasePoolEngine(t)
    BY <2>1, UsersAreThreads DEF ReleasePoolEngine, Detach, Goto, Inv, PoolInv, TypeOK
  <2>2. CASE attached[t] = 0 /\ UNCHANGED poolVars
    BY <1>1, <2>2 DEF poolVars, At
  <2> QED
    BY <1>1, <2>1, <2>2
<1>3. /\ \A u \in Users : stage'[u] = IF u = t THEN "closing" ELSE stage[u]
      /\ stage[t] = "releasing"
  BY <1>1 DEF Inv, QueryInv, JplTypeOK, At
<1>4. \A e \in Slots : (Tainted(e)' <=> Tainted(e)) /\ (Agrees(e)' <=> Agrees(e))
  BY <1>1 DEF Tainted, Agrees
<1>5. InMethods'
  BY <1>1, <1>2, <1>3 DEF StackInv, InMethods
<1>6. HasReason'
  BY <1>1, <1>2, <1>3, <1>4 DEF StackInv, HasReason, Slots, NoEngine
<1> QED
  BY <1>4, <1>5, <1>6 DEF StackInv

LEMMA CloseReturnsStackInv ==
    ASSUME Inv, StackInv, NEW t \in Users, NEW q \in Queries, CloseReturns(t, q)
    PROVE  StackInv'
<1>1. /\ At(t, q, "closing") /\ Return(t)
      /\ open' = open \ {q}
      /\ engine' = [engine EXCEPT ![q] = NoEngine]
      /\ subQuery' = [subQuery EXCEPT ![q] = NoQuery]
      /\ UNCHANGED <<poolVars, topmost, frames, target, crashed>>
  BY DEF CloseReturns
<1>2. attached' = attached /\ pc' = pc
  BY <1>1 DEF poolVars
<1>3. /\ \A u \in Users : monitor'[u] = IF u = t THEN NoQuery ELSE monitor[u]
      /\ \A u \in Users : stage'[u] = IF u = t THEN "none" ELSE stage[u]
  BY <1>1, ReturnMonitors
<1>4. /\ monitor[t] = q /\ stage[t] = "closing" /\ pc[t] = "outside" /\ q # NoQuery
      /\ open \subseteq Queries
  BY <1>1, QueriesAssumption DEF At, Inv, QueryInv, JplTypeOK
<1>5. \A x \in open' : x \in open /\ x # q /\ engine'[x] = engine[x] /\ subQuery'[x] = subQuery[x]
  BY <1>1, <1>4 DEF Inv, QueryInv, JplTypeOK
<1>6. \A e \in Slots : \A i \in 1 .. Len(frames[e]) : frames[e][i] \in open'
  BY <1>1, <1>4 DEF Inv, QueryInv, Stacked, Closing
<1>7. ASSUME NEW e \in Slots, Tainted(e) PROVE Tainted(e)'
  <2>1. CASE topmost[e] \in BadGoals
    BY <1>1, <2>1 DEF Tainted
  <2>2. CASE engine[q] = e /\ subQuery[q] \in BadGoals
    <3>1. topmost[e] = subQuery[q]
      BY <1>4, <2>2, QueriesAssumption DEF StackInv, InMethods
    <3> QED
      BY <1>1, <2>2, <3>1 DEF Tainted
  <2>3. ASSUME NEW x \in open \ {q}, engine[x] = e, subQuery[x] \in BadGoals PROVE Tainted(e)'
    BY <1>1, <1>5, <2>3 DEF Tainted
  <2> QED
    BY <1>7, <2>1, <2>2, <2>3 DEF Tainted
<1>8. ASSUME NEW e \in Slots, Agrees(e) PROVE Agrees(e)'
  <2>1. \A x \in open' : (\E u \in Users : monitor[u] = x) => \E u \in Users : monitor'[u] = x
    BY <1>3, <1>4, <1>5
  <2> QED
    BY <1>1, <1>5, <1>6, <1>8, <2>1 DEF Agrees
<1>9. InMethods'
  <2>1. \A u \in Users \ {t} : stage[u] \in {"releasing", "closing"} => monitor[u] \in open'
    BY <1>1, <1>4 DEF StackInv, InMethods, Inv, QueryInv, Monitors
  <2>2. open' \cap BadGoals = {}
    BY <1>1 DEF StackInv, InMethods
  <2> QED
    BY <1>1, <1>2, <1>3, <1>4, <1>5, <2>1, <2>2 DEF StackInv, InMethods
<1>10. HasReason'
  BY <1>1, <1>2, <1>3, <1>4, <1>7 DEF StackInv, HasReason
<1> QED
  BY <1>7, <1>8, <1>9, <1>10 DEF StackInv

LEMMA AbortStackInv ==
    ASSUME Inv, StackInv, NEW a \in Aborters,
           AbortAttaches(a) \/ AbortCrashes(a) \/ \E q \in Queries : Abort(a, q)
    PROVE  StackInv'
<1>1. /\ UNCHANGED <<topmost, open, engine, subQuery, frames, monitor, stage>>
      /\ pc' = pc
  BY DEF AbortAttaches, AttachEngine, AbortCrashes, Abort, queryVars, poolVars
<1>2. \A u \in Users : attached'[u] = attached[u]
  <2>1. CASE AbortAttaches(a)
    BY <2>1, UsersAreThreads DEF AbortAttaches, AttachEngine, SetEngine, Inv, PoolInv, TypeOK
  <2>2. CASE AbortCrashes(a) \/ \E q \in Queries : Abort(a, q)
    BY <2>2 DEF AbortCrashes, Abort, poolVars
  <2> QED
    BY <2>1, <2>2
<1>3. \A e \in Slots : (Tainted(e)' <=> Tainted(e)) /\ (Agrees(e)' <=> Agrees(e))
  BY <1>1 DEF Tainted, Agrees
<1>4. InMethods'
  BY <1>1, <1>2 DEF StackInv, InMethods
<1>5. HasReason'
  BY <1>1, <1>2, <1>3 DEF StackInv, HasReason
<1> QED
  BY <1>3, <1>4, <1>5 DEF StackInv

LEMMA StackInvStep == Inv /\ StackInv /\ [JplNext]_vars => StackInv'
<1> SUFFICES ASSUME Inv, StackInv, [JplNext]_vars PROVE StackInv'
  OBVIOUS
<1>1. CASE Killed \/ UNCHANGED vars
  <2>1. UNCHANGED <<poolVars, topmost, open, engine, subQuery, frames, monitor, stage>>
    BY <1>1 DEF Killed, vars, queryVars
  <2>2. \A e \in Slots : (Tainted(e)' <=> Tainted(e)) /\ (Agrees(e)' <=> Agrees(e))
    BY <2>1 DEF Tainted, Agrees
  <2>3. InMethods'
    BY <2>1 DEF StackInv, InMethods, poolVars
  <2>4. HasReason'
    BY <2>1, <2>2 DEF StackInv, HasReason, poolVars
  <2> QED
    BY <2>2, <2>3, <2>4 DEF StackInv
<1>2. ASSUME NEW t \in Users, NEW q \in Queries, UserStep(t, q) PROVE StackInv'
  BY <1>2, OpenStackInv, OpenSucceedsStackInv, OpenFailsStackInv, CloseStackInv,
     ReleaseStackInv, CloseReturnsStackInv DEF UserStep
<1> QED
  BY <1>1, <1>2, AbortStackInv, PoolOnlyStackInv DEF JplNext

LEMMA StackInvariant == JplSpec => [](Inv /\ StackInv)
<1>1. Inv /\ StackInv /\ [JplNext]_vars => StackInv'
  BY StackInvStep
<1> QED
  BY <1>1, InitStackInv, JplInvariant, PTL DEF JplSpec

\* For any queries, opened, closed, left open and aborted by any threads in any
\* order, `m' and the links of the queries are what the Prolog system has open on
\* each engine, unless an open() has thrown there.
THEOREM StacksAlwaysAgree == JplSpec => []StacksAgree
<1>1. Inv /\ StackInv => StacksAgree
  <2> SUFFICES ASSUME Inv, StackInv PROVE StacksAgree
    OBVIOUS
  <2>1. ASSUME NEW e \in Slots, ~Tainted(e)
        PROVE  LET n == Len(frames[e]) IN
               /\ topmost[e] = IF n = 0 THEN NoQuery ELSE frames[e][n]
               /\ \A i \in 1 .. n :
                     /\ frames[e][i] \in open
                     /\ engine[frames[e][i]] = e
                     /\ subQuery[frames[e][i]] = IF i = 1 THEN NoQuery ELSE frames[e][i - 1]
               /\ \A q \in open : engine[q] = e =>
                     \/ \E i \in 1 .. n : frames[e][i] = q
                     \/ \E t \in Users : monitor[t] = q
    BY <2>1 DEF StackInv, Agrees, Inv, QueryInv, Stacked
  <2> QED
    BY <2>1 DEF StacksAgree
<1> QED
  BY <1>1, StackInvariant, PTL

\* Whatever a thread does with its queries, it keeps an engine of the pool only for
\* one of them, or because of an open() that threw.
THEOREM EnginesGivenBack == JplSpec => []EngineGivenBack
<1>1. Inv /\ StackInv => EngineGivenBack
  <2> SUFFICES ASSUME Inv, StackInv, NEW t \in Users,
                      Outside(t), attached[t] > 0, ~Tainted(attached[t])
               PROVE  frames[attached[t]] # <<>>
    BY DEF EngineGivenBack
  <2>1. attached[t] \in Slots /\ stage[t] = "none"
    BY UsersAreThreads DEF Inv, PoolInv, TypeOK, StackInv, InMethods, Outside, NoEngine
  <2> QED
    BY <2>1 DEF StackInv, HasReason
<1> QED
  BY <1>1, StackInvariant, PTL
=============================================================================
