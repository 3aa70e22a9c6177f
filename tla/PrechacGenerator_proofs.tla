----------------------- MODULE PrechacGenerator_proofs -----------------------
(***************************************************************************)
(* Theorems about the search service, for any screens, parameters, answers *)
(* and limit.                                                              *)
(***************************************************************************)
EXTENDS PrechacGenerator, FiniteSetTheorems, TLAPS

\* A generator that has found an answer still has it when it looks at it.
HasSolution ==
    \A g \in Generators :
        pc[g] \in {"check", "abort", "contains", "add", "broadcast"} => answers[g] # <<>>

\* A start command that is being handled has a request.
HasRequest == mainPc \in InCommand => request \in Screens

\* Every variable stays within its type, an answer that has been found is there
\* when it is read, and a request is there while it is handled.
TypeInv == TypeOK /\ HasSolution /\ HasRequest

LEMMA HeadTail ==
    ASSUME NEW S, NEW seq \in Seq(S), seq # <<>>
    PROVE  Head(seq) \in S /\ Tail(seq) \in Seq(S)
OBVIOUS

LEMMA TypeOKStep == TypeInv /\ [Next]_vars => TypeOK'
<1> SUFFICES ASSUME TypeOK, HasSolution, HasRequest, [Next]_vars PROVE TypeOK'
  BY DEF TypeInv
<1>1. ASSUME NEW s \in Screens, OnCreate(s) PROVE TypeOK'
  BY <1>1 DEF TypeOK, OnCreate, mainVars, fieldVars, genVars, history
<1>2. CASE ExecutePendingBroadcasts
  <2>1. Head(broadcasts) \in Broadcasts /\ Tail(broadcasts) \in Seq(Broadcasts)
    BY <1>2, HeadTail DEF TypeOK, ExecutePendingBroadcasts
  <2>2. Head(broadcasts).pattern \in Patterns
    BY <2>1 DEF Broadcasts
  <2>3. shown' \in [Screens -> Seq(Patterns)]
    BY <1>2, <2>2 DEF TypeOK, ExecutePendingBroadcasts
  <2> QED
    BY <1>2, <2>1, <2>3 DEF TypeOK, ExecutePendingBroadcasts, fieldVars, genVars, history
<1>3. CASE OnStartCommand
  <2>1. Head(startQueue) \in Screens /\ Tail(startQueue) \in Seq(Screens)
    BY <1>3, HeadTail DEF TypeOK, OnStartCommand
  <2> QED
    BY <1>3, <2>1 DEF TypeOK, OnStartCommand, Main, InCommand, screenVars, fieldVars, genVars
<1>4. CASE OnStartCommandStep
  <2>0. NoIterator \in [list : Lists, next : Nat \ {0}, size : Nat]
    BY DEF NoIterator, Lists
  <2>1. CASE CompareParameters
    BY <1>4, <2>1 DEF TypeOK, CompareParameters, Main, InCommand, screenVars, fieldVars, genVars, history
  <2>2. CASE StartThread
    BY <1>4, <2>0, <2>2 DEF TypeOK, StartThread, Main, Return, screenVars, fieldVars, Working,
       Starting
  <2>3. CASE ChooseHandOver
    BY <1>4, <2>3 DEF TypeOK, ChooseHandOver, Main, InCommand, screenVars, fieldVars, genVars, history
  <2>4. CASE FinishAnd
    BY <1>4, <2>0, <2>4 DEF TypeOK, FinishAnd, Main, Return, Throws, InCommand, screenVars,
       fieldVars, Generators
  <2>5. CASE ExistingRequest
    BY <1>4, <2>5 DEF TypeOK, ExistingRequest, Main, InCommand, screenVars, fieldVars, genVars, history
  <2>6. CASE RebroadcastPattern
    <3>1. iterator.list \in Lists /\ iterator.next \in Nat \ {0} /\ iterator.size \in Nat
      BY DEF TypeOK
    <3>2. iterator' = [list |-> iterator.list, next |-> iterator.next + 1,
                       size |-> iterator.size]
      BY <2>6 DEF TypeOK, RebroadcastPattern
    <3>3. iterator' \in [list : Lists, next : Nat \ {0}, size : Nat]
      BY <3>1, <3>2
    <3>4. iterator.next \in 1..Len(list[iterator.list])
      BY <2>6, <3>1 DEF TypeOK, RebroadcastPattern, IteratorDone, ListChanged
    <3>5. list[iterator.list][iterator.next] \in Patterns
      BY <3>1, <3>4 DEF TypeOK
    <3>6. request \in Screens
      BY <2>6 DEF HasRequest, RebroadcastPattern, Main, InCommand
    <3>7. broadcasts' \in Seq(Broadcasts)
      BY <2>6, <3>5, <3>6 DEF TypeOK, RebroadcastPattern, BroadcastPattern, Broadcasts
    <3> QED
      BY <2>6, <3>3, <3>7
      DEF TypeOK, RebroadcastPattern, Main, InCommand, screenVars, fieldVars, genVars, history
  <2>7. CASE EndIteration
    BY <1>4, <2>0, <2>7 DEF TypeOK, EndIteration, Main, Return, Throws, screenVars, fieldVars,
       genVars
  <2> QED
    BY <1>4, <2>1, <2>2, <2>3, <2>4, <2>5, <2>6, <2>7 DEF OnStartCommandStep
<1>5. ASSUME NEW g \in Generators, GeneratorStep(g) PROVE TypeOK'
  <2> USE DEF Generators
  <2>1. CASE NewList(g)
    BY <1>5, <2>1 DEF TypeOK, NewList, Run, Working, Starting, Lists, screenVars, mainVars, history
  <2>2. CASE SetCurrent(g)
    BY <1>5, <2>2 DEF TypeOK, SetCurrent, Run, Working, screenVars, mainVars, history
  <2>3. CASE PrologInit(g)
    <3>1. \A order \in Answers[param[g]] : order \in Seq(Patterns)
      BY AnswersAssumption DEF TypeOK
    <3>2. answers' \in [Generators -> Seq(Patterns)]
      BY <2>3, <3>1 DEF TypeOK, PrologInit
    <3>3. pc' \in [Generators -> Working \cup {"none", "replaced", "done", "failed"}]
      BY <2>3 DEF TypeOK, PrologInit, Run, Working, Searching
    <3> QED
      BY <2>3, <3>2, <3>3 DEF TypeOK, PrologInit, screenVars, mainVars, fieldVars, history
  <2>4. CASE LoadProlog(g)
    BY <1>5, <2>4 DEF TypeOK, LoadProlog, Run, Working, screenVars, mainVars, history
  <2>5. CASE Alert(g)
    BY <1>5, <2>5 DEF TypeOK, Alert, Run, screenVars, mainVars, fieldVars, history
  <2>6. CASE CheckSize(g)
    BY <1>5, <2>6 DEF TypeOK, CheckSize, Run, Working, Searching, screenVars, mainVars, fieldVars, history
  <2>7. CASE HasMoreSolutions(g)
    BY <1>5, <2>7 DEF TypeOK, HasMoreSolutions, Run, Working, Searching, screenVars, mainVars, fieldVars, history
  <2>8. CASE CheckCallback(g)
    BY <1>5, <2>8 DEF TypeOK, CheckCallback, Run, Working, Searching, screenVars, mainVars, fieldVars, history
  <2>9. CASE RunCallback(g)
    BY <1>5, <2>9 DEF TypeOK, RunCallback, Working, Starting, screenVars, mainVars, fieldVars, history
  <2>10. CASE CacheContains(g)
    <3>1. Tail(answers[g]) \in Seq(Patterns)
      BY <2>10, HeadTail DEF TypeOK, HasSolution, CacheContains, Run
    <3>2. answers' \in [Generators -> Seq(Patterns)]
      BY <2>10, <3>1 DEF TypeOK, CacheContains
    <3>3. pc' \in [Generators -> Working \cup {"none", "replaced", "done", "failed"}]
      BY <2>10 DEF TypeOK, CacheContains, Run, Working, Searching
    <3> QED
      BY <2>10, <3>2, <3>3 DEF TypeOK, CacheContains, screenVars, mainVars, fieldVars, history
  <2>11. CASE Add(g)
    <3>1. Solution(g) \in Patterns
      BY <2>11, HeadTail DEF TypeOK, HasSolution, Add, Run, Solution
    <3>2. list' \in [Lists -> Seq(Patterns)]
      <4>1. Append(list[cache], Solution(g)) \in Seq(Patterns)
        BY <3>1 DEF TypeOK
      <4> QED
        BY <2>11, <4>1 DEF TypeOK, Add
    <3>3. pc' \in [Generators -> Working \cup {"none", "replaced", "done", "failed"}]
      BY <2>11 DEF TypeOK, Add, Run, Working, Searching
    <3> QED
      BY <2>11, <3>2, <3>3 DEF TypeOK, Add, Disturb, screenVars, mainVars
  <2>12. CASE Broadcast(g)
    <3>1. Solution(g) \in Patterns /\ Tail(answers[g]) \in Seq(Patterns)
      BY <2>12, HeadTail DEF TypeOK, HasSolution, Broadcast, Run, Solution
    <3>2. answers' \in [Generators -> Seq(Patterns)]
      BY <2>12, <3>1 DEF TypeOK, Broadcast
    <3>3. broadcasts' \in Seq(Broadcasts)
      BY <2>12, <3>1 DEF TypeOK, Broadcast, BroadcastPattern, Broadcasts
    <3>4. pc' \in [Generators -> Working \cup {"none", "replaced", "done", "failed"}]
      BY <2>12 DEF TypeOK, Broadcast, Run, Working, Searching
    <3> QED
      BY <2>12, <3>2, <3>3, <3>4 DEF TypeOK, Broadcast, screenVars, mainVars, fieldVars, history
  <2>13. CASE Finish(g)
    BY <1>5, <2>13 DEF TypeOK, Finish, Run, Working, Disturb, screenVars, mainVars
  <2> QED
    BY <1>5, <2>1, <2>2, <2>3, <2>4, <2>5, <2>6, <2>7, <2>8, <2>9, <2>10, <2>11, <2>12, <2>13
    DEF GeneratorStep, SearchStep
<1>6. ASSUME NEW g \in Generators, AbortThread(g) \/ Throw(g) PROVE TypeOK'
  BY <1>6 DEF TypeOK, AbortThread, Throw, EndProcess, screenVars, fieldVars, genVars, history
<1>7. CASE UNCHANGED vars
  BY <1>7 DEF TypeOK, vars, screenVars, mainVars, fieldVars, genVars, history
<1> QED
  BY <1>1, <1>2, <1>3, <1>4, <1>5, <1>6, <1>7 DEF Next, MainStep

LEMMA HasSolutionStep == TypeInv /\ [Next]_vars => HasSolution'
<1> SUFFICES ASSUME TypeOK, HasSolution, [Next]_vars PROVE HasSolution'
  BY DEF TypeInv
<1> USE DEF Generators
<1>1. CASE UNCHANGED <<pc, answers>>
  BY <1>1 DEF HasSolution
<1>2. CASE StartThread
  BY <1>2 DEF TypeOK, HasSolution, StartThread
<1>3. ASSUME NEW g \in Generators, GeneratorStep(g) PROVE HasSolution'
  <2>1. CASE RunCallback(g)
    BY <2>1 DEF TypeOK, HasSolution, RunCallback, genVars
  <2>2. CASE HasMoreSolutions(g)
    BY <2>2 DEF TypeOK, HasSolution, HasMoreSolutions, Run
  <2>3. CASE CheckCallback(g)
    BY <2>3 DEF TypeOK, HasSolution, CheckCallback, Run
  <2>4. CASE CacheContains(g)
    BY <2>4 DEF TypeOK, HasSolution, CacheContains, Run
  <2>5. CASE Add(g)
    BY <2>5 DEF TypeOK, HasSolution, Add, Run
  <2>6. CASE Broadcast(g) \/ PrologInit(g)
    BY <2>6 DEF TypeOK, HasSolution, Broadcast, PrologInit, Run
  <2>7. CASE NewList(g) \/ SetCurrent(g) \/ LoadProlog(g) \/ Alert(g) \/ CheckSize(g) \/ Finish(g)
    BY <2>7 DEF TypeOK, HasSolution, NewList, SetCurrent, LoadProlog, Alert, CheckSize, Finish, Run
  <2> QED
    BY <1>3, <2>1, <2>2, <2>3, <2>4, <2>5, <2>6, <2>7 DEF GeneratorStep, SearchStep
<1> QED
  BY <1>1, <1>2, <1>3 DEF Next, MainStep, OnCreate, ExecutePendingBroadcasts, OnStartCommand,
     OnStartCommandStep, CompareParameters, ChooseHandOver, FinishAnd, ExistingRequest,
     RebroadcastPattern, EndIteration, AbortThread, Throw, EndProcess, genVars, vars

LEMMA HasRequestStep == TypeInv /\ [Next]_vars => HasRequest'
<1> SUFFICES ASSUME TypeOK, HasRequest, [Next]_vars PROVE HasRequest'
  BY DEF TypeInv
<1>1. CASE UNCHANGED <<mainPc, request>>
  BY <1>1 DEF HasRequest
<1>2. CASE ExecutePendingBroadcasts
  BY <1>2 DEF HasRequest, ExecutePendingBroadcasts, InCommand
<1>3. CASE OnStartCommand
  BY <1>3, HeadTail DEF TypeOK, HasRequest, OnStartCommand
<1>4. CASE OnStartCommandStep
  BY <1>4 DEF HasRequest, OnStartCommandStep, CompareParameters, StartThread, ChooseHandOver, FinishAnd,
     ExistingRequest, RebroadcastPattern, EndIteration, Main, Return, Throws, InCommand
<1>5. ASSUME NEW g \in Generators, AbortThread(g) \/ Throw(g) PROVE HasRequest'
  BY <1>5 DEF HasRequest, AbortThread, Throw, EndProcess, InCommand
<1> QED
  BY <1>1, <1>2, <1>3, <1>4, <1>5 DEF Next, MainStep, OnCreate, GeneratorStep, SearchStep, NewList,
     SetCurrent, PrologInit, LoadProlog, Alert, CheckSize, HasMoreSolutions, CheckCallback, RunCallback,
     CacheContains, Add, Broadcast, Finish, mainVars, vars

LEMMA InitTypeInv == Init => TypeInv
<1> SUFFICES ASSUME Init PROVE TypeInv
  OBVIOUS
<1>1. <<>> \in Seq(Screens) /\ <<>> \in Seq(Patterns) /\ <<>> \in Seq(Broadcasts)
  OBVIOUS
<1>2. iterator \in [list : Lists, next : Nat \ {0}, size : Nat]
  BY DEF Init, NoIterator, Lists
<1>3. TypeOK
  BY <1>1, <1>2 DEF Init, TypeOK, Lists, Generators
<1> QED
  BY <1>3 DEF Init, TypeInv, HasSolution, HasRequest, InCommand

LEMMA TypeInvStep == TypeInv /\ [Next]_vars => TypeInv'
BY TypeOKStep, HasSolutionStep, HasRequestStep DEF TypeInv

\* The program stays within its types, whatever the threads do.
THEOREM TypeCorrect == Spec => []TypeOK
<1>1. TypeInv => TypeOK
  BY DEF TypeInv
<1> QED
  BY <1>1, InitTypeInv, TypeInvStep, PTL DEF Spec

-----------------------------------------------------------------------------
(***************************************************************************)
(* Someone is at work as long as currentGenerator is set.  The argument    *)
(* needs that a search replaced by a callback really has one: finishAnd    *)
(* never takes a callback back.                                            *)
(***************************************************************************)

AbortHasCallback ==
    \A g \in Generators : pc[g] = "abort" => finishCallback[g] \in Generators

LEMMA AbortHasCallbackStep ==
    TypeInv /\ AbortHasCallback /\ [Next]_vars => AbortHasCallback'
<1> SUFFICES ASSUME TypeInv, AbortHasCallback, [Next]_vars PROVE AbortHasCallback'
  OBVIOUS
<1> USE DEF Generators
<1>1. CASE UNCHANGED <<pc, finishCallback>>
  BY <1>1 DEF AbortHasCallback
<1>2. CASE StartThread
  BY <1>2 DEF TypeInv, TypeOK, AbortHasCallback, StartThread
<1>3. CASE FinishAnd
  BY <1>3 DEF TypeInv, TypeOK, HasRequest, AbortHasCallback, FinishAnd, Main, Return, Throws, InCommand
<1>4. ASSUME NEW g \in Generators, GeneratorStep(g) PROVE AbortHasCallback'
  <2>1. CASE CheckCallback(g)
    BY <2>1 DEF TypeInv, TypeOK, AbortHasCallback, CheckCallback, Run
  <2>2. CASE RunCallback(g)
    BY <2>2 DEF TypeInv, TypeOK, AbortHasCallback, RunCallback
  <2>3. CASE NewList(g) \/ SetCurrent(g) \/ PrologInit(g) \/ LoadProlog(g) \/ Alert(g)
    BY <2>3 DEF TypeInv, TypeOK, AbortHasCallback, NewList, SetCurrent, PrologInit, LoadProlog,
       Alert, Run
  <2>4. CASE CheckSize(g) \/ HasMoreSolutions(g) \/ CacheContains(g)
    BY <2>4 DEF TypeInv, TypeOK, AbortHasCallback, CheckSize, HasMoreSolutions, CacheContains, Run
  <2>5. CASE Add(g) \/ Broadcast(g) \/ Finish(g)
    BY <2>5 DEF TypeInv, TypeOK, AbortHasCallback, Add, Broadcast, Finish, Run
  <2> QED
    BY <1>4, <2>1, <2>2, <2>3, <2>4, <2>5 DEF GeneratorStep, SearchStep
<1> QED
  BY <1>1, <1>2, <1>3, <1>4 DEF Next, MainStep, OnCreate, ExecutePendingBroadcasts, OnStartCommand,
     OnStartCommandStep, CompareParameters, ChooseHandOver, ExistingRequest, RebroadcastPattern,
     EndIteration, AbortThread, Throw, EndProcess, genVars, vars

\* The thread of g goes on, or its init() fails, and a thread that has not yet
\* stored its generator into the field still has not.
StaysAtWork(g) ==
    /\ UNCHANGED currentGenerator
    /\ \A k \in Generators \ {g} : pc'[k] = pc[k]
    /\ pc'[g] \in Working \cup {"failed"}
    /\ pc[g] \in Starting => pc'[g] \in Starting

\* Such a step leaves the current generator with a worker.
LEMMA WorkerStays ==
    ASSUME CurrentHasWorker, NEW g \in Generators, StaysAtWork(g),
           currentGenerator \in Generators \cup {NoGen}
    PROVE  CurrentHasWorker'
<1> DEFINE cur == currentGenerator
<1>1. SUFFICES ASSUME cur # NoGen
               PROVE  \/ pc'[cur] \in Working \cup {"failed"}
                      \/ pc'[cur] = "replaced" /\ \E k \in Generators : pc'[k] \in Starting
  BY DEF CurrentHasWorker, StaysAtWork
<1>2. CASE cur = g
  BY <1>2 DEF StaysAtWork
<1>3. CASE cur # g
  <2>1. pc'[cur] = pc[cur]
    BY <1>1, <1>3 DEF StaysAtWork
  <2>2. \A k \in Generators : pc[k] \in Starting => pc'[k] \in Starting
    BY DEF StaysAtWork
  <2> QED
    BY <1>1, <2>1, <2>2 DEF CurrentHasWorker
<1> QED
  BY <1>2, <1>3

\* The generator a field points at keeps what CurrentHasWorker asks of it, unless
\* it takes a step itself or the one that replaces it does.
LEMMA CurrentHasWorkerStep ==
    TypeInv /\ AbortHasCallback /\ CurrentHasWorker /\ [Next]_vars => CurrentHasWorker'
<1> SUFFICES ASSUME TypeInv, AbortHasCallback, CurrentHasWorker, [Next]_vars
             PROVE  CurrentHasWorker'
  OBVIOUS
<1> USE DEF Generators
<1>1. CASE UNCHANGED <<pc, currentGenerator>>
  BY <1>1 DEF CurrentHasWorker
<1>2. CASE StartThread
  BY <1>2 DEF StartThread, CurrentHasWorker, fieldVars
<1>3. ASSUME NEW g \in Generators, GeneratorStep(g) PROVE CurrentHasWorker'
  <2>1. CASE RunCallback(g)
    BY <2>1 DEF TypeInv, TypeOK, AbortHasCallback, RunCallback, CurrentHasWorker, Working, Starting,
       fieldVars
  <2>2. CASE SetCurrent(g)
    BY <2>2 DEF TypeInv, TypeOK, SetCurrent, Run, CurrentHasWorker, Working
  <2>3. CASE Finish(g)
    BY <2>3 DEF CurrentHasWorker, Finish
  <2>5. CASE NewList(g) \/ PrologInit(g) \/ LoadProlog(g) \/ Alert(g)
    <3>1. StaysAtWork(g)
      BY <2>5 DEF TypeInv, TypeOK, NewList, PrologInit, LoadProlog, Alert, Run, Working, Starting,
         Searching, fieldVars, StaysAtWork
    <3> QED
      BY <3>1, WorkerStays DEF TypeInv, TypeOK
  <2>6. CASE CheckSize(g) \/ HasMoreSolutions(g) \/ CheckCallback(g) \/ CacheContains(g)
             \/ Add(g) \/ Broadcast(g)
    <3>1. StaysAtWork(g)
      BY <2>6 DEF TypeInv, TypeOK, CheckSize, HasMoreSolutions, CheckCallback, CacheContains, Add,
         Broadcast, Run, Working, Starting, Searching, fieldVars, StaysAtWork
    <3> QED
      BY <3>1, WorkerStays DEF TypeInv, TypeOK
  <2> QED
    BY <1>3, <2>1, <2>2, <2>3, <2>5, <2>6 DEF GeneratorStep, SearchStep
<1> QED
  BY <1>1, <1>2, <1>3 DEF Next, MainStep, OnCreate, ExecutePendingBroadcasts, OnStartCommand,
     OnStartCommandStep, CompareParameters, ChooseHandOver, FinishAnd, ExistingRequest,
     RebroadcastPattern, EndIteration, AbortThread, Throw, EndProcess, fieldVars, genVars, vars

\* However the threads race, currentGenerator is a search that runs, or that the
\* next one is about to replace: the service never waits on a search that is over,
\* but for one whose own init() failed.
THEOREM CurrentAlwaysHasWorker == Spec => []CurrentHasWorker
<1> DEFINE Inv == TypeInv /\ AbortHasCallback /\ CurrentHasWorker
<1>1. Init => Inv
  BY InitTypeInv DEF Init, AbortHasCallback, CurrentHasWorker
<1>2. Inv /\ [Next]_vars => Inv'
  BY TypeInvStep, AbortHasCallbackStep, CurrentHasWorkerStep
<1>3. Inv => CurrentHasWorker
  OBVIOUS
<1> QED
  BY <1>1, <1>2, <1>3, PTL DEF Spec

-----------------------------------------------------------------------------
(***************************************************************************)
(* A cache without overlap of threads is correct.  The invariant says that *)
(* the one generator at work writes into its own list, that the list still *)
(* has room between the check of its size and the add, and that it still   *)
(* lacks the solution between the contains and the add.                    *)
(***************************************************************************)

\* What a query still has to give answers the parameters of its search.
OwnAnswers ==
    \A g \in Generators : Range(answers[g]) \subseteq AnswersOf(param[g])

Alone ==
    /\ \A g, h \in Active : g = h
    /\ \A g \in Active : pc[g] # "newList" => cache = g

ListCorrect(g) ==
    /\ Range(list[g]) \subseteq AnswersOf(param[g])
    /\ IsInjective(list[g])
    /\ Len(list[g]) <= Limit
    /\ pc[g] \in {"hasMore", "check", "abort", "contains", "add"} => Len(list[g]) < Limit
    /\ pc[g] = "add" => Solution(g) \notin Range(list[g])

SoloInv == ~overlap => Alone /\ \A g \in Generators : ListCorrect(g)

LEMMA AppendNew ==
    ASSUME NEW S, NEW seq \in Seq(S), NEW x \in S
    PROVE  /\ Len(Append(seq, x)) = Len(seq) + 1
           /\ Range(Append(seq, x)) = Range(seq) \cup {x}
           /\ IsInjective(seq) /\ x \notin Range(seq) => IsInjective(Append(seq, x))
<1> DEFINE new == Append(seq, x)
<1>1. /\ Len(new) = Len(seq) + 1 /\ Len(seq) \in Nat
      /\ DOMAIN seq = 1..Len(seq) /\ DOMAIN new = 1..Len(seq) + 1
      /\ \A i \in 1..Len(seq) : new[i] = seq[i]
      /\ new[Len(seq) + 1] = x
  OBVIOUS
<1> HIDE DEF new
<1>2. \A i \in DOMAIN new : i \in DOMAIN seq \/ i = Len(seq) + 1
  BY <1>1
<1>3. Range(new) = Range(seq) \cup {x}
  <2>1. ASSUME NEW y \in Range(new) PROVE y \in Range(seq) \cup {x}
    BY <1>1, <1>2 DEF Range
  <2>2. ASSUME NEW y \in Range(seq) PROVE y \in Range(new)
    BY <1>1 DEF Range
  <2>3. x \in Range(new)
    BY <1>1 DEF Range
  <2> QED
    BY <2>1, <2>2, <2>3
<1>4. ASSUME IsInjective(seq), x \notin Range(seq) PROVE IsInjective(new)
  BY <1>1, <1>2, <1>4 DEF IsInjective, Range
<1> QED
  BY <1>1, <1>3, <1>4 DEF new

LEMMA RangeHeadTail ==
    ASSUME NEW S, NEW seq \in Seq(S), seq # <<>>
    PROVE  Head(seq) \in Range(seq) /\ Range(Tail(seq)) \subseteq Range(seq)
BY DEF Range

LEMMA OwnAnswersStep == TypeInv /\ OwnAnswers /\ [Next]_vars => OwnAnswers'
<1> SUFFICES ASSUME TypeInv, OwnAnswers, [Next]_vars PROVE OwnAnswers'
  OBVIOUS
<1> USE DEF Generators
<1>1. CASE UNCHANGED <<param, answers>>
  BY <1>1 DEF OwnAnswers, AnswersOf
<1>2. ASSUME NEW g \in Generators, PrologInit(g) PROVE OwnAnswers'
  <2>1. \A order \in Answers[param[g]] : Range(order) \subseteq AnswersOf(param[g])
    BY DEF AnswersOf
  <2>2. \A h \in Generators : answers'[h] = answers[h] \/ (h = g /\ answers'[g] \in Answers[param[g]])
    BY <1>2 DEF TypeInv, TypeOK, PrologInit
  <2>3. UNCHANGED param
    BY <1>2 DEF PrologInit, screenVars
  <2> QED
    BY <2>1, <2>2, <2>3 DEF OwnAnswers, AnswersOf
<1>3. ASSUME NEW g \in Generators, CacheContains(g) \/ Broadcast(g) PROVE OwnAnswers'
  <2>1. Range(Tail(answers[g])) \subseteq Range(answers[g])
    BY <1>3, RangeHeadTail DEF TypeInv, TypeOK, HasSolution, CacheContains, Broadcast, Run
  <2> QED
    BY <1>3, <2>1 DEF TypeInv, TypeOK, OwnAnswers, CacheContains, Broadcast, screenVars, AnswersOf
<1> QED
  BY <1>1, <1>2, <1>3 DEF Next, MainStep, OnCreate, ExecutePendingBroadcasts, OnStartCommand,
     OnStartCommandStep, CompareParameters, StartThread, ChooseHandOver, FinishAnd, ExistingRequest,
     RebroadcastPattern, EndIteration, GeneratorStep, SearchStep, NewList, SetCurrent, LoadProlog,
     Alert, CheckSize, HasMoreSolutions, CheckCallback, RunCallback, Add, Finish,
     AbortThread, Throw, EndProcess,
     screenVars, genVars, vars

LEMMA SoloInvStep ==
    TypeInv /\ AbortHasCallback /\ OwnAnswers /\ SoloInv /\ [Next]_vars => SoloInv'
<1> SUFFICES ASSUME TypeInv, AbortHasCallback, OwnAnswers, SoloInv, [Next]_vars, ~overlap'
             PROVE  Alone' /\ \A k \in Generators : ListCorrect(k)'
  BY DEF SoloInv
<1> USE DEF Generators, Active
<1>1. CASE UNCHANGED <<param, cache, list, pc, answers, overlap>>
  BY <1>1 DEF SoloInv, Alone, ListCorrect, Solution, AnswersOf
<1>2. CASE StartThread
  <2>1. ~overlap /\ Active = {}
    BY <1>2 DEF StartThread
  <2>2. Alone'
    BY <1>2, <2>1 DEF TypeInv, TypeOK, HasRequest, StartThread, Alone, Working, Starting
  <2>3. ASSUME NEW k \in Generators PROVE ListCorrect(k)'
    BY <1>2, <2>1 DEF TypeInv, TypeOK, SoloInv, StartThread, ListCorrect, Solution, AnswersOf,
       screenVars, fieldVars
  <2> QED
    BY <2>2, <2>3
<1>3. ASSUME NEW g \in Generators, GeneratorStep(g)
      PROVE  Alone' /\ \A k \in Generators : ListCorrect(k)'
  <2>1. /\ ~overlap /\ param' = param
        /\ g \in Active /\ (pc[g] # "newList" => cache = g)
        /\ \A h \in Active : h = g
        /\ \A k \in Generators : ListCorrect(k)
    <3>1. ~overlap /\ param' = param /\ g \in Active
      BY <1>3 DEF TypeInv, TypeOK, GeneratorStep, SearchStep, NewList, SetCurrent, PrologInit,
         LoadProlog, Alert, CheckSize, HasMoreSolutions, CheckCallback, RunCallback, CacheContains,
         Add, Broadcast, Finish, Run, Working, Starting, Searching, screenVars, history
    <3> QED
      BY <3>1 DEF SoloInv, Alone
  <2>2. CASE NewList(g)
    BY <2>1, <2>2 DEF TypeInv, TypeOK, NewList, Run, Alone, ListCorrect, AnswersOf, screenVars
  <2>3. CASE SetCurrent(g) \/ PrologInit(g) \/ LoadProlog(g)
    <3>1. /\ pc'[g] \in {"init", "load", "alert", "size"}
          /\ \A k \in Generators \ {g} : pc'[k] = pc[k] /\ answers'[k] = answers[k]
          /\ UNCHANGED <<cache, list>>
      BY <2>3 DEF TypeInv, TypeOK, SetCurrent, PrologInit, LoadProlog, Run, fieldVars
    <3>2. pc[g] = "newList" \/ cache = g
      BY <2>1
    <3>3. Alone'
      BY <2>1, <2>3, <3>1, <3>2 DEF Alone, Working, SetCurrent, PrologInit, LoadProlog, Run
    <3>4. ASSUME NEW k \in Generators PROVE ListCorrect(k)'
      BY <2>1, <3>1 DEF ListCorrect, Solution, AnswersOf
    <3> QED
      BY <3>3, <3>4
  <2>4. CASE CheckSize(g)
    <3>1. Alone'
      BY <2>1, <2>4 DEF TypeInv, TypeOK, CheckSize, Run, Alone, fieldVars
    <3>2. ASSUME NEW k \in Generators PROVE ListCorrect(k)'
      BY <2>1, <2>4 DEF TypeInv, TypeOK, CheckSize, Run, ListCorrect, Solution, AnswersOf, fieldVars
    <3> QED
      BY <3>1, <3>2
  <2>5. CASE HasMoreSolutions(g) \/ CheckCallback(g)
    <3>1. Alone'
      BY <2>1, <2>5 DEF TypeInv, TypeOK, HasMoreSolutions, CheckCallback, Run, Alone, fieldVars
    <3>2. ASSUME NEW k \in Generators PROVE ListCorrect(k)'
      BY <2>1, <2>5 DEF TypeInv, TypeOK, HasMoreSolutions, CheckCallback, Run, ListCorrect, Solution,
         AnswersOf, fieldVars
    <3> QED
      BY <3>1, <3>2
  <2>6. CASE RunCallback(g)
    <3>1. Alone'
      <4> DEFINE next == finishCallback[g]
      <4>1. /\ next \in Generators /\ pc'[next] = "newList"
            /\ \A k \in Generators \ {g, next} : pc'[k] = pc[k]
            /\ g # next => pc'[g] = "replaced"
        BY <2>6 DEF TypeInv, TypeOK, AbortHasCallback, RunCallback
      <4>2. \A k \in Active' : k = next
        BY <2>1, <4>1 DEF Working, Starting, Searching
      <4> QED
        BY <4>1, <4>2 DEF Alone
    <3>2. ASSUME NEW k \in Generators PROVE ListCorrect(k)'
      BY <2>1, <2>6 DEF TypeInv, TypeOK, AbortHasCallback, RunCallback, ListCorrect, Solution,
         AnswersOf, fieldVars
    <3> QED
      BY <3>1, <3>2
  <2>7. CASE CacheContains(g)
    <3>1. pc[g] = "contains" /\ cache = g
      BY <2>1, <2>7 DEF CacheContains, Run
    <3> QED
      BY <2>1, <2>7, <3>1 DEF TypeInv, TypeOK, CacheContains, IsCached, Run, Alone, ListCorrect,
         Solution, AnswersOf, fieldVars
  <2>8. CASE Add(g)
    <3>1. pc[g] = "add" /\ cache = g
      BY <2>1, <2>8 DEF Add, Run
    <3>2. list' = [list EXCEPT ![g] = Append(list[g], Solution(g))]
      BY <2>1, <2>8, <3>1 DEF Add, Working, Searching
    <3>3. /\ Solution(g) \in AnswersOf(param[g]) /\ Solution(g) \in Patterns
          /\ list[g] \in Seq(Patterns)
      BY <3>1, HeadTail, RangeHeadTail DEF TypeInv, TypeOK, HasSolution, OwnAnswers, Solution, Lists
    <3>4. /\ list'[g] = Append(list[g], Solution(g))
          /\ pc'[g] = "broadcast"
          /\ \A k \in Generators \ {g} : list'[k] = list[k] /\ pc'[k] = pc[k]
          /\ answers' = answers /\ cache' = cache
      BY <2>8, <3>2 DEF TypeInv, TypeOK, Add, Run, Lists
    <3>5. ListCorrect(g)'
      <4> DEFINE old == list[g]  new == Append(list[g], Solution(g))
      <4>1. /\ Range(old) \subseteq AnswersOf(param[g]) /\ IsInjective(old) /\ Len(old) < Limit
            /\ Solution(g) \notin Range(old)
        BY <2>1, <3>1 DEF ListCorrect
      <4>2. Len(new) = Len(old) + 1 /\ Range(new) = Range(old) \cup {Solution(g)} /\ IsInjective(new)
        BY <3>3, <4>1, AppendNew
      <4>3. Len(new) <= Limit
        BY <3>3, <4>1, <4>2, LimitAssumption
      <4>4. Range(new) \subseteq AnswersOf(param[g])
        BY <3>3, <4>1, <4>2
      <4>5. AnswersOf(param[g])' = AnswersOf(param[g])
        BY <2>1 DEF AnswersOf
      <4> QED
        BY <3>4, <4>2, <4>3, <4>4, <4>5 DEF ListCorrect
    <3>6. ASSUME NEW k \in Generators \ {g} PROVE ListCorrect(k)'
      BY <2>1, <3>4 DEF ListCorrect, AnswersOf, Solution
    <3>7. Alone'
      BY <2>1, <3>1, <3>4 DEF Alone
    <3> QED
      BY <3>5, <3>6, <3>7
  <2>9. CASE Broadcast(g)
    BY <2>1, <2>9 DEF TypeInv, TypeOK, Broadcast, Run, Alone, ListCorrect, Solution, AnswersOf,
       fieldVars
  <2>10. CASE Finish(g)
    BY <2>1, <2>10 DEF TypeInv, TypeOK, Finish, Run, Alone, ListCorrect, Solution, AnswersOf,
       Working, Starting, Searching
  <2>11. CASE Alert(g)
    BY <2>1, <2>11 DEF TypeInv, TypeOK, Alert, Run, Alone, ListCorrect, Solution, AnswersOf,
       Working, Starting, Searching, fieldVars
  <2> QED
    BY <1>3, <2>2, <2>3, <2>4, <2>5, <2>6, <2>7, <2>8, <2>9, <2>10, <2>11 DEF GeneratorStep, SearchStep
<1> QED
  BY <1>1, <1>2, <1>3 DEF Next, MainStep, OnCreate, ExecutePendingBroadcasts, OnStartCommand,
     OnStartCommandStep, CompareParameters, ChooseHandOver, FinishAnd, ExistingRequest,
     RebroadcastPattern, EndIteration,
     AbortThread, Throw, EndProcess, screenVars, fieldVars, genVars, history, vars

\* As long as two generator threads never overlapped, the list of every search
\* holds only its own answers, each of them once, and at most Limit of them.
THEOREM SoloCacheCorrect == Spec => []CacheCorrect
<1> DEFINE Inv == TypeInv /\ AbortHasCallback /\ OwnAnswers /\ SoloInv
<1>1. Init => Inv
  <2> SUFFICES ASSUME Init PROVE Inv
    OBVIOUS
  <2>1. OwnAnswers /\ AbortHasCallback
    BY DEF Init, OwnAnswers, AbortHasCallback, Range
  <2>2. SoloInv
    BY LimitAssumption DEF Init, SoloInv, Alone, ListCorrect, Active, Working, Starting, Searching,
       Range, IsInjective, Lists, Generators
  <2> QED
    BY <2>1, <2>2, InitTypeInv
<1>2. Inv /\ [Next]_vars => Inv'
  BY TypeInvStep, AbortHasCallbackStep, OwnAnswersStep, SoloInvStep
<1>3. Inv => CacheCorrect
  BY DEF SoloInv, ListCorrect, CacheCorrect
<1> QED
  BY <1>1, <1>2, <1>3, PTL DEF Spec

-----------------------------------------------------------------------------
(***************************************************************************)
(* onStartCommand alone does not crash.  Undisturbed, what it found out    *)
(* about currentGenerator and about the size of the list still holds.      *)
(***************************************************************************)

Undisturbed ==
    ~disturbed => /\ mainPc \in {"compare", "handOver"} => currentGenerator # NoGen
                  /\ mainPc = "next" => ~ListChanged

LEMMA UndisturbedStep == TypeInv /\ Undisturbed /\ [Next]_vars => Undisturbed'
<1> SUFFICES ASSUME TypeInv, Undisturbed, [Next]_vars, ~disturbed'
             PROVE  /\ mainPc' \in {"compare", "handOver"} => currentGenerator' # NoGen
                    /\ mainPc' = "next" => ~ListChanged'
  BY DEF Undisturbed
<1> USE DEF Generators, ListChanged
<1>1. CASE UNCHANGED <<mainPc, currentGenerator, list, iterator, disturbed>>
  BY <1>1 DEF Undisturbed
<1>2. CASE ExecutePendingBroadcasts
  BY <1>2 DEF ExecutePendingBroadcasts
<1>3. CASE OnStartCommand
  BY <1>3 DEF OnStartCommand, Main, fieldVars
<1>4. CASE CompareParameters \/ StartThread \/ ChooseHandOver \/ FinishAnd \/ EndIteration
  BY <1>4 DEF CompareParameters, StartThread, ChooseHandOver, FinishAnd, EndIteration, Main, Return,
     Throws, fieldVars
<1>5. CASE ExistingRequest
  BY <1>5 DEF TypeInv, TypeOK, ExistingRequest, Main, fieldVars
<1>6. CASE RebroadcastPattern
  <2>1. iterator'.list = iterator.list /\ iterator'.size = iterator.size
    BY <1>6 DEF TypeInv, TypeOK, RebroadcastPattern
  <2> QED
    BY <1>6, <2>1 DEF RebroadcastPattern, Main, fieldVars
<1>7. ASSUME NEW g \in Generators, GeneratorStep(g)
      PROVE  /\ mainPc' \in {"compare", "handOver"} => currentGenerator' # NoGen
             /\ mainPc' = "next" => ~ListChanged'
  <2>1. CASE SetCurrent(g)
    BY <2>1, ScreensAssumption DEF Undisturbed, SetCurrent, mainVars, history
  <2>2. CASE Add(g) \/ Finish(g)
    BY <2>2 DEF Undisturbed, Add, Finish, Disturb, mainVars, InCommand
  <2> QED
    BY <1>1, <1>7, <2>1, <2>2 DEF GeneratorStep, SearchStep, NewList, PrologInit, LoadProlog, Alert,
       CheckSize, HasMoreSolutions, CheckCallback, RunCallback, CacheContains, Broadcast, mainVars,
       fieldVars, history
<1>8. ASSUME NEW g \in Generators, AbortThread(g) \/ Throw(g)
      PROVE  /\ mainPc' \in {"compare", "handOver"} => currentGenerator' # NoGen
             /\ mainPc' = "next" => ~ListChanged'
  BY <1>8 DEF AbortThread, Throw, EndProcess
<1> QED
  BY <1>1, <1>2, <1>3, <1>4, <1>5, <1>6, <1>7, <1>8 DEF Next, MainStep, OnCreate,
     OnStartCommandStep, mainVars, fieldVars, history, vars

LEMMA CrashStep ==
    TypeInv /\ Undisturbed /\ CrashNeedsInterference /\ [Next]_vars => CrashNeedsInterference'
<1> SUFFICES ASSUME TypeInv, Undisturbed, CrashNeedsInterference, [Next]_vars, mainPc' = "crashed"
             PROVE  disturbed'
  BY DEF CrashNeedsInterference
<1>1. CASE UNCHANGED vars
  BY <1>1 DEF CrashNeedsInterference, vars, mainVars, history
<1>2. ASSUME NEW s \in Screens, OnCreate(s) PROVE FALSE
  BY <1>2 DEF OnCreate, mainVars
<1>3. CASE MainStep
  BY <1>3 DEF Undisturbed, MainStep, ExecutePendingBroadcasts, OnStartCommand, OnStartCommandStep,
     CompareParameters, StartThread, ChooseHandOver, FinishAnd, ExistingRequest, RebroadcastPattern,
     EndIteration, Main, Return, Throws, history
<1>4. ASSUME NEW g \in Generators, GeneratorStep(g) PROVE FALSE
  BY <1>4 DEF GeneratorStep, SearchStep, NewList, SetCurrent, PrologInit, LoadProlog, Alert,
     CheckSize, HasMoreSolutions, CheckCallback, RunCallback, CacheContains, Add, Broadcast,
     Finish, Run, Alive, mainVars
<1>5. ASSUME NEW g \in Generators, AbortThread(g) \/ Throw(g) PROVE FALSE
  BY <1>5 DEF AbortThread, Throw, EndProcess
<1> QED
  BY <1>1, <1>2, <1>3, <1>4, <1>5 DEF Next

\* A start command that no generator disturbs neither dereferences null nor
\* iterates over a list that changes: whatever has failed, was replaced or has
\* overlapped before, the main thread throws for no other reason.
THEOREM CrashAlwaysNeedsInterference == Spec => []CrashNeedsInterference
<1> DEFINE Inv == TypeInv /\ Undisturbed /\ CrashNeedsInterference
<1>1. Init => Inv
  BY InitTypeInv DEF Init, Undisturbed, CrashNeedsInterference
<1>2. Inv /\ [Next]_vars => Inv'
  BY TypeInvStep, UndisturbedStep, CrashStep
<1>3. Inv => CrashNeedsInterference
  OBVIOUS
<1> QED
  BY <1>1, <1>2, <1>3, PTL DEF Spec

-----------------------------------------------------------------------------
(***************************************************************************)
(* What a screen is shown.  The invariants below are needed together.  A   *)
(* request is served at most once, so a generator starts with an empty     *)
(* list that is not yet the cache (Once, FreshLists); alone, the generator *)
(* at work is currentGenerator and the cache is its list, but for the      *)
(* moment between the stores of NewList and SetCurrent, when the cache is  *)
(* the empty list of the next one (CurrentInv).                            *)
(***************************************************************************)

LEMMA TailInjective ==
    ASSUME NEW S, NEW seq \in Seq(S), seq # <<>>, IsInjective(seq)
    PROVE  IsInjective(Tail(seq)) /\ Head(seq) \notin Range(Tail(seq))
<1>1. /\ DOMAIN seq = 1..Len(seq) /\ DOMAIN Tail(seq) = 1..Len(seq) - 1 /\ Len(seq) \in Nat \ {0}
      /\ Head(seq) = seq[1]
      /\ \A i \in 1..Len(seq) - 1 : Tail(seq)[i] = seq[i + 1]
  OBVIOUS
<1>2. \A i \in 1..Len(seq) - 1 : i + 1 \in 1..Len(seq) /\ i + 1 # 1 /\ 1 \in 1..Len(seq)
  BY <1>1
<1>3. IsInjective(Tail(seq))
  BY <1>1, <1>2 DEF IsInjective
<1>4. Head(seq) \notin Range(Tail(seq))
  BY <1>1, <1>2 DEF IsInjective, Range
<1> QED
  BY <1>3, <1>4

\* A start command waits in the queue once, while its screen has made no search.
QueueOnce ==
    /\ IsInjective(startQueue)
    /\ Range(startQueue) \subseteq registered
    /\ mainPc \in InCommand => request \in registered /\ request \notin Range(startQueue)

\* The request of a screen is still to come, waits, or is being handled.
Unserved(s) ==
    \/ s \notin registered
    \/ s \in Range(startQueue)
    \/ mainPc \in InCommand /\ request = s

\* Until then it has neither a thread nor a place as a callback; and a callback
\* that has been run belongs to a generator that was replaced.
RunsOnce ==
    /\ \A s \in Screens : Unserved(s) => pc[s] = "none" /\ \A g \in Generators : finishCallback[g] # s
    /\ \A g, h \in Generators : finishCallback[g] = finishCallback[h] => finishCallback[g] = NoGen \/ g = h
    /\ \A g \in Generators : pc[g] # "replaced" => finishCallback[g] = NoGen \/ pc[finishCallback[g]] = "none"
    /\ currentGenerator # NoGen => pc[currentGenerator] \notin {"none", "newList"}

Once == QueueOnce /\ RunsOnce

\* What the steps of a generator but RunCallback and SetCurrent do to these.
LEMMA OwnStep ==
    ASSUME TypeInv, NEW g \in Generators, GeneratorStep(g)
    PROVE  \/ RunCallback(g)
           \/ /\ pc[g] \notin {"none", "replaced", "done", "failed"}
              /\ pc' = [pc EXCEPT ![g] = pc'[g]] /\ pc'[g] \notin {"none", "newList", "replaced"}
              /\ \/ UNCHANGED currentGenerator
                 \/ SetCurrent(g) /\ currentGenerator' = g
                 \/ Finish(g) /\ currentGenerator' = NoGen
              /\ UNCHANGED finishCallback
BY DEF TypeInv, TypeOK, GeneratorStep, SearchStep, NewList, SetCurrent, PrologInit, LoadProlog, Alert,
   CheckSize, HasMoreSolutions, CheckCallback, CacheContains, Add, Broadcast, Finish, Run, fieldVars, Generators

LEMMA GeneratorFrame ==
    ASSUME NEW g \in Generators, GeneratorStep(g)
    PROVE  /\ UNCHANGED <<screenVars, startQueue, request, iterator>>
           /\ mainPc' = mainPc
           /\ mainPc \notin {"crashed", "killed"}
BY DEF GeneratorStep, SearchStep, NewList, SetCurrent, PrologInit, LoadProlog, Alert, RunCallback,
   CheckSize, HasMoreSolutions, CheckCallback, CacheContains, Add, Broadcast, Finish, Run, Alive, mainVars

LEMMA QueueOnceStep == TypeInv /\ QueueOnce /\ [Next]_vars => QueueOnce'
<1> SUFFICES ASSUME TypeInv, QueueOnce, [Next]_vars PROVE QueueOnce'
  OBVIOUS
<1>1. CASE UNCHANGED <<registered, startQueue, mainPc, request>>
  BY <1>1 DEF QueueOnce
<1>2. ASSUME NEW s \in Screens, OnCreate(s) PROVE QueueOnce'
  <2>1. Range(startQueue') = Range(startQueue) \cup {s} /\ IsInjective(startQueue')
    BY <1>2, AppendNew DEF TypeInv, TypeOK, OnCreate, QueueOnce
  <2> QED
    BY <1>2, <2>1 DEF OnCreate, QueueOnce, InCommand, mainVars
<1>3. CASE OnStartCommand
  <2>1. IsInjective(startQueue') /\ Head(startQueue) \notin Range(startQueue')
    BY <1>3, TailInjective DEF TypeInv, TypeOK, OnStartCommand, QueueOnce
  <2>2. Head(startQueue) \in registered /\ Range(startQueue') \subseteq registered
    BY <1>3, RangeHeadTail DEF TypeInv, TypeOK, OnStartCommand, QueueOnce
  <2> QED
    BY <1>3, <2>1, <2>2 DEF OnStartCommand, QueueOnce, screenVars
<1>4. CASE OnStartCommandStep \/ ExecutePendingBroadcasts
  BY <1>4 DEF QueueOnce, InCommand, OnStartCommandStep, CompareParameters, StartThread, ChooseHandOver,
     FinishAnd, ExistingRequest, RebroadcastPattern, EndIteration, ExecutePendingBroadcasts, Main,
     Return, Throws, screenVars
<1>5. ASSUME NEW g \in Generators, GeneratorStep(g) PROVE QueueOnce'
  BY <1>5, GeneratorFrame DEF QueueOnce, InCommand, screenVars
<1>6. ASSUME NEW g \in Generators, AbortThread(g) \/ Throw(g) PROVE QueueOnce'
  BY <1>6 DEF QueueOnce, InCommand, AbortThread, Throw, EndProcess, screenVars
<1> QED
  BY <1>1, <1>2, <1>3, <1>4, <1>5, <1>6 DEF Next, MainStep, mainVars, screenVars, vars

LEMMA RunsOnceStep ==
    TypeInv /\ AbortHasCallback /\ Once /\ [Next]_vars => RunsOnce'
<1> SUFFICES ASSUME TypeInv, AbortHasCallback, QueueOnce, RunsOnce, [Next]_vars PROVE RunsOnce'
  BY DEF Once
<1> USE DEF Generators
<1>1. CASE UNCHANGED <<registered, startQueue, mainPc, request, pc, finishCallback, currentGenerator>>
  BY <1>1 DEF RunsOnce, Unserved
<1>2. ASSUME NEW s \in Screens, OnCreate(s) PROVE RunsOnce'
  <2>1. Range(startQueue') = Range(startQueue) \cup {s}
    BY <1>2, AppendNew DEF TypeInv, TypeOK, OnCreate
  <2>2. \A r \in Screens : Unserved(r)' => Unserved(r)
    BY <1>2, <2>1 DEF OnCreate, Unserved, InCommand, mainVars
  <2> QED
    BY <1>2, <2>2 DEF RunsOnce, OnCreate, fieldVars, genVars
<1>3. CASE OnStartCommand
  <2>1. Head(startQueue) \in Range(startQueue) /\ Range(startQueue') \subseteq Range(startQueue)
    BY <1>3, RangeHeadTail DEF TypeInv, TypeOK, OnStartCommand
  <2>2. \A r \in Screens : Unserved(r)' => Unserved(r)
    BY <1>3, <2>1 DEF OnStartCommand, Unserved, screenVars
  <2> QED
    BY <1>3, <2>2 DEF RunsOnce, OnStartCommand, fieldVars, genVars
<1>4. CASE CompareParameters \/ ChooseHandOver \/ ExistingRequest \/ RebroadcastPattern \/ EndIteration
           \/ ExecutePendingBroadcasts
  <2>1. \A r \in Screens : Unserved(r)' => Unserved(r)
    BY <1>4 DEF Unserved, InCommand, CompareParameters, ChooseHandOver, ExistingRequest,
       RebroadcastPattern, EndIteration, ExecutePendingBroadcasts, Main, Return, Throws, screenVars
  <2>2. UNCHANGED <<pc, finishCallback, currentGenerator>>
    BY <1>4 DEF CompareParameters, ChooseHandOver, ExistingRequest,
       RebroadcastPattern, EndIteration, ExecutePendingBroadcasts, fieldVars, genVars
  <2> QED
    BY <2>1, <2>2 DEF RunsOnce
<1>5. CASE StartThread \/ FinishAnd
  <2>1. /\ request \in Screens /\ Unserved(request)
        /\ \A r \in Screens : Unserved(r)' => Unserved(r) /\ r # request
    BY <1>5 DEF QueueOnce, HasRequest, TypeInv, TypeOK, Unserved, InCommand, StartThread, FinishAnd,
       Main, Return, Throws, screenVars
  <2>2. CASE StartThread
    BY <2>1, <2>2 DEF TypeInv, TypeOK, RunsOnce, StartThread, fieldVars
  <2>3. CASE FinishAnd
    BY <2>1, <2>3 DEF TypeInv, TypeOK, RunsOnce, FinishAnd, fieldVars
  <2> QED
    BY <1>5, <2>2, <2>3
<1>6. ASSUME NEW g \in Generators, GeneratorStep(g) PROVE RunsOnce'
  <2>1. \A r \in Screens : Unserved(r)' => Unserved(r)
    BY <1>6, GeneratorFrame DEF Unserved, InCommand, screenVars
  <2>2. CASE RunCallback(g)
    <3> DEFINE h == finishCallback[g]
    <3>1. /\ h \in Generators /\ pc[g] = "abort" /\ pc[h] = "none" /\ h # g
          /\ pc' = [pc EXCEPT ![g] = "replaced", ![h] = "newList"]
          /\ UNCHANGED <<finishCallback, currentGenerator>>
      BY <2>2, ScreensAssumption DEF TypeInv, AbortHasCallback, RunsOnce, RunCallback, fieldVars
    <3>2. \A r \in Screens : Unserved(r) => r # h /\ r # g
      BY <3>1 DEF RunsOnce
    <3>3. /\ pc'[g] = "replaced" /\ pc'[h] = "newList"
          /\ \A k \in Generators \ {g, h} : pc'[k] = pc[k]
      BY <3>1 DEF TypeInv, TypeOK
    <3>4. \A k \in Generators : k # g => finishCallback[k] # h
      BY <3>1, ScreensAssumption DEF RunsOnce
    <3>5. ASSUME NEW k \in Generators, pc'[k] # "replaced"
          PROVE  finishCallback'[k] = NoGen \/ pc'[finishCallback'[k]] = "none"
      <4>1. k # g /\ (pc[k] # "replaced" \/ k = h)
        BY <3>3, <3>5
      <4>2. pc[k] # "replaced" /\ finishCallback[k] # h
        BY <3>1, <3>4, <4>1
      <4>3. CASE finishCallback[k] = NoGen
        BY <3>1, <4>3
      <4>4. CASE finishCallback[k] # NoGen
        <5>1. finishCallback[k] \in Generators /\ pc[finishCallback[k]] = "none"
          BY <4>2, <4>4 DEF RunsOnce, TypeInv, TypeOK
        <5> QED
          BY <3>1, <3>3, <4>2, <5>1
      <4> QED
        BY <4>3, <4>4
    <3>6. currentGenerator # NoGen => pc'[currentGenerator] \notin {"none", "newList"}
      BY <3>1, <3>3 DEF RunsOnce, TypeInv, TypeOK
    <3>7. ASSUME NEW r \in Screens, Unserved(r)'
          PROVE  pc'[r] = "none" /\ \A k \in Generators : finishCallback'[k] # r
      BY <2>1, <3>1, <3>2, <3>3, <3>7 DEF RunsOnce
    <3>8. \A k, l \in Generators :
            finishCallback'[k] = finishCallback'[l] => finishCallback'[k] = NoGen \/ k = l
      BY <3>1 DEF RunsOnce
    <3> QED
      BY <3>1, <3>5, <3>6, <3>7, <3>8 DEF RunsOnce
  <2>3. CASE ~RunCallback(g)
    <3>1. /\ pc[g] \notin {"none", "replaced"} /\ pc' = [pc EXCEPT ![g] = pc'[g]]
          /\ pc'[g] \notin {"none", "newList", "replaced"}
          /\ currentGenerator' \in {currentGenerator, g, NoGen}
          /\ UNCHANGED finishCallback
      BY <1>6, <2>3, OwnStep
    <3>2. /\ \A k \in Generators \ {g} : pc'[k] = pc[k]
          /\ \A k \in Generators : pc'[k] \in {"none", "newList", "replaced"} => pc'[k] = pc[k]
      BY <3>1 DEF TypeInv, TypeOK
    <3>3. ASSUME NEW r \in Screens, Unserved(r)'
          PROVE  pc'[r] = "none" /\ \A k \in Generators : finishCallback'[k] # r
      BY <2>1, <3>1, <3>2, <3>3 DEF RunsOnce
    <3>4. ASSUME NEW k \in Generators, pc'[k] # "replaced"
          PROVE  finishCallback'[k] = NoGen \/ pc'[finishCallback'[k]] = "none"
      <4>1. pc[k] # "replaced"
        BY <3>1, <3>2, <3>4
      <4>2. finishCallback[k] # NoGen => finishCallback[k] # g
        BY <3>1, <4>1 DEF RunsOnce
      <4> QED
        BY <3>1, <3>2, <4>1, <4>2 DEF RunsOnce, TypeInv, TypeOK
    <3>5. currentGenerator' # NoGen => pc'[currentGenerator'] \notin {"none", "newList"}
      BY <3>1, <3>2 DEF RunsOnce, TypeInv, TypeOK
    <3> QED
      BY <3>1, <3>3, <3>4, <3>5 DEF RunsOnce
  <2> QED
    BY <2>2, <2>3
<1>7. ASSUME NEW g \in Generators, AbortThread(g) \/ Throw(g) PROVE RunsOnce'
  BY <1>7 DEF RunsOnce, Unserved, InCommand, AbortThread, Throw, EndProcess, screenVars, fieldVars, genVars
<1> QED
  BY <1>1, <1>2, <1>3, <1>4, <1>5, <1>6, <1>7 DEF Next, MainStep, OnStartCommandStep, screenVars,
     mainVars, fieldVars, genVars, vars

\* Only NewList replaces the cache, only Add fills it; the history is kept.
LEMMA CacheFrame ==
    ASSUME TypeInv, [Next]_vars
    PROVE  /\ \/ UNCHANGED <<cache, list>>
              \/ \E g \in Generators : NewList(g)
              \/ \E g \in Generators : Add(g)
           /\ overlap => overlap'
           /\ UNCHANGED param
<1>1. CASE UNCHANGED vars
  BY <1>1 DEF vars, screenVars, fieldVars, history
<1>2. ASSUME NEW s \in Screens, OnCreate(s) PROVE UNCHANGED <<param, cache, list, overlap>>
  BY <1>2 DEF OnCreate, fieldVars, history
<1>3. CASE MainStep
  <2>1. UNCHANGED <<param, cache, list>> /\ (overlap' = overlap \/ StartThread)
    BY <1>3 DEF MainStep, ExecutePendingBroadcasts, OnStartCommand, OnStartCommandStep,
       CompareParameters, ChooseHandOver, StartThread, FinishAnd, ExistingRequest, RebroadcastPattern,
       EndIteration, screenVars, fieldVars, history
  <2>2. overlap => overlap'
    BY <2>1, Zenon DEF StartThread
  <2> QED
    BY <2>1, <2>2
<1>4. ASSUME NEW g \in Generators, GeneratorStep(g)
      PROVE  /\ UNCHANGED <<param, overlap>>
             /\ UNCHANGED <<cache, list>> \/ NewList(g) \/ Add(g)
  BY <1>4 DEF GeneratorStep, SearchStep, NewList, SetCurrent, PrologInit, LoadProlog, Alert, CheckSize,
     HasMoreSolutions, CheckCallback, RunCallback, CacheContains, Add, Broadcast, Finish, screenVars,
     fieldVars, history
<1>5. ASSUME NEW g \in Generators, AbortThread(g) \/ Throw(g) PROVE UNCHANGED <<param, cache, list, overlap>>
  BY <1>5 DEF AbortThread, Throw, EndProcess, screenVars, fieldVars, history
<1> QED
  BY <1>1, <1>2, <1>3, <1>4, <1>5 DEF Next

\* A step of pc: a thread starts for a request that had none, or runs on.
LEMMA PcFrame ==
    ASSUME TypeInv, AbortHasCallback, Once, [Next]_vars, NEW g \in Generators, pc'[g] # pc[g]
    PROVE  \/ StartThread /\ pc[g] = "none" /\ pc'[g] = "newList" /\ request = g
           \/ \E k \in Generators : /\ RunCallback(k) /\ g \in {k, finishCallback[k]} /\ k # finishCallback[k]
                                    /\ g = k => pc[g] = "abort" /\ pc'[g] = "replaced"
                                    /\ g # k => pc[g] = "none" /\ pc'[g] = "newList"
           \/ GeneratorStep(g) /\ ~RunCallback(g)
<1> USE DEF Generators
<1>1. UNCHANGED pc \/ StartThread \/ \E k \in Generators : GeneratorStep(k)
  BY DEF Next, MainStep, OnCreate, ExecutePendingBroadcasts, OnStartCommand, OnStartCommandStep,
     CompareParameters, ChooseHandOver, FinishAnd, ExistingRequest, RebroadcastPattern, EndIteration,
     AbortThread, Throw, EndProcess, genVars, vars
<1>2. CASE StartThread
  BY <1>2 DEF TypeInv, TypeOK, HasRequest, Once, RunsOnce, Unserved, StartThread, Main, Return, InCommand
<1>3. ASSUME NEW k \in Generators, GeneratorStep(k), RunCallback(k)
      PROVE  /\ RunCallback(k) /\ g \in {k, finishCallback[k]} /\ k # finishCallback[k]
             /\ g = k => pc[g] = "abort" /\ pc'[g] = "replaced"
             /\ g # k => pc[g] = "none" /\ pc'[g] = "newList"
  <2>1. finishCallback[k] \in Generators /\ pc[k] = "abort" /\ pc[finishCallback[k]] = "none"
    BY <1>3, ScreensAssumption DEF AbortHasCallback, Once, RunsOnce, RunCallback
  <2> QED
    BY <1>3, <2>1 DEF TypeInv, TypeOK, RunCallback
<1>4. ASSUME NEW k \in Generators, GeneratorStep(k), ~RunCallback(k)
      PROVE  GeneratorStep(g) /\ ~RunCallback(g)
  <2>1. pc' = [pc EXCEPT ![k] = pc'[k]]
    BY <1>4, OwnStep
  <2>2. g = k
    BY <2>1 DEF TypeInv, TypeOK
  <2> QED
    BY <1>4, <2>2
<1> QED
  BY <1>1, <1>2, <1>3, <1>4

-----------------------------------------------------------------------------
\* The list of a generator is empty, and not the cache, until it has started;
\* alone, it then becomes currentGenerator with an empty cache.
ListFresh(g) ==
    /\ pc[g] \in {"none", "newList"} => list[g] = <<>> /\ cache # g
    /\ ~overlap /\ pc[g] = "setCurrent" => list[g] = <<>>

FreshLists == \A g \in Generators : ListFresh(g)

LEMMA FreshListsStep ==
    TypeInv /\ AbortHasCallback /\ Once /\ SoloInv /\ FreshLists /\ [Next]_vars => FreshLists'
<1> SUFFICES ASSUME TypeInv, AbortHasCallback, Once, SoloInv, FreshLists, [Next]_vars,
                    NEW g \in Generators
             PROVE  ListFresh(g)'
  BY DEF FreshLists
<1> USE DEF Generators
<1>1. /\ pc'[g] \in {"none", "newList"} => pc[g] \in {"none", "newList"}
      /\ pc[g] = "newList" /\ pc'[g] # "newList" => pc'[g] = "setCurrent" /\ NewList(g)
      /\ pc'[g] = "setCurrent" => pc[g] \in {"newList", "setCurrent"}
  <2>1. CASE pc'[g] = pc[g]
    BY <2>1
  <2>2. CASE pc'[g] # pc[g] /\ GeneratorStep(g) /\ ~RunCallback(g)
    BY <2>2 DEF GeneratorStep, SearchStep, NewList, SetCurrent, PrologInit, LoadProlog, Alert, CheckSize,
       HasMoreSolutions, CheckCallback, CacheContains, Add, Broadcast, Finish, Run, TypeInv, TypeOK
  <2>3. CASE pc'[g] # pc[g] /\ ~(GeneratorStep(g) /\ ~RunCallback(g))
    BY <2>3, PcFrame
  <2> QED
    BY <2>1, <2>2, <2>3
<1>2. CASE UNCHANGED <<cache, list>>
  <2>1. ~NewList(g)
    BY <1>2 DEF NewList, FreshLists, ListFresh, Run
  <2> QED
    BY <1>1, <1>2, <2>1, CacheFrame DEF FreshLists, ListFresh
<1>3. ASSUME NEW k \in Generators, NewList(k) PROVE ListFresh(g)'
  BY <1>1, <1>3, CacheFrame DEF TypeInv, TypeOK, FreshLists, ListFresh, NewList, Run
<1>4. ASSUME NEW k \in Generators, Add(k) PROVE ListFresh(g)'
  <2>1. /\ cache' = cache /\ \A l \in Lists \ {cache} : list'[l] = list[l]
        /\ pc[k] = "add" /\ pc' = [pc EXCEPT ![k] = "broadcast"] /\ UNCHANGED overlap
    BY <1>4 DEF TypeInv, TypeOK, Add, Run
  <2>2. CASE pc'[g] \in {"none", "newList"}
    <3>1. g \in Lists \ {cache} /\ list[g] = <<>>
      BY <1>1, <2>2 DEF FreshLists, ListFresh, Lists
    <3> QED
      BY <2>1, <2>2, <3>1 DEF ListFresh
  <2>3. CASE pc'[g] = "setCurrent" /\ ~overlap'
    <3>1. g # k /\ pc[g] = "setCurrent" /\ ~overlap
      BY <2>1, <2>3 DEF TypeInv, TypeOK
    <3>2. FALSE
      BY <2>1, <3>1 DEF SoloInv, Alone, Active, Working, Starting, Searching
    <3> QED
      BY <3>2
  <2> QED
    BY <2>2, <2>3 DEF ListFresh
<1> QED
  BY <1>2, <1>3, <1>4, CacheFrame

-----------------------------------------------------------------------------
\* Alone, a generator that has started is currentGenerator; and the cache is the
\* list of currentGenerator, or the empty one that will replace it.
CurrentInv ==
    ~overlap =>
        /\ \A g \in Active : pc[g] \notin Starting => currentGenerator = g
        /\ currentGenerator # NoGen /\ cache # currentGenerator => list[cache] = <<>>

LEMMA CurrentInvStep ==
    TypeInv /\ AbortHasCallback /\ Once /\ SoloInv /\ FreshLists /\ CurrentInv /\ [Next]_vars
        => CurrentInv'
<1> SUFFICES ASSUME TypeInv, AbortHasCallback, Once, SoloInv, FreshLists, CurrentInv, [Next]_vars,
                    ~overlap'
             PROVE  /\ \A g \in Active' : pc'[g] \notin Starting => currentGenerator' = g
                    /\ currentGenerator' # NoGen /\ cache' # currentGenerator' => list'[cache'] = <<>>
  BY DEF CurrentInv
<1> USE DEF Generators
<1>1. ~overlap /\ Alone
  BY CacheFrame DEF SoloInv
<1>2. ASSUME NEW g \in Active', pc'[g] \notin Starting PROVE currentGenerator' = g
  <2>1. CASE pc'[g] = pc[g]
    <3>1. g \in Active /\ currentGenerator = g
      BY <1>1, <1>2, <2>1 DEF Active, CurrentInv
    <3>2. ASSUME NEW k \in Generators, SetCurrent(k) \/ Finish(k) PROVE FALSE
      BY <1>1, <2>1, <3>1, <3>2 DEF Alone, Active, SetCurrent, Finish, Run, Working, Starting, TypeInv, TypeOK
    <3>3. UNCHANGED currentGenerator
      BY <3>2 DEF Next, MainStep, OnCreate, ExecutePendingBroadcasts, OnStartCommand, OnStartCommandStep,
         CompareParameters, StartThread, ChooseHandOver, FinishAnd, ExistingRequest, RebroadcastPattern,
         EndIteration, GeneratorStep, SearchStep, NewList, PrologInit, LoadProlog, Alert, CheckSize,
         HasMoreSolutions, CheckCallback, RunCallback, CacheContains, Add, Broadcast,
         AbortThread, Throw, EndProcess,
         fieldVars, vars
    <3> QED
      BY <3>1, <3>3
  <2>2. CASE pc'[g] # pc[g]
    <3>1. GeneratorStep(g) /\ ~RunCallback(g)
      BY <1>2, <2>2, PcFrame DEF Active, Working, Starting, Searching
    <3>2. CASE SetCurrent(g)
      BY <3>2 DEF SetCurrent
    <3>3. CASE ~SetCurrent(g)
      <4>1. UNCHANGED currentGenerator /\ g \in Active /\ pc[g] \notin Starting
        BY <1>2, <3>1, <3>3 DEF Active, GeneratorStep, SearchStep, NewList, PrologInit, LoadProlog, Alert,
           CheckSize, HasMoreSolutions, CheckCallback, CacheContains, Add, Broadcast, Finish, Run,
           Working, Starting, Searching, TypeInv, TypeOK, fieldVars
      <4> QED
        BY <1>1, <4>1 DEF CurrentInv
    <3> QED
      BY <3>2, <3>3
  <2> QED
    BY <2>1, <2>2
<1>3. ASSUME currentGenerator' # NoGen, cache' # currentGenerator' PROVE list'[cache'] = <<>>
  <2>1. ASSUME NEW g \in Generators, SetCurrent(g) PROVE FALSE
    BY <1>1, <1>3, <2>1 DEF Alone, Active, SetCurrent, Run, Working, Starting
  <2>2. UNCHANGED currentGenerator
    BY <1>3, <2>1 DEF Next, MainStep, OnCreate, ExecutePendingBroadcasts, OnStartCommand, OnStartCommandStep,
       CompareParameters, StartThread, ChooseHandOver, FinishAnd, ExistingRequest, RebroadcastPattern,
       EndIteration, GeneratorStep, SearchStep, NewList, PrologInit, LoadProlog, Alert, CheckSize,
       HasMoreSolutions, CheckCallback, RunCallback, CacheContains, Add, Broadcast, Finish,
       AbortThread, Throw, EndProcess,
       fieldVars, vars
  <2>3. CASE UNCHANGED <<cache, list>>
    BY <1>1, <1>3, <2>2, <2>3 DEF CurrentInv
  <2>4. ASSUME NEW g \in Generators, NewList(g) PROVE list'[cache'] = <<>>
    BY <2>4 DEF NewList, Run, FreshLists, ListFresh
  <2>5. ASSUME NEW g \in Generators, Add(g) PROVE FALSE
    BY <1>1, <1>3, <2>2, <2>5 DEF Alone, Active, CurrentInv, Add, Run, Working, Starting, Searching
  <2> QED
    BY <2>3, <2>4, <2>5, CacheFrame
<1> QED
  BY <1>2, <1>3

-----------------------------------------------------------------------------
(***************************************************************************)
(* What existingRequest iterates over, and how large a cache may get.      *)
(***************************************************************************)

OwnIteration ==
    ~disturbed /\ ~overlap =>
        /\ mainPc = "iterate" => Range(list[cache]) \subseteq AnswersOf(param[request])
        /\ mainPc = "next" => Range(list[iterator.list]) \subseteq AnswersOf(param[request])

LEMMA EmptyRange == Range(<<>>) = {}
BY DEF Range

LEMMA OwnIterationStep ==
    TypeInv /\ Once /\ SoloInv /\ FreshLists /\ CurrentInv /\ OwnIteration /\ [Next]_vars => OwnIteration'
<1> SUFFICES ASSUME TypeInv, Once, SoloInv, FreshLists, CurrentInv, OwnIteration, [Next]_vars,
                    ~disturbed', ~overlap'
             PROVE  /\ mainPc' = "iterate" => Range(list'[cache']) \subseteq AnswersOf(param'[request'])
                    /\ mainPc' = "next" => Range(list'[iterator'.list]) \subseteq AnswersOf(param'[request'])
  BY DEF OwnIteration, AnswersOf
<1> USE DEF Generators
<1>1. ~overlap /\ UNCHANGED param
  BY CacheFrame
<1>2. CASE UNCHANGED <<mainPc, request, iterator, cache, list, disturbed>>
  BY <1>1, <1>2 DEF OwnIteration
<1>3. CASE OnStartCommand \/ ExecutePendingBroadcasts \/ StartThread \/ ChooseHandOver \/ FinishAnd
           \/ EndIteration
  BY <1>3 DEF OnStartCommand, ExecutePendingBroadcasts, StartThread, ChooseHandOver, FinishAnd,
     EndIteration, Main, Return, Throws
<1>4. CASE CompareParameters
  <2>1. /\ mainPc' \in {"crashed", "iterate", "start"} /\ UNCHANGED <<request, cache, list>>
        /\ mainPc' = "iterate" => currentGenerator \in Generators /\ param[currentGenerator] = param[request]
    BY <1>4 DEF TypeInv, TypeOK, CompareParameters, Main, fieldVars
  <2>2. ASSUME mainPc' = "iterate" PROVE Range(list[cache]) \subseteq AnswersOf(param[request])
    <3>1. CASE cache = currentGenerator
      BY <1>1, <2>1, <2>2, <3>1 DEF SoloInv, ListCorrect
    <3>2. CASE cache # currentGenerator
      <4>1. list[cache] = <<>>
        BY <1>1, <2>1, <2>2, <3>2, ScreensAssumption DEF CurrentInv
      <4> QED
        BY <4>1, EmptyRange
    <3> QED
      BY <3>1, <3>2
  <2> QED
    BY <1>1, <2>1, <2>2
<1>5. CASE ExistingRequest
  BY <1>1, <1>5 DEF OwnIteration, ExistingRequest, Main, fieldVars, history
<1>6. CASE RebroadcastPattern
  <2>1. iterator'.list = iterator.list
    BY <1>6 DEF TypeInv, TypeOK, RebroadcastPattern
  <2> QED
    BY <1>1, <1>6, <2>1 DEF OwnIteration, RebroadcastPattern, Main, fieldVars, history
<1>7. ASSUME NEW g \in Generators, GeneratorStep(g)
      PROVE  /\ mainPc' = "iterate" => Range(list'[cache']) \subseteq AnswersOf(param'[request'])
             /\ mainPc' = "next" => Range(list'[iterator'.list]) \subseteq AnswersOf(param'[request'])
  <2>1. UNCHANGED <<request, iterator>> /\ mainPc' \in {mainPc, "crashed"}
    BY <1>7, GeneratorFrame
  <2>2. CASE NewList(g)
    <3>1. list'[cache'] = <<>> /\ UNCHANGED <<mainPc, list, disturbed>>
      BY <2>2 DEF NewList, Run, FreshLists, ListFresh, mainVars, history
    <3> QED
      BY <1>1, <2>1, <3>1, EmptyRange DEF OwnIteration
  <2>3. CASE Add(g) \/ Finish(g)
    BY <2>3 DEF Add, Finish, Disturb, InCommand, mainVars
  <2>4. CASE ~NewList(g) /\ ~Add(g) /\ ~Finish(g)
    <3>1. UNCHANGED <<cache, list, disturbed>>
      BY <1>7, <2>4 DEF GeneratorStep, SearchStep, SetCurrent, PrologInit, LoadProlog, Alert, CheckSize,
         HasMoreSolutions, CheckCallback, RunCallback, CacheContains, Broadcast, fieldVars, history
    <3> QED
      BY <1>1, <2>1, <3>1 DEF OwnIteration
  <2> QED
    BY <2>2, <2>3, <2>4
<1>8. ASSUME NEW g \in Generators, AbortThread(g) \/ Throw(g) PROVE mainPc' = "killed"
  BY <1>8 DEF AbortThread, Throw, EndProcess
<1>9. ASSUME NEW s \in Screens, OnCreate(s) PROVE UNCHANGED <<mainPc, request, iterator, cache, list, disturbed>>
  BY <1>9 DEF OnCreate, mainVars, fieldVars, history
<1> QED
  BY <1>2, <1>3, <1>4, <1>5, <1>6, <1>7, <1>8, <1>9 DEF Next, MainStep, OnStartCommandStep, vars,
     mainVars, fieldVars, history

-----------------------------------------------------------------------------
\* The generators that have seen the size of the cache and not yet added to it.
Checked == {g \in Generators : pc[g] \in {"hasMore", "check", "contains", "add"}}

\* Each of them may still add one pattern.
Room ==
    /\ CacheOvershootBounded
    /\ Len(list[cache]) + Cardinality(Checked) < Limit + Cardinality(Generators)

LEMMA CheckedFinite ==
    ASSUME NEW G \in SUBSET Generators
    PROVE  IsFiniteSet(G) /\ Cardinality(G) \in Nat /\ Cardinality(G) <= Cardinality(Generators)
           /\ Cardinality(Generators) \in Nat
BY ScreensAssumption, FS_Subset, FS_CardinalityType DEF Generators

LEMMA RoomStep ==
    TypeInv /\ AbortHasCallback /\ Once /\ FreshLists /\ Room /\ [Next]_vars => Room'
<1> SUFFICES ASSUME TypeInv, AbortHasCallback, Once, FreshLists, Room, [Next]_vars PROVE Room'
  OBVIOUS
<1> DEFINE N == Cardinality(Generators)
           c == Cardinality(Checked)
<1>1. /\ N \in Nat /\ c \in Nat /\ c <= N
      /\ Cardinality(Checked') \in Nat /\ Cardinality(Checked') <= N
      /\ IsFiniteSet(Checked) /\ IsFiniteSet(Checked')
  BY CheckedFinite DEF Checked
<1>2. /\ cache \in Lists /\ cache' \in Lists /\ \A l \in Lists : Len(list[l]) \in Nat
      /\ Limit \in Nat \ {0}
  BY TypeInvStep, LimitAssumption DEF TypeInv, TypeOK
<1>3. \A l \in Lists : Len(list[l]) < Limit + N
  BY DEF Room, CacheOvershootBounded
<1>4. Len(list[cache]) + c < Limit + N
  BY DEF Room
<1>5. ASSUME UNCHANGED <<cache, list>>, Checked' \subseteq Checked PROVE Room'
  <2>1. Cardinality(Checked') <= c
    BY <1>1, <1>5, FS_Subset
  <2>2. Len(list'[cache']) + Cardinality(Checked') < Limit + N
    BY <1>1, <1>2, <1>4, <1>5, <2>1
  <2>3. \A l \in Lists : Len(list'[l]) < Limit + N
    BY <1>3, <1>5
  <2> QED
    BY <2>2, <2>3 DEF Room, CacheOvershootBounded
<1>6. ASSUME NEW g \in Generators, CheckSize(g) PROVE Room'
  <2>1. UNCHANGED <<cache, list>> /\ (Len(list[cache]) < Limit \/ Checked' \subseteq Checked)
    BY <1>6 DEF TypeInv, TypeOK, CheckSize, Run, Checked, fieldVars
  <2>2. CASE Len(list[cache]) < Limit
    <3>1. Len(list'[cache']) + Cardinality(Checked') < Limit + N
      BY <1>1, <1>2, <2>1, <2>2
    <3>2. \A l \in Lists : Len(list'[l]) < Limit + N
      BY <1>3, <2>1
    <3> QED
      BY <3>1, <3>2 DEF Room, CacheOvershootBounded
  <2> QED
    BY <1>5, <2>1, <2>2
<1>7. ASSUME NEW g \in Generators, NewList(g) PROVE Room'
  <2>1. list'[cache'] = <<>> /\ UNCHANGED list
    BY <1>7 DEF NewList, Run, FreshLists, ListFresh
  <2>2. Len(list'[cache']) + Cardinality(Checked') < Limit + N
    BY <1>1, <1>2, <2>1
  <2>3. \A l \in Lists : Len(list'[l]) < Limit + N
    BY <1>3, <2>1
  <2> QED
    BY <2>2, <2>3 DEF Room, CacheOvershootBounded
<1>8. ASSUME NEW g \in Generators, Add(g) PROVE Room'
  <2>1. /\ g \in Checked /\ Checked' = Checked \ {g}
        /\ cache' = cache
        /\ list' = list \/ list' = [list EXCEPT ![cache] = Append(@, Solution(g))]
    BY <1>8 DEF TypeInv, TypeOK, Add, Run, Checked
  <2>2. Cardinality(Checked') = c - 1
    BY <1>1, <2>1, FS_RemoveElement
  <2>3. Len(list'[cache]) <= Len(list[cache]) + 1 /\ \A l \in Lists \ {cache} : list'[l] = list[l]
    <3>1. Solution(g) \in Patterns
      BY <1>8, HeadTail DEF TypeInv, TypeOK, HasSolution, Add, Run, Solution
    <3>2. list[cache] \in Seq(Patterns)
      BY <1>2 DEF TypeInv, TypeOK
    <3>3. Len(Append(list[cache], Solution(g))) = Len(list[cache]) + 1
      BY <3>1, <3>2, AppendNew
    <3> QED
      BY <1>2, <2>1, <3>3 DEF TypeInv, TypeOK
  <2>4. Len(list'[cache]) \in Nat
    BY <1>2, TypeInvStep DEF TypeInv, TypeOK
  <2>5. Len(list'[cache']) + Cardinality(Checked') < Limit + N
    BY <1>1, <1>2, <1>4, <2>1, <2>2, <2>3, <2>4
  <2>6. \A l \in Lists : Len(list'[l]) < Limit + N
    <3>1. Len(list'[cache]) < Limit + N
      BY <1>1, <1>2, <2>1, <2>4, <2>5
    <3> QED
      BY <1>3, <2>3, <3>1
  <2> QED
    BY <2>5, <2>6 DEF Room, CacheOvershootBounded
<1>9. ASSUME ~\E g \in Generators : CheckSize(g) \/ NewList(g) \/ Add(g) PROVE Room'
  <2>1. UNCHANGED <<cache, list>>
    BY <1>9, CacheFrame
  <2>2. ASSUME NEW g \in Checked' PROVE g \in Checked
    <3>1. CASE pc'[g] = pc[g]
      BY <3>1 DEF Checked
    <3>2. CASE pc'[g] # pc[g]
      <4>1. g \in Generators /\ pc'[g] \in {"hasMore", "check", "contains", "add"}
        BY DEF Checked
      <4>2. GeneratorStep(g) /\ ~RunCallback(g)
        BY <3>2, <4>1, PcFrame
      <4> QED
        BY <1>9, <4>1, <4>2 DEF GeneratorStep, SearchStep, SetCurrent, PrologInit, LoadProlog, Alert,
           HasMoreSolutions, CheckCallback, CacheContains, Broadcast, Finish, Run, Checked,
           TypeInv, TypeOK
    <3> QED
      BY <3>1, <3>2
  <2> QED
    BY <1>5, <2>1, <2>2
<1> QED
  BY <1>6, <1>7, <1>8, <1>9

-----------------------------------------------------------------------------
(***************************************************************************)
(* The broadcasts on their way to a screen.                                *)
(***************************************************************************)

\* Who a broadcast goes to, what a screen shows before it exists, who shares the
\* parameters of a request that is answered from the cache, and what a generator
\* is about to send.
Channels ==
    /\ \A n \in DOMAIN broadcasts : broadcasts[n].receivers \subseteq registered
    /\ \A s \in Screens : s \notin registered => shown[s] = <<>>
    /\ mainPc \in {"iterate", "next"} => ~Single(request)
    /\ ~overlap => \A g \in Generators :
                      pc[g] = "broadcast" => list[g] # <<>> /\ list[g][Len(list[g])] = Solution(g)

LEMMA BroadcastFrame ==
    ASSUME [Next]_vars
    PROVE  \/ UNCHANGED <<shown, broadcasts>>
           \/ ExecutePendingBroadcasts
           \/ RebroadcastPattern
           \/ \E g \in Generators : Broadcast(g)
BY DEF Next, MainStep, OnCreate, ExecutePendingBroadcasts, OnStartCommand, OnStartCommandStep,
   CompareParameters, StartThread, ChooseHandOver, FinishAnd, ExistingRequest, EndIteration,
   GeneratorStep, SearchStep, NewList, SetCurrent, PrologInit, LoadProlog, Alert, CheckSize,
   HasMoreSolutions, CheckCallback, RunCallback, CacheContains, Add, Finish,
   AbortThread, Throw, EndProcess, screenVars, vars

LEMMA BroadcastSeq ==
    ASSUME TypeInv
    PROVE  /\ Len(broadcasts) \in Nat /\ DOMAIN broadcasts = 1..Len(broadcasts)
           /\ \A n \in DOMAIN broadcasts : broadcasts[n] \in Broadcasts
           /\ \A x \in Broadcasts :
                /\ Len(Append(broadcasts, x)) = Len(broadcasts) + 1
                /\ DOMAIN Append(broadcasts, x) = 1..Len(broadcasts) + 1
                /\ \A n \in DOMAIN broadcasts : Append(broadcasts, x)[n] = broadcasts[n]
                /\ Append(broadcasts, x)[Len(broadcasts) + 1] = x
           /\ broadcasts # <<>> =>
                /\ Len(broadcasts) >= 1 /\ Len(Tail(broadcasts)) = Len(broadcasts) - 1
                /\ DOMAIN Tail(broadcasts) = 1..Len(broadcasts) - 1
                /\ \A n \in 1..Len(broadcasts) - 1 : Tail(broadcasts)[n] = broadcasts[n + 1]
                /\ Head(broadcasts) = broadcasts[1]
BY DEF TypeInv, TypeOK

\* What RebroadcastPattern and Broadcast append.
LEMMA Sends ==
    ASSUME TypeInv
    PROVE  /\ RebroadcastPattern =>
                /\ iterator.list \in Lists /\ iterator.next \in DOMAIN list[iterator.list]
                /\ request \in Screens /\ iterator.next <= iterator.size
                /\ broadcasts' = Append(broadcasts,
                      [pattern |-> list[iterator.list][iterator.next], params |-> param[request],
                       receivers |-> registered])
                /\ [pattern |-> list[iterator.list][iterator.next], params |-> param[request],
                       receivers |-> registered] \in Broadcasts
           /\ \A g \in Generators : Broadcast(g) =>
                /\ broadcasts' = Append(broadcasts,
                      [pattern |-> Solution(g), params |-> param[g], receivers |-> registered])
                /\ [pattern |-> Solution(g), params |-> param[g], receivers |-> registered] \in Broadcasts
<1>1. ASSUME RebroadcastPattern
      PROVE  /\ iterator.list \in Lists /\ iterator.next \in DOMAIN list[iterator.list]
             /\ request \in Screens /\ iterator.next <= iterator.size
             /\ list[iterator.list][iterator.next] \in Patterns
  <2>1. iterator.list \in Lists /\ iterator.next \in Nat \ {0} /\ iterator.size \in Nat
    BY DEF TypeInv, TypeOK
  <2>2. list[iterator.list] \in Seq(Patterns)
    BY <2>1 DEF TypeInv, TypeOK
  <2>3. iterator.next \in 1..Len(list[iterator.list]) /\ iterator.next <= iterator.size
    BY <1>1, <2>1 DEF TypeInv, TypeOK, RebroadcastPattern, IteratorDone, ListChanged
  <2> QED
    BY <1>1, <2>1, <2>2, <2>3 DEF TypeInv, HasRequest, RebroadcastPattern, Main, InCommand
<1>2. ASSUME NEW g \in Generators, Broadcast(g) PROVE Solution(g) \in Patterns
  BY <1>2, HeadTail DEF TypeInv, TypeOK, HasSolution, Broadcast, Run, Solution
<1> QED
  BY <1>1, <1>2 DEF TypeInv, TypeOK, RebroadcastPattern, Broadcast, BroadcastPattern, Broadcasts, Generators

\* The screens only grow in number, and only by OnCreate.
LEMMA RegisteredFrame ==
    ASSUME [Next]_vars
    PROVE  /\ registered \subseteq registered'
           /\ \A s \in registered' \ registered : OnCreate(s)
BY DEF Next, MainStep, OnCreate, ExecutePendingBroadcasts, OnStartCommand, OnStartCommandStep,
   CompareParameters, StartThread, ChooseHandOver, FinishAnd, ExistingRequest, RebroadcastPattern,
   EndIteration, GeneratorStep, SearchStep, NewList, SetCurrent, PrologInit, LoadProlog, Alert,
   CheckSize, HasMoreSolutions, CheckCallback, RunCallback, CacheContains, Add, Broadcast, Finish,
   AbortThread, Throw, EndProcess, screenVars, vars

LEMMA ChannelsStep ==
    TypeInv /\ AbortHasCallback /\ Once /\ SoloInv /\ FreshLists /\ Channels /\ [Next]_vars => Channels'
<1> SUFFICES ASSUME TypeInv, AbortHasCallback, Once, SoloInv, FreshLists, Channels, [Next]_vars
             PROVE  Channels'
  OBVIOUS
<1> USE DEF Generators
<1>1. ASSUME NEW n \in DOMAIN broadcasts' PROVE broadcasts'[n].receivers \subseteq registered'
  <2>1. CASE UNCHANGED broadcasts
    BY <2>1, <1>1, RegisteredFrame DEF Channels
  <2>2. CASE ExecutePendingBroadcasts
    <3>1. broadcasts # <<>> /\ broadcasts' = Tail(broadcasts)
      BY <2>2 DEF ExecutePendingBroadcasts
    <3>2. n + 1 \in DOMAIN broadcasts /\ broadcasts'[n] = broadcasts[n + 1]
      BY <1>1, <3>1, BroadcastSeq
    <3> QED
      BY <3>2, RegisteredFrame DEF Channels
  <2>3. ASSUME NEW x \in Broadcasts, broadcasts' = Append(broadcasts, x), x.receivers = registered
        PROVE  broadcasts'[n].receivers \subseteq registered'
    <3>1. (n \in DOMAIN broadcasts /\ broadcasts'[n] = broadcasts[n]) \/ broadcasts'[n] = x
      BY <1>1, <2>3, BroadcastSeq
    <3> QED
      BY <2>3, <3>1, RegisteredFrame DEF Channels
  <2>4. CASE RebroadcastPattern
    BY <2>3, <2>4, Sends
  <2>5. ASSUME NEW g \in Generators, Broadcast(g) PROVE broadcasts'[n].receivers \subseteq registered'
    BY <2>3, <2>5, Sends
  <2> QED
    BY <2>1, <2>2, <2>4, <2>5, BroadcastFrame
<1>2. ASSUME NEW s \in Screens, s \notin registered' PROVE shown'[s] = <<>>
  <2>1. s \notin registered /\ shown[s] = <<>>
    BY <1>2, RegisteredFrame DEF Channels
  <2>2. CASE ExecutePendingBroadcasts
    <3>1. 1 \in DOMAIN broadcasts /\ Head(broadcasts) = broadcasts[1]
      BY <2>2, BroadcastSeq DEF ExecutePendingBroadcasts
    <3>2. ~Accepts(s, Head(broadcasts))
      BY <2>1, <3>1 DEF Channels, Accepts
    <3> QED
      BY <2>1, <2>2, <3>2 DEF ExecutePendingBroadcasts
  <2>3. CASE UNCHANGED shown
    BY <2>1, <2>3
  <2> QED
    BY <2>2, <2>3, BroadcastFrame DEF RebroadcastPattern, Broadcast, screenVars
<1>3. ASSUME mainPc' \in {"iterate", "next"} PROVE ~Single(request)'
  <2>1. /\ registered \subseteq registered' /\ param' = param /\ request' = request
        /\ mainPc \in {"iterate", "next"} \/ CompareParameters
    BY <1>3, RegisteredFrame, CacheFrame, GeneratorFrame DEF Next, MainStep, OnCreate,
       ExecutePendingBroadcasts, OnStartCommand,
       OnStartCommandStep, CompareParameters, StartThread, ChooseHandOver, FinishAnd, ExistingRequest,
       RebroadcastPattern, EndIteration, AbortThread, Throw, EndProcess, Main, Return, Throws, mainVars, vars
  <2>2. CASE mainPc \in {"iterate", "next"}
    BY <2>1, <2>2 DEF Channels, Single
  <2>3. CASE CompareParameters
    <3>1. /\ currentGenerator \in Generators /\ param[currentGenerator] = param[request]
          /\ mainPc = "compare" /\ request \in Screens
      BY <1>3, <2>3 DEF TypeInv, TypeOK, HasRequest, CompareParameters, Main, InCommand
    <3>2. pc[request] = "none" /\ pc[currentGenerator] # "none"
      BY <3>1, ScreensAssumption DEF Once, RunsOnce, Unserved, InCommand
    <3>3. currentGenerator \in registered \ {request}
      BY <3>1, <3>2 DEF Once, RunsOnce, Unserved
    <3> QED
      BY <2>1, <3>1, <3>3 DEF Single
  <2> QED
    BY <2>1, <2>2, <2>3
<1>4. ASSUME ~overlap', NEW g \in Generators, pc'[g] = "broadcast"
      PROVE  list'[g] # <<>> /\ list'[g][Len(list'[g])] = Solution(g)'
  <2>1. ~overlap /\ Alone
    BY <1>4, CacheFrame DEF SoloInv
  <2>2. CASE pc[g] = "broadcast"
    <3>1. list[g] # <<>> /\ list[g][Len(list[g])] = Solution(g)
      BY <2>1, <2>2 DEF Channels
    <3>2. ASSUME NEW k \in Generators, GeneratorStep(k) PROVE FALSE
      <4>1. k \in Active /\ g \in Active
        BY <2>2, <3>2 DEF GeneratorStep, SearchStep, NewList, SetCurrent, PrologInit, LoadProlog, Alert,
           CheckSize, HasMoreSolutions, CheckCallback, RunCallback, CacheContains, Add, Broadcast, Finish,
           Run, Active, Working, Starting, Searching
      <4>2. k = g
        BY <2>1, <4>1 DEF Alone
      <4> QED
        BY <1>4, <2>2, <3>2, <4>2 DEF GeneratorStep, SearchStep, NewList, SetCurrent, PrologInit, LoadProlog, Alert,
           CheckSize, HasMoreSolutions, CheckCallback, RunCallback, CacheContains, Add, Broadcast, Finish,
           Run, TypeInv, TypeOK
    <3>3. UNCHANGED <<list, answers>>
      BY <3>2 DEF Next, MainStep, OnCreate, ExecutePendingBroadcasts, OnStartCommand, OnStartCommandStep,
         CompareParameters, StartThread, ChooseHandOver, FinishAnd, ExistingRequest, RebroadcastPattern,
         EndIteration, AbortThread, Throw, EndProcess, fieldVars, genVars, vars
    <3> QED
      BY <3>1, <3>3 DEF Solution
  <2>3. CASE pc[g] # "broadcast"
    <3>1. GeneratorStep(g) /\ ~RunCallback(g)
      BY <1>4, <2>3, PcFrame
    <3>2. Add(g)
      BY <1>4, <2>3, <3>1 DEF GeneratorStep, SearchStep, NewList, SetCurrent, PrologInit, LoadProlog, Alert,
         CheckSize, HasMoreSolutions, CheckCallback, CacheContains, Broadcast, Finish, Run, TypeInv, TypeOK
    <3>3. pc[g] = "add" /\ cache = g
      BY <2>1, <3>2 DEF Alone, Active, Add, Run, Working, Searching
    <3>4. ~\E h \in Generators \ {g} : pc[h] = "add"
      BY <2>1, <3>3 DEF Alone, Active, Working, Searching
    <3>5. Solution(g) \in Patterns /\ list[g] \in Seq(Patterns)
      BY <3>3, HeadTail DEF TypeInv, TypeOK, HasSolution, Solution, Lists
    <3>6. list'[g] = Append(list[g], Solution(g)) /\ Solution(g)' = Solution(g)
      BY <3>2, <3>3, <3>4 DEF TypeInv, TypeOK, Add, Solution, Lists
    <3> QED
      BY <3>5, <3>6
  <2> QED
    BY <2>2, <2>3
<1> QED
  BY <1>1, <1>2, <1>3, <1>4 DEF Channels

\* Nothing that concerns s has been sent or received, and its list is the same as
\* far as it was sent.
LEMMA DeliveredKept ==
    ASSUME NEW s \in Screens, Delivered(s),
           UNCHANGED <<param, broadcasts>>, shown'[s] = shown[s], Sent(s)' = Sent(s),
           \A i \in 1..Sent(s) : list'[s][i] = list[s][i],
           TypeInv
    PROVE  Delivered(s)'
<1> DEFINE due == Len(shown[s]) + 1 .. Sent(s)
<1>1. PICK at \in [due -> DOMAIN broadcasts] : InOrder(s, at)
  BY DEF Delivered
<1>2. Len(shown[s]) \in Nat /\ DOMAIN shown[s] = 1..Len(shown[s]) /\ Sent(s) \in Int
  BY DEF TypeInv, TypeOK, Sent, Lists
<1>3. Len(shown[s]) <= Sent(s) /\ \A i \in DOMAIN shown[s] : shown[s][i] = list[s][i]
  BY DEF Delivered
<1>4. \A i \in due : i \in 1..Sent(s)
  BY <1>2
<1>5. InOrder(s, at)'
  BY <1>1, <1>4 DEF InOrder, Accepts
<1>6. \A i \in DOMAIN shown[s] : i \in 1..Sent(s)
  BY <1>2, <1>3
<1> QED
  BY <1>1, <1>2, <1>3, <1>5, <1>6 DEF Delivered

\* A broadcast that s does not accept changes nothing for s.
LEMMA DeliveredIgnores ==
    ASSUME NEW s \in Screens, Delivered(s), TypeInv, NEW x \in Broadcasts,
           broadcasts' = Append(broadcasts, x), ~Accepts(s, x),
           UNCHANGED <<param, shown>>, Sent(s)' = Sent(s), list'[s] = list[s]
    PROVE  Delivered(s)'
<1> DEFINE due == Len(shown[s]) + 1 .. Sent(s)
<1>1. PICK at \in [due -> DOMAIN broadcasts] : InOrder(s, at)
  BY DEF Delivered
<1>2. /\ DOMAIN broadcasts \subseteq DOMAIN broadcasts'
      /\ \A n \in DOMAIN broadcasts : broadcasts'[n] = broadcasts[n]
      /\ \A n \in DOMAIN broadcasts' : n \notin DOMAIN broadcasts => broadcasts'[n] = x
  BY BroadcastSeq
<1>3. {n \in DOMAIN broadcasts' : Accepts(s, broadcasts'[n])} = {n \in DOMAIN broadcasts : Accepts(s, broadcasts[n])}
  BY <1>2
<1>4. at \in [due -> DOMAIN broadcasts'] /\ \A i \in due : at[i] \in DOMAIN broadcasts
  BY <1>1, <1>2
<1> HIDE DEF due
<1>5. InOrder(s, at)'
  <2>1. \A i \in due : broadcasts'[at[i]].pattern = list'[s][i]
    BY <1>1, <1>2, <1>4 DEF InOrder, due
  <2>2. \A i, k \in due : i < k => at[i] < at[k]
    BY <1>1 DEF InOrder, due
  <2>3. Range(at) = {n \in DOMAIN broadcasts' : Accepts(s, broadcasts'[n])}
    BY <1>1, <1>3 DEF InOrder
  <2> QED
    BY <2>1, <2>2, <2>3 DEF InOrder, Accepts, due
<1> QED
  BY <1>4, <1>5 DEF Delivered, due

LEMMA SentBounds ==
    ASSUME NEW s \in Screens, Delivered(s), TypeInv
    PROVE  Len(shown[s]) \in Nat /\ Sent(s) \in Nat /\ Len(shown[s]) <= Sent(s)
<1>1. Len(shown[s]) \in Nat /\ Len(list[s]) \in Nat
  BY DEF TypeInv, TypeOK, Lists
<1>2. Sent(s) = Len(list[s]) \/ Sent(s) = Len(list[s]) - 1
  <2>1. CASE pc[s] = "broadcast"
    BY <2>1 DEF Sent
  <2>2. CASE pc[s] # "broadcast"
    BY <1>1, <2>2 DEF Sent
  <2> QED
    BY <2>1, <2>2
<1>3. Len(shown[s]) <= Sent(s)
  BY DEF Delivered
<1> QED
  BY <1>1, <1>2, <1>3

\* The next pattern of the list of s is sent, and s will accept it.
LEMMA DeliveredSends ==
    ASSUME NEW s \in Screens, Delivered(s), TypeInv, NEW x \in Broadcasts,
           broadcasts' = Append(broadcasts, x), Accepts(s, x),
           UNCHANGED <<param, shown>>, list'[s] = list[s], Sent(s)' = Sent(s) + 1,
           x.pattern = list[s][Sent(s) + 1]
    PROVE  Delivered(s)'
<1> DEFINE due == Len(shown[s]) + 1 .. Sent(s)
           new == Len(broadcasts) + 1
           last == Sent(s) + 1
           due2 == Len(shown[s]) + 1 .. last
<1>1. PICK at \in [due -> DOMAIN broadcasts] : InOrder(s, at)
  BY DEF Delivered
<1>2. Len(shown[s]) \in Nat /\ Sent(s) \in Nat /\ Len(shown[s]) <= Sent(s)
  BY SentBounds
<1>3. /\ due2 = due \cup {last} /\ \A i \in due : i # last /\ i < last
      /\ last \in Nat /\ due \subseteq Nat
  BY <1>2
<1>4. /\ DOMAIN broadcasts' = DOMAIN broadcasts \cup {new} /\ new \notin DOMAIN broadcasts
      /\ \A n \in DOMAIN broadcasts : broadcasts'[n] = broadcasts[n] /\ n < new /\ n \in Nat
      /\ broadcasts'[new] = x /\ new \in Nat
  BY BroadcastSeq
<1> DEFINE at2 == [i \in due2 |-> IF i = last THEN new ELSE at[i]]
<1> HIDE DEF due, due2, new, last
<1>5. /\ at2 \in [due2 -> DOMAIN broadcasts'] /\ at2[last] = new
      /\ \A i \in due : at2[i] = at[i] /\ at[i] \in DOMAIN broadcasts
  BY <1>1, <1>3, <1>4 DEF due
<1>6. \A i \in due2 : broadcasts'[at2[i]].pattern = list'[s][i]
  <2>1. \A i \in due : broadcasts[at[i]].pattern = list[s][i]
    BY <1>1 DEF InOrder, due
  <2>2. broadcasts'[at2[last]].pattern = list'[s][last]
    BY <1>4, <1>5 DEF last
  <2> QED
    BY <1>3, <1>4, <1>5, <2>1, <2>2
<1>7. \A i, k \in due2 : i < k => at2[i] < at2[k]
  <2>1. \A i, k \in due : i < k => at[i] < at[k]
    BY <1>1 DEF InOrder, due
  <2>2. ASSUME NEW i \in due2, NEW k \in due2, i < k PROVE i \in due
    BY <1>3, <2>2
  <2> QED
    BY <1>3, <1>4, <1>5, <2>1, <2>2
<1>8. Range(at2) = {n \in DOMAIN broadcasts' : Accepts(s, broadcasts'[n])}
  <2>1. Range(at) = {n \in DOMAIN broadcasts : Accepts(s, broadcasts[n])}
    BY <1>1 DEF InOrder
  <2>2. Range(at2) = Range(at) \cup {new}
    <3>1. DOMAIN at2 = due2 /\ DOMAIN at = due
      BY <1>1, <1>5 DEF due
    <3>2. Range(at2) = {at2[i] : i \in due2} /\ Range(at) = {at[i] : i \in due}
      BY <3>1 DEF Range
    <3> HIDE DEF at2
    <3> QED
      BY <1>3, <1>5, <3>2
  <2> QED
    BY <1>4, <2>1, <2>2
<1> HIDE DEF at2
<1>9. PICK f \in [due2 -> DOMAIN broadcasts'] : f = at2
  BY <1>5
<1>10. due2 = Len(shown'[s]) + 1 .. Sent(s)' /\ Len(shown'[s]) <= Sent(s)'
  BY <1>2 DEF due2, last
<1>11. InOrder(s, f)'
  BY <1>6, <1>7, <1>8, <1>9, <1>10 DEF InOrder, Accepts
<1>12. \A i \in DOMAIN shown'[s] : shown'[s][i] = list'[s][i]
  BY DEF Delivered
<1> QED
  BY <1>9, <1>10, <1>11, <1>12 DEF Delivered

\* The first of the broadcasts is received.
LEMMA DeliveredReceives ==
    ASSUME NEW s \in Screens, Delivered(s), TypeInv, ExecutePendingBroadcasts
    PROVE  Delivered(s)'
<1> DEFINE first == Len(shown[s]) + 1
           due == first .. Sent(s)
           b == Head(broadcasts)
<1>1. PICK at \in [due -> DOMAIN broadcasts] : InOrder(s, at)
  BY DEF Delivered
<1>2. /\ UNCHANGED <<param, list, pc>> /\ broadcasts # <<>> /\ broadcasts' = Tail(broadcasts)
      /\ shown'[s] = IF Accepts(s, b) THEN Append(shown[s], b.pattern) ELSE shown[s]
  BY DEF ExecutePendingBroadcasts, fieldVars, genVars
<1>3. /\ Len(shown[s]) \in Nat /\ Sent(s) \in Nat /\ Len(shown[s]) <= Sent(s) /\ Sent(s)' = Sent(s)
      /\ DOMAIN shown[s] = 1..Len(shown[s]) /\ shown[s] \in Seq(Patterns)
  <2>1. shown[s] \in Seq(Patterns)
    BY DEF TypeInv, TypeOK
  <2>2. Sent(s)' = Sent(s)
    BY <1>2 DEF Sent
  <2> QED
    BY <2>1, <2>2, SentBounds
<1>4. /\ b = broadcasts[1] /\ 1 \in DOMAIN broadcasts
      /\ \A n \in DOMAIN broadcasts : n \in Nat /\ n >= 1
      /\ \A n \in Nat : n \in DOMAIN broadcasts' <=> (n >= 1 /\ n + 1 \in DOMAIN broadcasts)
      /\ \A n \in DOMAIN broadcasts' : n \in Nat /\ broadcasts'[n] = broadcasts[n + 1]
      /\ b.pattern \in Patterns
  BY <1>2, BroadcastSeq DEF Broadcasts
<1>5. /\ \A i \in due : at[i] \in DOMAIN broadcasts /\ broadcasts[at[i]].pattern = list[s][i] /\ i \in Nat
      /\ \A i, k \in due : i < k => at[i] < at[k]
      /\ Range(at) = {n \in DOMAIN broadcasts : Accepts(s, broadcasts[n])}
      /\ DOMAIN at = due
  BY <1>1, <1>3 DEF InOrder
<1> HIDE DEF due, b
<1>6. CASE Accepts(s, b)
  <2>1. PICK j \in due : at[j] = 1
    BY <1>4, <1>5, <1>6 DEF Range
  <2>2. first \in due /\ first \in Nat /\ j >= first /\ j \in Nat
    BY <1>3, <2>1 DEF due
  <2>3. at[first] = 1 /\ j = first
    <3>1. first < j => at[first] < 1
      BY <1>5, <2>1, <2>2
    <3>2. at[first] \in Nat /\ at[first] >= 1
      BY <1>4, <1>5, <2>2
    <3> QED
      BY <2>1, <2>2, <3>1, <3>2
  <2> DEFINE due2 == first + 1 .. Sent(s)
             at2 == [i \in due2 |-> at[i] - 1]
  <2>4. due = due2 \cup {first} /\ \A i \in due2 : i > first /\ i # first
    BY <1>3, <2>2 DEF due
  <2>5. /\ shown'[s] = Append(shown[s], b.pattern) /\ Len(shown'[s]) = first
        /\ b.pattern = list[s][first]
        /\ DOMAIN shown'[s] = DOMAIN shown[s] \cup {first}
        /\ \A i \in DOMAIN shown[s] : shown'[s][i] = shown[s][i]
        /\ shown'[s][first] = b.pattern
    <3>1. shown'[s] = Append(shown[s], b.pattern) /\ b.pattern = list[s][first]
      BY <1>2, <1>4, <1>5, <1>6, <2>2, <2>3
    <3> DEFINE longer == Append(shown[s], b.pattern)
    <3>2. Len(longer) = first /\ DOMAIN longer = 1..first /\ longer[first] = b.pattern
      BY <1>3, <1>4
    <3>3. \A i \in DOMAIN shown[s] : longer[i] = shown[s][i]
      BY <1>3, <1>4
    <3>4. 1..first = DOMAIN shown[s] \cup {first}
      BY <1>3
    <3> HIDE DEF first, longer
    <3>5. shown'[s] = longer
      BY <3>1 DEF longer
    <3> QED
      BY <3>1, <3>2, <3>3, <3>4, <3>5
  <2> HIDE DEF first, due2
  <2>6. \A i \in due2 : at[i] \in Nat /\ at[i] > 1 /\ at[i] \in DOMAIN broadcasts
    BY <1>4, <1>5, <2>2, <2>3, <2>4
  <2>7. /\ at2 \in [due2 -> DOMAIN broadcasts'] /\ DOMAIN at2 = due2
        /\ \A i \in due2 : at2[i] = at[i] - 1 /\ at2[i] \in DOMAIN broadcasts' /\ broadcasts'[at2[i]] = broadcasts[at[i]]
    <3>1. \A i \in due2 : at[i] - 1 \in Nat /\ at[i] - 1 >= 1 /\ (at[i] - 1) + 1 = at[i]
      BY <2>6
    <3>2. \A i \in due2 : at[i] - 1 \in DOMAIN broadcasts' /\ broadcasts'[at[i] - 1] = broadcasts[at[i]]
      BY <1>4, <2>6, <3>1
    <3> QED
      BY <3>2
  <2> HIDE DEF at2
  <2>8. \A i \in due2 : broadcasts'[at2[i]].pattern = list'[s][i]
    BY <1>2, <1>5, <2>4, <2>7
  <2>9. \A i, k \in due2 : i < k => at2[i] < at2[k]
    BY <1>5, <2>4, <2>6, <2>7
  <2>10. Range(at2) = {n \in DOMAIN broadcasts' : Accepts(s, broadcasts'[n])}
    <3>1. ASSUME NEW n \in Range(at2) PROVE n \in DOMAIN broadcasts' /\ Accepts(s, broadcasts'[n])
      <4>1. PICK i \in due2 : n = at2[i]
        BY <2>7 DEF Range
      <4>2. at[i] \in Range(at)
        BY <1>5, <2>4 DEF Range
      <4> QED
        BY <1>5, <2>7, <4>1, <4>2
    <3>2. ASSUME NEW n \in DOMAIN broadcasts', Accepts(s, broadcasts'[n]) PROVE n \in Range(at2)
      <4>1. n \in Nat /\ n >= 1 /\ n + 1 \in DOMAIN broadcasts /\ Accepts(s, broadcasts[n + 1])
        BY <1>4, <3>2
      <4>2. PICK i \in due : at[i] = n + 1
        BY <1>5, <4>1 DEF Range
      <4>3. i \in due2 /\ at2[i] = n
        BY <2>3, <2>4, <2>7, <4>1, <4>2
      <4> QED
        BY <2>7, <4>3 DEF Range
    <3> QED
      BY <3>1, <3>2
  <2>11. \A i \in DOMAIN shown'[s] : shown'[s][i] = list'[s][i]
    BY <1>2, <2>5 DEF Delivered
  <2>12. first <= Sent(s)
    BY <1>3, <2>2 DEF due
  <2>13. PICK f \in [due2 -> DOMAIN broadcasts'] : f = at2
    BY <2>7
  <2>14. due2 = Len(shown'[s]) + 1 .. Sent(s)' /\ Len(shown'[s]) <= Sent(s)'
    BY <1>3, <2>5, <2>12 DEF due2
  <2>15. InOrder(s, f)'
    BY <1>2, <2>8, <2>9, <2>10, <2>13, <2>14 DEF InOrder, Accepts
  <2> QED
    BY <2>11, <2>13, <2>14, <2>15 DEF Delivered
<1>7. CASE ~Accepts(s, b)
  <2>1. \A i \in due : at[i] \in Nat /\ at[i] > 1
    <3> SUFFICES ASSUME NEW i \in due PROVE at[i] \in Nat /\ at[i] > 1
      OBVIOUS
    <3>1. at[i] \in Range(at)
      BY <1>5 DEF Range
    <3> QED
      BY <1>4, <1>5, <1>7, <3>1
  <2> DEFINE at2 == [i \in due |-> at[i] - 1]
  <2>2. /\ at2 \in [due -> DOMAIN broadcasts'] /\ DOMAIN at2 = due
        /\ \A i \in due : at2[i] = at[i] - 1 /\ at2[i] \in DOMAIN broadcasts' /\ broadcasts'[at2[i]] = broadcasts[at[i]]
    <3>1. \A i \in due : at[i] - 1 \in Nat /\ at[i] - 1 >= 1 /\ (at[i] - 1) + 1 = at[i]
      BY <2>1
    <3>2. \A i \in due : at[i] - 1 \in DOMAIN broadcasts' /\ broadcasts'[at[i] - 1] = broadcasts[at[i]]
      BY <1>4, <1>5, <3>1
    <3> QED
      BY <3>2
  <2> HIDE DEF at2
  <2>3. \A i \in due : broadcasts'[at2[i]].pattern = list'[s][i]
    BY <1>2, <1>5, <2>2
  <2>4. \A i, k \in due : i < k => at2[i] < at2[k]
    BY <1>5, <2>1, <2>2
  <2>5. Range(at2) = {n \in DOMAIN broadcasts' : Accepts(s, broadcasts'[n])}
    <3>1. ASSUME NEW n \in Range(at2) PROVE n \in DOMAIN broadcasts' /\ Accepts(s, broadcasts'[n])
      <4>1. PICK i \in due : n = at2[i]
        BY <2>2 DEF Range
      <4>2. at[i] \in Range(at)
        BY <1>5 DEF Range
      <4> QED
        BY <1>5, <2>2, <4>1, <4>2
    <3>2. ASSUME NEW n \in DOMAIN broadcasts', Accepts(s, broadcasts'[n]) PROVE n \in Range(at2)
      <4>1. n \in Nat /\ n >= 1 /\ n + 1 \in DOMAIN broadcasts /\ Accepts(s, broadcasts[n + 1])
        BY <1>4, <3>2
      <4>2. PICK i \in due : at[i] = n + 1
        BY <1>5, <4>1 DEF Range
      <4>3. at2[i] = n
        BY <2>2, <4>1, <4>2
      <4> QED
        BY <2>2, <4>3 DEF Range
    <3> QED
      BY <3>1, <3>2
  <2>6. PICK f \in [due -> DOMAIN broadcasts'] : f = at2
    BY <2>2
  <2>7. due = Len(shown'[s]) + 1 .. Sent(s)' /\ Len(shown'[s]) <= Sent(s)'
    BY <1>2, <1>3, <1>7 DEF due
  <2>8. InOrder(s, f)'
    BY <1>2, <2>3, <2>4, <2>5, <2>6, <2>7 DEF InOrder, Accepts
  <2>9. \A i \in DOMAIN shown'[s] : shown'[s][i] = list'[s][i]
    BY <1>2, <1>7 DEF Delivered
  <2> QED
    BY <2>6, <2>7, <2>8, <2>9 DEF Delivered
<1> QED
  BY <1>6, <1>7

LEMMA ExactDeliveryStep ==
    TypeInv /\ AbortHasCallback /\ Once /\ SoloInv /\ FreshLists /\ Channels /\ ExactDelivery /\ [Next]_vars
        => ExactDelivery'
<1> SUFFICES ASSUME TypeInv, AbortHasCallback, Once, SoloInv, FreshLists, Channels, ExactDelivery,
                    [Next]_vars, ~overlap', NEW s \in registered', Single(s)'
             PROVE  Delivered(s)'
  BY DEF ExactDelivery
<1> USE DEF Generators
<1>1. ~overlap /\ Alone /\ param' = param /\ s \in Screens
  BY CacheFrame, TypeInvStep DEF SoloInv, TypeInv, TypeOK
<1>2. CASE s \notin registered
  <2>1. OnCreate(s)
    BY <1>2, RegisteredFrame
  <2>2. UNCHANGED <<shown, broadcasts, list, pc>>
    BY <2>1 DEF OnCreate, fieldVars, genVars
  <2>3. pc[s] = "none" /\ list[s] = <<>> /\ shown[s] = <<>>
    BY <1>1, <1>2 DEF Once, RunsOnce, Unserved, FreshLists, ListFresh, Channels
  <2>4. \A n \in DOMAIN broadcasts : ~Accepts(s, broadcasts[n])
    BY <1>2 DEF Channels, Accepts
  <2>5. Sent(s)' = 0 /\ Len(shown'[s]) = 0 /\ DOMAIN shown'[s] = {} /\ Len(shown'[s]) + 1 .. Sent(s)' = {}
    BY <2>2, <2>3 DEF Sent
  <2>6. PICK at \in [{} -> DOMAIN broadcasts'] : Range(at) = {}
    <3> DEFINE none == [i \in {} |-> 1]
    <3>1. none \in [{} -> DOMAIN broadcasts'] /\ Range(none) = {}
      BY DEF Range
    <3> QED
      BY <3>1
  <2>7. InOrder(s, at)'
    BY <1>1, <2>2, <2>4, <2>5, <2>6 DEF InOrder, Accepts
  <2>8. at \in [Len(shown'[s]) + 1 .. Sent(s)' -> DOMAIN broadcasts']
    BY <2>5, <2>6
  <2>9. Len(shown'[s]) <= Sent(s)' /\ \A i \in DOMAIN shown'[s] : shown'[s][i] = list'[s][i]
    BY <2>5
  <2> QED
    BY <2>7, <2>8, <2>9 DEF Delivered
<1>3. CASE s \in registered
  <2>1. Single(s) /\ Delivered(s)
    BY <1>1, <1>3, RegisteredFrame DEF Single, ExactDelivery
  <2>2. CASE ExecutePendingBroadcasts
    BY <1>1, <2>1, <2>2, DeliveredReceives
  <2>3. CASE RebroadcastPattern
    <3> DEFINE x == [pattern |-> list[iterator.list][iterator.next], params |-> param[request],
                     receivers |-> registered]
    <3>1. x \in Broadcasts /\ broadcasts' = Append(broadcasts, x)
      BY <2>3, Sends
    <3>2. request \in registered /\ ~Single(request)
      BY <2>3 DEF Once, QueueOnce, Channels, RebroadcastPattern, Main, InCommand
    <3>3. ~Accepts(s, x)
      BY <2>1, <3>2 DEF Accepts, Single
    <3>4. UNCHANGED <<shown, list, pc>> /\ Sent(s)' = Sent(s)
      BY <2>3 DEF RebroadcastPattern, screenVars, fieldVars, genVars, Sent
    <3> HIDE DEF x
    <3> QED
      BY <1>1, <2>1, <3>1, <3>3, <3>4, DeliveredIgnores
  <2>4. ASSUME NEW g \in Generators, Broadcast(g) PROVE Delivered(s)'
    <3> DEFINE x == [pattern |-> Solution(g), params |-> param[g], receivers |-> registered]
    <3>1. x \in Broadcasts /\ broadcasts' = Append(broadcasts, x)
      BY <2>4, Sends
    <3>2. UNCHANGED <<shown, list>> /\ pc[g] = "broadcast" /\ pc' = [pc EXCEPT ![g] = "size"]
      BY <2>4 DEF Broadcast, Run, screenVars, fieldVars
    <3>3. CASE g = s
      <4>1. Accepts(s, x)
        BY <1>3, <3>3 DEF Accepts
      <4>2. list[s] \in Seq(Patterns) /\ list[s] # <<>> /\ list[s][Len(list[s])] = Solution(s)
        BY <1>1, <3>2, <3>3 DEF Channels, TypeInv, TypeOK, Lists
      <4>3. Sent(s)' = Sent(s) + 1 /\ Sent(s) + 1 = Len(list[s]) /\ x.pattern = list[s][Sent(s) + 1]
        BY <1>1, <3>2, <3>3, <4>2 DEF Sent, TypeInv, TypeOK
      <4> HIDE DEF x
      <4> QED
        BY <1>1, <2>1, <3>1, <3>2, <4>1, <4>3, DeliveredSends
    <3>4. CASE g # s
      <4>1. g \in registered
        BY <3>2 DEF Once, RunsOnce, Unserved
      <4>2. ~Accepts(s, x)
        BY <2>1, <3>4, <4>1 DEF Accepts, Single
      <4>3. Sent(s)' = Sent(s)
        BY <1>1, <3>2, <3>4 DEF Sent, TypeInv, TypeOK
      <4> HIDE DEF x
      <4> QED
        BY <1>1, <2>1, <3>1, <3>2, <4>2, <4>3, DeliveredIgnores
    <3> QED
      BY <3>3, <3>4
  <2>5. ASSUME NEW g \in Generators, Add(g) PROVE Delivered(s)'
    <3>1. /\ UNCHANGED <<shown, broadcasts>> /\ pc[g] = "add" /\ pc' = [pc EXCEPT ![g] = "broadcast"]
          /\ \/ list' = [list EXCEPT ![cache] = Append(list[cache], Solution(g))]
             \/ UNCHANGED list /\ \E h \in Generators \ {g} : pc[h] = "add"
      BY <2>5 DEF Add, Run, screenVars
    <3>2. g \in Active /\ cache = g /\ \A h \in Generators : pc[h] = "add" => h = g
      BY <1>1, <3>1 DEF Alone, Active, Working, Searching
    <3>3. list' = [list EXCEPT ![g] = Append(list[g], Solution(g))]
      BY <3>1, <3>2
    <3>4. list[s] \in Seq(Patterns) /\ Solution(g) \in Patterns
      BY <1>1, <3>1, HeadTail DEF TypeInv, TypeOK, HasSolution, Solution, Lists
    <3>5. Sent(s)' = Sent(s) /\ \A i \in 1..Sent(s) : list'[s][i] = list[s][i]
      <4>1. CASE g = s
        <5>1. Sent(s) = Len(list[s]) /\ list'[s] = Append(list[s], Solution(g)) /\ pc'[s] = "broadcast"
          BY <1>1, <3>1, <3>3, <4>1 DEF Sent, TypeInv, TypeOK, Lists
        <5>2. /\ Len(Append(list[s], Solution(g))) = Len(list[s]) + 1
              /\ \A i \in 1..Len(list[s]) : Append(list[s], Solution(g))[i] = list[s][i]
          BY <3>4
        <5>3. Sent(s)' = Len(list'[s]) - 1
          BY <5>1 DEF Sent
        <5>4. Len(list[s]) \in Nat
          BY <3>4
        <5> QED
          BY <5>1, <5>2, <5>3, <5>4
      <4>2. CASE g # s
        BY <1>1, <3>1, <3>3, <4>2 DEF Sent, TypeInv, TypeOK, Lists
      <4> QED
        BY <4>1, <4>2
    <3>6. shown'[s] = shown[s]
      BY <3>1
    <3> QED
      BY <1>1, <2>1, <3>1, <3>5, <3>6, DeliveredKept
  <2>6. ASSUME ~ExecutePendingBroadcasts, ~RebroadcastPattern,
               ~\E g \in Generators : Broadcast(g) \/ Add(g)
        PROVE  Delivered(s)'
    <3>1. UNCHANGED <<shown, broadcasts, list>>
      BY <2>6, BroadcastFrame, CacheFrame DEF NewList
    <3>2. pc'[s] = pc[s] \/ (pc'[s] # "broadcast" /\ pc[s] # "broadcast")
      <4> SUFFICES ASSUME pc'[s] # pc[s] PROVE pc'[s] # "broadcast" /\ pc[s] # "broadcast"
        OBVIOUS
      <4>1. CASE GeneratorStep(s) /\ ~RunCallback(s)
        BY <1>1, <2>6, <4>1 DEF GeneratorStep, SearchStep, NewList, SetCurrent, PrologInit, LoadProlog,
           Alert, CheckSize, HasMoreSolutions, CheckCallback, CacheContains, Finish, Run, TypeInv, TypeOK
      <4>2. CASE ~(GeneratorStep(s) /\ ~RunCallback(s))
        BY <1>1, <4>2, PcFrame
      <4> QED
        BY <4>1, <4>2
    <3>3. Sent(s)' = Sent(s)
      BY <3>1, <3>2 DEF Sent
    <3> QED
      BY <1>1, <2>1, <3>1, <3>3, DeliveredKept
  <2> QED
    BY <2>2, <2>3, <2>4, <2>5, <2>6
<1> QED
  BY <1>2, <1>3

-----------------------------------------------------------------------------
\* A pattern of a search that a screen shows, will receive, or is about to be sent.
Sure(s, g, x) ==
    \/ x \in Range(shown[s])
    \/ \E b \in Pending(s) : b.pattern = x
    \/ pc[g] = "broadcast" /\ x = Solution(g)

LEMMA SureKept ==
    ASSUME TypeInv, AbortHasCallback, Once, [Next]_vars, NEW s \in registered, NEW g \in Generators,
           param[s] = param[g], NEW x, Sure(s, g, x)
    PROVE  Sure(s, g, x)'
<1> USE DEF Generators
<1>1. param' = param /\ s \in Screens
  BY CacheFrame DEF TypeInv, TypeOK
<1>2. CASE x \in Range(shown[s])
  <2>1. CASE UNCHANGED shown
    BY <1>2, <2>1 DEF Sure
  <2>2. CASE ExecutePendingBroadcasts
    <3>1. Head(broadcasts).pattern \in Patterns
      BY <2>2, BroadcastSeq DEF ExecutePendingBroadcasts, Broadcasts
    <3>2. shown'[s] = shown[s] \/ shown'[s] = Append(shown[s], Head(broadcasts).pattern)
      BY <1>1, <2>2 DEF ExecutePendingBroadcasts
    <3>3. Range(shown[s]) \subseteq Range(shown'[s])
      <4>1. shown[s] \in Seq(Patterns)
        BY <1>1 DEF TypeInv, TypeOK
      <4>2. Range(Append(shown[s], Head(broadcasts).pattern))
              = Range(shown[s]) \cup {Head(broadcasts).pattern}
        BY <3>1, <4>1, AppendNew
      <4> QED
        BY <3>2, <4>2
    <3> QED
      BY <1>2, <3>3 DEF Sure
  <2> QED
    BY <2>1, <2>2, BroadcastFrame DEF RebroadcastPattern, Broadcast, screenVars
<1>3. ASSUME NEW n \in DOMAIN broadcasts, Accepts(s, broadcasts[n]), broadcasts[n].pattern = x
      PROVE  Sure(s, g, x)'
  <2>1. CASE UNCHANGED broadcasts
    BY <1>1, <1>3, <2>1 DEF Sure, Pending, Accepts, Range
  <2>2. ASSUME NEW y \in Broadcasts, broadcasts' = Append(broadcasts, y) PROVE Sure(s, g, x)'
    <3>1. n \in DOMAIN broadcasts' /\ broadcasts'[n] = broadcasts[n]
      BY <2>2, BroadcastSeq
    <3> QED
      BY <1>1, <1>3, <3>1 DEF Sure, Pending, Accepts, Range
  <2>3. CASE ExecutePendingBroadcasts
    <3>1. broadcasts # <<>> /\ broadcasts' = Tail(broadcasts)
      BY <2>3 DEF ExecutePendingBroadcasts
    <3>2. CASE n = 1
      <4>1. Head(broadcasts) = broadcasts[n] /\ x \in Patterns
        BY <1>3, <3>1, <3>2, BroadcastSeq DEF Broadcasts
      <4>2. shown'[s] = Append(shown[s], x)
        BY <1>1, <1>3, <2>3, <4>1 DEF ExecutePendingBroadcasts
      <4>3. x \in Range(shown'[s])
        BY <1>1, <4>1, <4>2, AppendNew DEF TypeInv, TypeOK
      <4> QED
        BY <4>3 DEF Sure
    <3>3. CASE n # 1
      <4>1. n - 1 \in DOMAIN broadcasts' /\ broadcasts'[n - 1] = broadcasts[n]
        BY <3>1, <3>3, BroadcastSeq
      <4> QED
        BY <1>1, <1>3, <4>1 DEF Sure, Pending, Accepts, Range
    <3> QED
      BY <3>2, <3>3
  <2>4. CASE RebroadcastPattern
    BY <2>2, <2>4, Sends
  <2>5. ASSUME NEW k \in Generators, Broadcast(k) PROVE Sure(s, g, x)'
    BY <2>2, <2>5, Sends
  <2> QED
    BY <2>1, <2>3, <2>4, <2>5, BroadcastFrame
<1>4. CASE pc[g] = "broadcast" /\ x = Solution(g)
  <2>1. CASE Broadcast(g)
    <3> DEFINE y == [pattern |-> Solution(g), params |-> param[g], receivers |-> registered]
    <3>1. y \in Broadcasts /\ broadcasts' = Append(broadcasts, y)
      BY <2>1, Sends
    <3>2. Len(broadcasts) + 1 \in DOMAIN broadcasts' /\ broadcasts'[Len(broadcasts) + 1] = y
      BY <3>1, BroadcastSeq
    <3>3. y \in Pending(s)' /\ y.pattern = x
      BY <1>1, <1>4, <3>2 DEF Pending, Accepts, Range
    <3> QED
      BY <3>3 DEF Sure
  <2>2. CASE ~Broadcast(g)
    <3>1. pc'[g] = "broadcast"
      <4> SUFFICES ASSUME pc'[g] # "broadcast" PROVE FALSE
        OBVIOUS
      <4>1. GeneratorStep(g) /\ ~RunCallback(g)
        BY <1>4, PcFrame
      <4> QED
        BY <1>4, <2>2, <4>1 DEF GeneratorStep, SearchStep, NewList, SetCurrent, PrologInit, LoadProlog,
           Alert, CheckSize, HasMoreSolutions, CheckCallback, CacheContains, Add, Finish, Run
    <3>2. answers'[g] = answers[g]
      <4>1. UNCHANGED answers \/ \E k \in Generators : PrologInit(k) \/ CacheContains(k) \/ Broadcast(k)
        BY DEF Next, MainStep, OnCreate, ExecutePendingBroadcasts, OnStartCommand, OnStartCommandStep,
           CompareParameters, StartThread, ChooseHandOver, FinishAnd, ExistingRequest, RebroadcastPattern,
           EndIteration, GeneratorStep, SearchStep, NewList, SetCurrent, LoadProlog, Alert, CheckSize,
           HasMoreSolutions, CheckCallback, RunCallback, Add, Finish,
           AbortThread, Throw, EndProcess, genVars, vars
      <4>2. ASSUME NEW k \in Generators, PrologInit(k) \/ CacheContains(k) \/ Broadcast(k)
            PROVE  answers'[g] = answers[g]
        <5>1. k # g
          BY <1>4, <2>2, <4>2 DEF PrologInit, CacheContains, Run
        <5> QED
          BY <4>2, <5>1 DEF PrologInit, CacheContains, Broadcast, TypeInv, TypeOK
      <4> QED
        BY <4>1, <4>2
    <3> QED
      BY <1>4, <3>1, <3>2 DEF Sure, Solution
  <2> QED
    BY <2>1, <2>2
<1> QED
  BY <1>2, <1>3, <1>4 DEF Sure, Pending, Range

\* The patterns of the current search that s misses.
Missing(s) == {x \in Range(list[cache]) : ~Sure(s, cache, x)}

\* The request of s is about to be answered from the cache, or the iterator has
\* still to come to every pattern that s misses.
BeingServed(s) ==
    /\ request = s
    /\ \/ mainPc \in {"compare", "iterate"}
       \/ /\ mainPc = "next" /\ iterator.list = cache
          /\ \A x \in Missing(s) : \E k \in DOMAIN list[cache] :
                iterator.next <= k /\ k <= iterator.size /\ list[cache][k] = x

CaughtUp(s) == Missing(s) = {} \/ s \in Range(startQueue) \/ BeingServed(s)

NoGaps ==
    ~overlap /\ Alive /\ currentGenerator # NoGen /\ cache = currentGenerator =>
        \A s \in registered : param[s] = param[cache] => CaughtUp(s)

LEMMA HeadOrTail ==
    ASSUME NEW S, NEW seq \in Seq(S), seq # <<>>, NEW x \in Range(seq)
    PROVE  x = Head(seq) \/ x \in Range(Tail(seq))
<1>1. PICK k \in 1..Len(seq) : seq[k] = x
  BY DEF Range
<1>2. /\ DOMAIN Tail(seq) = 1..Len(seq) - 1 /\ Len(seq) \in Nat /\ Head(seq) = seq[1]
      /\ \A i \in 1..Len(seq) - 1 : Tail(seq)[i] = seq[i + 1]
  OBVIOUS
<1>3. k # 1 => k - 1 \in DOMAIN Tail(seq) /\ Tail(seq)[k - 1] = x
  BY <1>1, <1>2
<1> QED
  BY <1>1, <1>2, <1>3 DEF Range

LEMMA NoGapsStep ==
    TypeInv /\ AbortHasCallback /\ Once /\ SoloInv /\ FreshLists /\ CurrentInv /\ NoGaps /\ [Next]_vars
        => NoGaps'
<1> SUFFICES ASSUME TypeInv, AbortHasCallback, Once, SoloInv, FreshLists, CurrentInv, NoGaps, [Next]_vars,
                    ~overlap', Alive', currentGenerator' # NoGen, cache' = currentGenerator',
                    NEW s \in registered', param'[s] = param'[cache']
             PROVE  CaughtUp(s)'
  BY DEF NoGaps
<1> USE DEF Generators
<1>0. PICK g \in Generators : cache' = g /\ currentGenerator' = g
  BY TypeInvStep DEF TypeInv, TypeOK
<1>1. /\ ~overlap /\ Alone /\ param' = param /\ s \in Screens
      /\ param[s] = param[g]
  BY <1>0, CacheFrame, TypeInvStep DEF SoloInv, TypeInv, TypeOK
<1>2. CASE SetCurrent(g)
  <2>1. list[g] = <<>> /\ list' = list
    BY <1>1, <1>2 DEF FreshLists, ListFresh, SetCurrent, Run
  <2>2. Missing(s)' = {}
    BY <1>0, <2>1, EmptyRange DEF Missing
  <2> QED
    BY <2>2 DEF CaughtUp
<1>3. CASE ~SetCurrent(g)
  <2>1. currentGenerator = g
    BY <1>0, <1>3 DEF Next, MainStep, OnCreate, ExecutePendingBroadcasts, OnStartCommand, OnStartCommandStep,
       CompareParameters, StartThread, ChooseHandOver, FinishAnd, ExistingRequest, RebroadcastPattern,
       EndIteration, GeneratorStep, SearchStep, NewList, SetCurrent, PrologInit, LoadProlog, Alert, CheckSize,
       HasMoreSolutions, CheckCallback, RunCallback, CacheContains, Add, Broadcast, Finish,
       AbortThread, Throw, EndProcess,
       fieldVars, vars
  <2>2. ~\E h \in Generators : NewList(h)
    BY <1>0, <2>1, ScreensAssumption DEF NewList, Run, Once, RunsOnce
  <2>3. cache = g /\ Alive
    <3>1. cache = g
      BY <1>0, <2>2, CacheFrame DEF Add
    <3>2. Alive
      BY GeneratorFrame DEF Alive, Next, MainStep, OnCreate, ExecutePendingBroadcasts, OnStartCommand,
         OnStartCommandStep, CompareParameters, StartThread, ChooseHandOver, FinishAnd, ExistingRequest,
         RebroadcastPattern, EndIteration, AbortThread, Throw, EndProcess, Main, Return, Throws, mainVars, vars
    <3> QED
      BY <3>1, <3>2
  <2>4. CASE s \notin registered
    <3>1. startQueue' = Append(startQueue, s)
      BY <2>4, RegisteredFrame DEF OnCreate
    <3>2. s \in Range(startQueue')
      BY <1>1, <3>1, AppendNew DEF TypeInv, TypeOK
    <3> QED
      BY <3>2 DEF CaughtUp
  <2>5. CASE s \in registered
    <3>1. CaughtUp(s)
      BY <1>1, <2>1, <2>3, <2>5, ScreensAssumption DEF NoGaps
    <3>2. \A x : Sure(s, g, x) => Sure(s, g, x)'
      BY <1>1, <2>5, SureKept
    <3>0. /\ Missing(s)' = {x \in Range(list'[g]) : ~Sure(s, g, x)'}
          /\ Missing(s) = {x \in Range(list[g]) : ~Sure(s, g, x)}
      BY <1>0, <2>3 DEF Missing, Sure, Solution
    <3>3. /\ Missing(s)' \subseteq Missing(s)
          /\ \A k \in DOMAIN list[g] : k \in DOMAIN list'[g] /\ list'[g][k] = list[g][k]
      <4>1. CASE UNCHANGED list
        BY <3>0, <3>2, <4>1
      <4>2. ASSUME NEW h \in Generators, Add(h)
            PROVE  /\ Missing(s)' \subseteq Missing(s)
                   /\ \A k \in DOMAIN list[g] : k \in DOMAIN list'[g] /\ list'[g][k] = list[g][k]
        <5>1. /\ pc[h] = "add" /\ pc' = [pc EXCEPT ![h] = "broadcast"] /\ answers' = answers
              /\ \/ list' = [list EXCEPT ![cache] = Append(list[cache], Solution(h))]
                 \/ UNCHANGED list
          BY <4>2 DEF Add, Run
        <5>2. h = g
          BY <1>1, <2>3, <5>1 DEF Alone, Active, Working, Searching
        <5>3. Solution(g) \in Patterns /\ list[g] \in Seq(Patterns) /\ g \in Lists
          BY <1>1, <5>1, <5>2, HeadTail DEF TypeInv, TypeOK, HasSolution, Solution, Lists
        <5>4. list'[g] = list[g] \/ list'[g] = Append(list[g], Solution(g))
          BY <2>3, <5>1, <5>2, <5>3 DEF TypeInv, TypeOK
        <5>5. /\ Range(Append(list[g], Solution(g))) = Range(list[g]) \cup {Solution(g)}
              /\ \A k \in DOMAIN list[g] : /\ k \in DOMAIN Append(list[g], Solution(g))
                                           /\ Append(list[g], Solution(g))[k] = list[g][k]
          BY <5>3, AppendNew
        <5>6. PICK y \in Patterns : y = Solution(g)
          BY <5>3
        <5>7. Sure(s, g, y)' /\ Range(list'[g]) \subseteq Range(list[g]) \cup {y}
          BY <1>1, <5>1, <5>2, <5>4, <5>5, <5>6 DEF Sure, Solution, TypeInv, TypeOK
        <5>8. Missing(s)' \subseteq Missing(s)
          BY <3>0, <3>2, <5>7
        <5> QED
          BY <5>4, <5>5, <5>8
      <4> QED
        BY <2>2, <4>1, <4>2, CacheFrame
    <3>4. CASE Missing(s) = {}
      BY <3>3, <3>4 DEF CaughtUp
    <3>5. CASE s \in Range(startQueue)
      <4>1. CASE OnStartCommand
        <5>1. mainPc' = "compare" /\ startQueue # <<>> /\ startQueue' = Tail(startQueue)
              /\ request' = Head(startQueue)
          BY <2>1, <4>1, ScreensAssumption DEF OnStartCommand, Main
        <5>2. s = Head(startQueue) \/ s \in Range(Tail(startQueue))
          BY <3>5, <5>1, HeadOrTail DEF TypeInv, TypeOK
        <5> QED
          BY <5>1, <5>2 DEF CaughtUp, BeingServed
      <4>2. CASE ~OnStartCommand
        <5>1. UNCHANGED startQueue \/ \E r \in Screens : startQueue' = Append(startQueue, r)
          BY <4>2, GeneratorFrame DEF Next, MainStep, OnCreate, ExecutePendingBroadcasts,
             OnStartCommandStep, CompareParameters,
             StartThread, ChooseHandOver, FinishAnd, ExistingRequest, RebroadcastPattern, EndIteration,
             AbortThread, Throw, EndProcess, vars
        <5>2. \A r \in Screens : s \in Range(Append(startQueue, r))
          BY <3>5, AppendNew DEF TypeInv, TypeOK
        <5>3. s \in Range(startQueue')
          BY <3>5, <5>1, <5>2
        <5> QED
          BY <5>3 DEF CaughtUp
      <4> QED
        BY <4>1, <4>2
    <3>6. CASE BeingServed(s)
      <4>1. CASE UNCHANGED <<mainPc, request, iterator>>
        BY <1>0, <2>3, <3>3, <3>6, <4>1 DEF CaughtUp, BeingServed
      <4>2. CASE CompareParameters
        <5>1. mainPc' = "iterate" /\ request' = s
          BY <1>1, <2>1, <2>3, <3>6, <4>2, ScreensAssumption DEF CompareParameters, Main, BeingServed
        <5> QED
          BY <5>1 DEF CaughtUp, BeingServed
      <4>3. CASE ExistingRequest
        <5>1. /\ mainPc' = "next" /\ request' = s /\ list' = list
              /\ iterator'.list = g /\ iterator'.next = 1 /\ iterator'.size = Len(list[g])
          BY <2>3, <3>6, <4>3 DEF ExistingRequest, Main, BeingServed, fieldVars
        <5>2. list[g] \in Seq(Patterns)
          BY <1>1 DEF TypeInv, TypeOK, Lists
        <5>3. \A k \in DOMAIN list[g] : 1 <= k /\ k <= Len(list[g])
          BY <5>2
        <5>4. \A x \in Missing(s)' : \E k \in DOMAIN list[g] : list[g][k] = x
          BY <3>0, <5>1 DEF Range
        <5> QED
          BY <1>0, <5>1, <5>3, <5>4 DEF CaughtUp, BeingServed
      <4>4. CASE RebroadcastPattern
        <5>1. /\ mainPc = "next" /\ mainPc' = "next" /\ request = s /\ request' = s /\ list' = list
              /\ iterator.list = g
              /\ \A x \in Missing(s) : \E k \in DOMAIN list[g] :
                    iterator.next <= k /\ k <= iterator.size /\ list[g][k] = x
          BY <2>3, <3>6, <4>4 DEF RebroadcastPattern, Main, BeingServed, fieldVars
        <5>2. /\ iterator'.list = iterator.list /\ iterator'.size = iterator.size
              /\ iterator'.next = iterator.next + 1 /\ iterator.next \in Nat
          BY <4>4 DEF RebroadcastPattern, TypeInv, TypeOK
        <5>3. PICK y \in Patterns : y = list[g][iterator.next]
          BY <4>4, <5>1, Sends DEF Broadcasts
        <5>4. Sure(s, g, y)'
          <6> DEFINE b == [pattern |-> y, params |-> param[s], receivers |-> registered]
          <6>1. b \in Broadcasts /\ broadcasts' = Append(broadcasts, b)
            BY <4>4, <5>1, <5>3, Sends
          <6>2. Len(broadcasts) + 1 \in DOMAIN broadcasts' /\ broadcasts'[Len(broadcasts) + 1] = b
            BY <6>1, BroadcastSeq
          <6>3. b \in Pending(s)' /\ b.pattern = y
            BY <1>1, <2>5, <6>2 DEF Pending, Accepts, Range
          <6> QED
            BY <6>3 DEF Sure
        <5>5. ASSUME NEW x \in Missing(s)'
              PROVE  \E k \in DOMAIN list[g] :
                        iterator'.next <= k /\ k <= iterator'.size /\ list[g][k] = x
          <6>1. PICK k \in DOMAIN list[g] : iterator.next <= k /\ k <= iterator.size /\ list[g][k] = x
            BY <3>3, <5>1
          <6>2. k # iterator.next
            BY <3>0, <5>3, <5>4, <6>1
          <6>3. k \in Nat
            <7>1. list[g] \in Seq(Patterns)
              BY DEF TypeInv, TypeOK, Lists
            <7> QED
              BY <7>1
          <6>4. iterator.next + 1 <= k
            BY <5>2, <6>1, <6>2, <6>3
          <6> QED
            BY <5>2, <6>1, <6>4
        <5> QED
          BY <1>0, <5>1, <5>2, <5>5 DEF CaughtUp, BeingServed
      <4>5. CASE EndIteration
        <5>1. mainPc = "next" /\ IteratorDone
          BY <4>5 DEF EndIteration, Main, Return, Throws, Alive
        <5>2. iterator.next \in Nat /\ iterator.size \in Nat /\ list[g] \in Seq(Patterns)
          BY DEF TypeInv, TypeOK, Lists
        <5>3. Missing(s) = {}
          <6>1. \A x \in Missing(s) : \E k \in DOMAIN list[g] : iterator.next <= k /\ k <= iterator.size
            BY <2>3, <3>6, <5>1 DEF BeingServed
          <6>2. \A k \in DOMAIN list[g] : k \in Nat
            BY <5>2
          <6>3. iterator.next > iterator.size
            BY <5>1 DEF IteratorDone
          <6> QED
            BY <5>2, <6>1, <6>2, <6>3
        <5> QED
          BY <3>3, <5>3 DEF CaughtUp
      <4>6. ASSUME NEW h \in Generators, GeneratorStep(h) PROVE UNCHANGED <<mainPc, request, iterator>>
        BY <4>6, GeneratorFrame DEF Alive
      <4>7. ~ExecutePendingBroadcasts /\ ~OnStartCommand /\ ~StartThread /\ ~ChooseHandOver /\ ~FinishAnd
        BY <3>6 DEF BeingServed, ExecutePendingBroadcasts, OnStartCommand, StartThread, ChooseHandOver,
           FinishAnd, Main, Return, Throws
      <4> QED
        BY <4>1, <4>2, <4>3, <4>4, <4>5, <4>6, <4>7 DEF Next, MainStep, OnStartCommandStep, OnCreate,
           AbortThread, Throw, EndProcess, Alive, mainVars, vars
    <3> QED
      BY <3>1, <3>4, <3>5, <3>6 DEF CaughtUp
  <2> QED
    BY <2>4, <2>5
<1> QED
  BY <1>2, <1>3

-----------------------------------------------------------------------------
\* All that holds of the service between two steps.
ServiceInv ==
    /\ TypeInv /\ AbortHasCallback /\ Once /\ OwnAnswers /\ SoloInv
    /\ FreshLists /\ CurrentInv /\ Channels

LEMMA InitServiceInv == Init => ServiceInv
<1> SUFFICES ASSUME Init PROVE ServiceInv
  OBVIOUS
<1> USE DEF Generators
<1>1. AbortHasCallback /\ OwnAnswers
  BY DEF Init, AbortHasCallback, OwnAnswers, Range
<1>2. Once
  <2>1. Range(startQueue) = {} /\ IsInjective(startQueue)
    BY DEF Init, Range, IsInjective
  <2> QED
    BY <2>1, ScreensAssumption DEF Init, Once, QueueOnce, RunsOnce, Unserved, InCommand
<1>3. SoloInv
  BY LimitAssumption DEF Init, SoloInv, Alone, ListCorrect, Active, Working, Starting, Searching,
     Range, IsInjective, Lists
<1>4. FreshLists /\ CurrentInv
  BY ScreensAssumption DEF Init, FreshLists, ListFresh, CurrentInv, Lists, Active, Working, Starting, Searching
<1>5. Channels
  BY DEF Init, Channels
<1> QED
  BY <1>1, <1>2, <1>3, <1>4, <1>5, InitTypeInv DEF ServiceInv

LEMMA ServiceInvStep == ServiceInv /\ [Next]_vars => ServiceInv'
<1> SUFFICES ASSUME ServiceInv, [Next]_vars PROVE ServiceInv'
  OBVIOUS
<1>1. TypeInv' /\ AbortHasCallback' /\ OwnAnswers' /\ SoloInv'
  BY TypeInvStep, AbortHasCallbackStep, OwnAnswersStep, SoloInvStep DEF ServiceInv
<1>2. Once'
  BY QueueOnceStep, RunsOnceStep DEF ServiceInv, Once
<1>3. FreshLists' /\ CurrentInv' /\ Channels'
  BY FreshListsStep, CurrentInvStep, ChannelsStep DEF ServiceInv
<1> QED
  BY <1>1, <1>2, <1>3 DEF ServiceInv

\* Even when generator threads race, no cache outgrows the limit by as many
\* patterns as there are generators.
THEOREM OvershootAlwaysBounded == Spec => []CacheOvershootBounded
<1> DEFINE Inv == ServiceInv /\ Room
<1>1. Init => Inv
  <2> SUFFICES ASSUME Init PROVE Room
    BY InitServiceInv
  <2>1. Checked = {} /\ cache \in Lists /\ \A l \in Lists : list[l] = <<>>
    BY DEF Init, Checked, Generators, Lists
  <2>2. Cardinality(Checked) = 0 /\ Cardinality(Generators) \in Nat
    BY <2>1, CheckedFinite, FS_EmptySet
  <2> QED
    BY <2>1, <2>2, LimitAssumption DEF Room, CacheOvershootBounded
<1>2. Inv /\ [Next]_vars => Inv'
  BY ServiceInvStep, RoomStep DEF ServiceInv
<1>3. Inv => CacheOvershootBounded
  BY DEF Room
<1> QED
  BY <1>1, <1>2, <1>3, PTL DEF Spec

\* What existingRequest sends from the cache are answers to the request, unless a
\* generator interferes with it or two of them overlapped.
THEOREM AlwaysRebroadcastsOwnAnswers == Spec => []RebroadcastsOwnAnswers
<1> DEFINE Inv == ServiceInv /\ OwnIteration
<1>1. Init => Inv
  BY InitServiceInv DEF Init, OwnIteration
<1>2. Inv /\ [Next]_vars => Inv'
  BY ServiceInvStep, OwnIterationStep DEF ServiceInv
<1>3. Inv => RebroadcastsOwnAnswers
  BY DEF OwnIteration, RebroadcastsOwnAnswers
<1> QED
  BY <1>1, <1>2, <1>3, PTL DEF Spec

\* Without overlap, a screen that alone has its parameters shows the list of its
\* search in order, less what is under way: nothing is lost, sent twice, or sent
\* by another search.
THEOREM AlwaysExactDelivery == Spec => []ExactDelivery
<1> DEFINE Inv == ServiceInv /\ ExactDelivery
<1>1. Init => Inv
  BY InitServiceInv DEF Init, ExactDelivery
<1>2. Inv /\ [Next]_vars => Inv'
  BY ServiceInvStep, ExactDeliveryStep DEF ServiceInv
<1>3. Inv => ExactDelivery
  OBVIOUS
<1> QED
  BY <1>1, <1>2, <1>3, PTL DEF Spec

\* Without overlap, a screen whose request was handled misses no pattern that the
\* current search for its parameters has found, as long as the cache is its list.
THEOREM LateScreenAlwaysComplete == Spec => []LateScreenComplete
<1> DEFINE Inv == ServiceInv /\ NoGaps
<1>1. Init => Inv
  BY InitServiceInv DEF Init, NoGaps
<1>2. Inv /\ [Next]_vars => Inv'
  BY ServiceInvStep, NoGapsStep DEF ServiceInv
<1>3. Inv => LateScreenComplete
  <2> SUFFICES ASSUME NoGaps, ~overlap, Alive, currentGenerator # NoGen, cache = currentGenerator,
                      NEW s \in Screens, Handled(s), param[s] = param[cache],
                      NEW x \in Range(list[cache])
               PROVE  Sure(s, cache, x)
    BY DEF LateScreenComplete, Sure
  <2>1. CaughtUp(s) /\ s \notin Range(startQueue) /\ ~BeingServed(s)
    BY DEF NoGaps, Handled, BeingServed, InCommand
  <2> QED
    BY <2>1 DEF CaughtUp, Missing
<1> QED
  BY <1>1, <1>2, <1>3, PTL DEF Spec
=============================================================================
