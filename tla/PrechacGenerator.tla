-------------------------- MODULE PrechacGenerator --------------------------
(***************************************************************************)
(* The search service of the application (PrechacGenerator.java), the      *)
(* search screens that use it (SearchActivity.java) and the platform's     *)
(* local broadcasts between them.                                          *)
(*                                                                         *)
(* Two kinds of thread run.  The main thread creates screens, delivers     *)
(* start commands to the service one at a time, and hands the broadcasts   *)
(* that are pending to their receivers.  A generator thread runs the body  *)
(* of one Runnable of startGenerator, and of the Runnables handed over to  *)
(* it afterwards.  No lock protects what they share: the fields `cache'    *)
(* and `currentGenerator', the lists of patterns, and the finishCallback   *)
(* of every generator.  Each read or write of one of these is a step.      *)
(*                                                                         *)
(* A screen makes exactly one request, so the generator, the Runnable and  *)
(* the list of patterns that its request gives rise to bear its name.      *)
(***************************************************************************)
EXTENDS Naturals, Sequences, FiniteSets, Functions

CONSTANTS
    Screens,     \* the instances of SearchActivity
    Params,      \* the values of PatternParameters
    Patterns,    \* the patterns, up to Pattern.equals
    Answers,     \* for each of Params, the sequences of answers Prolog may give
    Limit,       \* the size at which a cache is full: 3000 in the code
    NoGen        \* Java's null, for a generator or a Runnable

ASSUME ScreensAssumption == IsFiniteSet(Screens) /\ NoGen \notin Screens
ASSUME AnswersAssumption == Answers \in [Params -> SUBSET Seq(Patterns)]
ASSUME LimitAssumption == Limit \in Nat \ {0}

VARIABLES
    param,             \* the PatternParameters of a screen's intent
    registered,        \* the screens whose receiver is registered
    shown,             \* the patternsAdapter of each screen
    startQueue,        \* start commands on their way to the service
    broadcasts,        \* broadcasts sent and not yet received
    mainPc,            \* where the main thread is; the process has ended once
                       \* it "crashed", or was "killed" by another thread
    request,           \* the request that onStartCommand handles, or NoGen
    iterator,          \* the iterator of existingRequest
    cache,             \* PrechacGenerator.cache: the list it refers to
    currentGenerator,  \* PrechacGenerator.currentGenerator
    list,              \* the contents of every list `cache' referred to
    finishCallback,    \* Generator.finishCallback
    initialised,       \* Prolog.initialisationSucceeded
    pc,                \* where the run of each generator is
    answers,           \* what its query has still to give, from the solution
                       \* it is looking at on
    overlap,           \* history: two generator threads were at work at once
    disturbed          \* history: a generator stored into what onStartCommand
                       \* is reading

screenVars == <<param, registered, shown>>
mainVars   == <<mainPc, request, iterator>>
fieldVars  == <<cache, currentGenerator, list, initialised>>
genVars    == <<finishCallback, pc, answers>>
history    == <<overlap, disturbed>>
vars == <<screenVars, startQueue, broadcasts, mainVars, fieldVars, genVars,
          history>>

Generators == Screens
Lists == Screens \cup {NoGen}     \* NoGen names the list of the constructor

NoIterator == [list |-> NoGen, next |-> 1, size |-> 0]

Broadcasts == [pattern : Patterns, params : Params, receivers : SUBSET Screens]

\* Where the main thread is inside onStartCommand.
InCommand == {"compare", "start", "handOver", "iterate", "next"}

\* Where a generator is between its first and its last own statement.
Starting == {"newList", "setCurrent"}
Searching == {"size", "hasMore", "check", "abort", "contains", "add", "broadcast"}
Working == Starting \cup {"init", "load", "alert"} \cup Searching \cup {"end"}

Active == {g \in Generators : pc[g] \in Working}

Alive == mainPc \notin {"crashed", "killed"}

AnswersOf(q) == UNION {Range(order) : order \in Answers[q]}

TypeOK ==
    /\ param \in [Screens -> Params]
    /\ registered \subseteq Screens
    /\ shown \in [Screens -> Seq(Patterns)]
    /\ startQueue \in Seq(Screens)
    /\ broadcasts \in Seq(Broadcasts)
    /\ mainPc \in InCommand \cup {"idle", "receive", "crashed", "killed"}
    /\ request \in Screens \cup {NoGen}
    /\ iterator \in [list : Lists, next : Nat \ {0}, size : Nat]
    /\ cache \in Lists
    /\ currentGenerator \in Generators \cup {NoGen}
    /\ list \in [Lists -> Seq(Patterns)]
    /\ finishCallback \in [Generators -> Generators \cup {NoGen}]
    /\ initialised \in {"null", "true", "false"}
    /\ pc \in [Generators -> Working \cup {"none", "replaced", "done", "failed"}]
    /\ answers \in [Generators -> Seq(Patterns)]
    /\ overlap \in BOOLEAN
    /\ disturbed \in BOOLEAN

Init ==
    /\ param \in [Screens -> Params]
    /\ registered = {}
    /\ shown = [s \in Screens |-> <<>>]
    /\ startQueue = <<>>
    /\ broadcasts = <<>>
    /\ mainPc = "idle"
    /\ request = NoGen
    /\ iterator = NoIterator
    /\ cache = NoGen
    /\ currentGenerator = NoGen
    /\ list = [l \in Lists |-> <<>>]
    /\ finishCallback = [g \in Generators |-> NoGen]
    /\ initialised = "null"
    /\ pc = [g \in Generators |-> "none"]
    /\ answers = [g \in Generators |-> <<>>]
    /\ overlap = FALSE
    /\ disturbed = FALSE

-----------------------------------------------------------------------------
(***************************************************************************)
(* Broadcasts.  sendBroadcast fixes the receivers when it is called; the   *)
(* main looper later calls every receiver of every broadcast that is       *)
(* pending, in the order they were sent.                                   *)
(***************************************************************************)

BroadcastPattern(p, q) ==
    broadcasts' = Append(broadcasts,
                         [pattern |-> p, params |-> q, receivers |-> registered])

\* Mutant: the receiver compares its parameters with those of another screen.
AcceptsOthers(s, b) == s \in b.receivers /\ b.params # param[s]

\* onReceive keeps the patterns that answer the parameters of its screen.
Accepts(s, b) == s \in b.receivers /\ b.params = param[s]

\* One broadcast is received.  The main thread does nothing else until none is
\* pending.
ExecutePendingBroadcasts ==
    /\ mainPc \in {"idle", "receive"} /\ broadcasts # <<>>
    /\ mainPc' = IF Len(broadcasts) = 1 THEN "idle" ELSE "receive"
    /\ broadcasts' = Tail(broadcasts)
    /\ shown' = [s \in Screens |->
                   IF Accepts(s, Head(broadcasts))
                   THEN Append(shown[s], Head(broadcasts).pattern) ELSE shown[s]]
    /\ UNCHANGED <<param, registered, startQueue, request, iterator, fieldVars,
                   genVars, history>>

-----------------------------------------------------------------------------
(***************************************************************************)
(* The main thread.  onCreate posts the start command before it registers  *)
(* the receiver, but the service is on the same thread and gets the        *)
(* command later.                                                          *)
(***************************************************************************)

OnCreate(s) ==
    /\ mainPc = "idle" /\ s \notin registered
    /\ startQueue' = Append(startQueue, s)
    /\ registered' = registered \cup {s}
    /\ UNCHANGED <<param, shown, broadcasts, mainVars, fieldVars, genVars, history>>

\* A step of the main thread in onStartCommand, from one place to the next.
Main(from, to) == mainPc = from /\ mainPc' = to

\* onStartCommand returns, and its variables are gone; or it throws.
Return(from) ==
    /\ Main(from, "idle")
    /\ request' = NoGen /\ iterator' = NoIterator /\ disturbed' = FALSE
Throws(from) ==
    /\ Main(from, "crashed")
    /\ UNCHANGED <<request, iterator, disturbed>>

\* Mutant: no null check before sameParameters.
OnStartCommandUnchecked ==
    /\ startQueue # <<>>
    /\ Main("idle", "compare")
    /\ request' = Head(startQueue)
    /\ startQueue' = Tail(startQueue)
    /\ disturbed' = FALSE
    /\ UNCHANGED <<screenVars, broadcasts, iterator, fieldVars, genVars, overlap>>

\* The first read of currentGenerator.
OnStartCommand ==
    /\ startQueue # <<>>
    /\ Main("idle", IF currentGenerator = NoGen THEN "start" ELSE "compare")
    /\ request' = Head(startQueue)
    /\ startQueue' = Tail(startQueue)
    /\ disturbed' = FALSE
    /\ UNCHANGED <<screenVars, broadcasts, iterator, fieldVars, genVars, overlap>>

\* Mutant: any running search will do.
CompareNothing ==
    /\ Main("compare", IF currentGenerator = NoGen THEN "crashed" ELSE "iterate")
    /\ UNCHANGED <<screenVars, startQueue, broadcasts, request, iterator,
                   fieldVars, genVars, history>>

\* The second read: null by now is a NullPointerException.
CompareParameters ==
    /\ Main("compare", CASE currentGenerator = NoGen -> "crashed"
                         [] currentGenerator # NoGen ->
                              IF param[currentGenerator] = param[request]
                              THEN "iterate" ELSE "start")
    /\ UNCHANGED <<screenVars, startQueue, broadcasts, request, iterator,
                   fieldVars, genVars, history>>

StartThread ==
    /\ currentGenerator = NoGen
    /\ Return("start")
    /\ pc' = [pc EXCEPT ![request] = "newList"]
    /\ overlap' = (overlap \/ Active # {})
    /\ UNCHANGED <<screenVars, startQueue, broadcasts, fieldVars, finishCallback,
                   answers>>

ChooseHandOver ==
    /\ currentGenerator # NoGen
    /\ Main("start", "handOver")
    /\ UNCHANGED <<screenVars, startQueue, broadcasts, request, iterator,
                   fieldVars, genVars, history>>

\* The last read, and the store of the callback if there is a generator.
FinishAnd ==
    /\ IF currentGenerator = NoGen THEN Throws("handOver") ELSE Return("handOver")
    /\ finishCallback' = [g \in Generators |->
                             IF g = currentGenerator THEN request
                             ELSE finishCallback[g]]
    /\ UNCHANGED <<screenVars, startQueue, broadcasts, fieldVars, pc, answers,
                   overlap>>

\* Mutant: the iterator starts one too late.
ExistingRequestSkipsFirst ==
    /\ Main("iterate", "next")
    /\ iterator' = [list |-> cache, next |-> 2, size |-> Len(list[cache])]
    /\ UNCHANGED <<screenVars, startQueue, broadcasts, request, fieldVars,
                   genVars, history>>

ExistingRequest ==
    /\ Main("iterate", "next")
    /\ iterator' = [list |-> cache, next |-> 1, size |-> Len(list[cache])]
    /\ UNCHANGED <<screenVars, startQueue, broadcasts, request, fieldVars,
                   genVars, history>>

\* The iterator counts down the size it began with and fails on a list that
\* has been added to since.
IteratorDone == iterator.next > iterator.size
ListChanged  == Len(list[iterator.list]) # iterator.size

RebroadcastPattern ==
    /\ ~IteratorDone /\ ~ListChanged
    /\ Main("next", "next")
    /\ BroadcastPattern(list[iterator.list][iterator.next], param[request])
    /\ iterator' = [iterator EXCEPT !.next = @ + 1]
    /\ UNCHANGED <<screenVars, startQueue, request, fieldVars, genVars, history>>

EndIteration ==
    /\ \/ IteratorDone /\ Return("next")
       \/ ~IteratorDone /\ ListChanged /\ Throws("next")
    /\ UNCHANGED <<screenVars, startQueue, broadcasts, fieldVars, genVars, overlap>>

OnStartCommandStep ==
    \/ CompareParameters \/ StartThread \/ ChooseHandOver \/ FinishAnd
    \/ ExistingRequest \/ RebroadcastPattern \/ EndIteration

MainStep ==
    ExecutePendingBroadcasts \/ OnStartCommand \/ OnStartCommandStep

-----------------------------------------------------------------------------
(***************************************************************************)
(* A generator thread.  A step of generator g from one place of its run to *)
(* the next; g stores into what others read in NewList, SetCurrent, Add    *)
(* and Finish.                                                             *)
(***************************************************************************)

Run(g, from, to) == Alive /\ pc[g] = from /\ pc' = [pc EXCEPT ![g] = to]

\* The store hits the main thread in the middle of a start command.
Disturb == disturbed' = (disturbed \/ mainPc \in InCommand)

NewList(g) ==
    /\ Run(g, "newList", "setCurrent")
    /\ cache' = g
    /\ UNCHANGED <<screenVars, startQueue, broadcasts, mainVars, currentGenerator,
                   list, initialised, finishCallback, answers, history>>

SetCurrent(g) ==
    /\ Run(g, "setCurrent", "init")
    /\ currentGenerator' = g
    /\ UNCHANGED <<screenVars, startQueue, broadcasts, mainVars, cache, list,
                   initialised, finishCallback, answers, history>>

\* prolog.init() reads its static result; a success opens the query.
PrologInit(g) ==
    /\ \/ initialised = "null"  /\ Run(g, "init", "load") /\ UNCHANGED answers
       \/ initialised = "false" /\ Run(g, "init", "alert") /\ UNCHANGED answers
       \/ /\ initialised = "true" /\ Run(g, "init", "size")
          /\ \E order \in Answers[param[g]] :
                answers' = [answers EXCEPT ![g] = order]
    /\ UNCHANGED <<screenVars, startQueue, broadcasts, mainVars, fieldVars,
                   finishCallback, history>>

\* Loading may fail; init() returns what the static holds by then.  What it
\* throws is Throw.
LoadProlog(g) ==
    /\ Run(g, "load", "init")
    /\ initialised' \in {"true", "false"}
    /\ UNCHANGED <<screenVars, startQueue, broadcasts, mainVars, cache,
                   currentGenerator, list, finishCallback, answers, history>>

\* The dialog is shown, and run() returns without resetting currentGenerator.
Alert(g) ==
    /\ Run(g, "alert", "failed")
    /\ UNCHANGED <<screenVars, startQueue, broadcasts, mainVars, fieldVars,
                   finishCallback, answers, history>>

\* An exception that no thread catches, or a fault in native code.
EndProcess ==
    /\ Alive
    /\ mainPc' = "killed"
    /\ UNCHANGED <<screenVars, startQueue, broadcasts, request, iterator, fieldVars,
                   genVars, history>>

\* Nothing catches what init() throws besides an IOException (a library that is
\* missing, JPL.init, null arguments, the query that loads the program), what
\* the dialog throws on a thread without a looper, or what textToTerm and the
\* first hasMoreSolutions throw.
Throw(g) ==
    /\ \/ pc[g] \in {"load", "alert", "hasMore"}
       \/ pc[g] = "init" /\ initialised = "true"
    /\ EndProcess

\* Mutant: the limit is off by one.
CheckSizeOffByOne(g) ==
    /\ Run(g, "size", IF Len(list[cache]) <= Limit THEN "hasMore" ELSE "end")
    /\ UNCHANGED <<screenVars, startQueue, broadcasts, mainVars, fieldVars,
                   finishCallback, answers, history>>

CheckSize(g) ==
    /\ Run(g, "size", IF Len(list[cache]) < Limit THEN "hasMore" ELSE "end")
    /\ UNCHANGED <<screenVars, startQueue, broadcasts, mainVars, fieldVars,
                   finishCallback, answers, history>>

HasMoreSolutions(g) ==
    /\ Run(g, "hasMore", IF answers[g] # <<>> THEN "check" ELSE "end")
    /\ UNCHANGED <<screenVars, startQueue, broadcasts, mainVars, fieldVars,
                   finishCallback, answers, history>>

\* Mutant: the callback is never looked at.
CheckCallbackNever(g) ==
    /\ Run(g, "check", "contains")
    /\ UNCHANGED <<screenVars, startQueue, broadcasts, mainVars, fieldVars,
                   finishCallback, answers, history>>

\* Without a callback, nextSolution gives the answer that hasMoreSolutions found.
CheckCallback(g) ==
    /\ Run(g, "check", IF finishCallback[g] # NoGen THEN "abort" ELSE "contains")
    /\ UNCHANGED <<screenVars, startQueue, broadcasts, mainVars, fieldVars,
                   finishCallback, answers, history>>

\* finishCallback.run() after query.abort(): the request that was handed over
\* starts on this thread, and its generator has nothing left to do.
RunCallback(g) ==
    /\ Alive /\ pc[g] = "abort"
    /\ pc' = [pc EXCEPT ![g] = "replaced", ![finishCallback[g]] = "newList"]
    /\ UNCHANGED <<screenVars, startQueue, broadcasts, mainVars, fieldVars,
                   finishCallback, answers, history>>

\* The thread that query.abort() started may kill the process, then or later:
\* JplQuery and SearchEngines say how.
AbortThread(g) == pc[g] = "replaced" /\ EndProcess

Solution(g) == Head(answers[g])
IsCached(g) == Solution(g) \in Range(list[cache])

\* Mutants: a pattern is added again, or one that is in the cache is broadcast
\* again.
CacheContainsNothing(g) ==
    /\ Run(g, "contains", "add")
    /\ UNCHANGED <<screenVars, startQueue, broadcasts, mainVars, fieldVars,
                   finishCallback, answers, history>>
CacheContainsRebroadcast(g) ==
    /\ Run(g, "contains", IF IsCached(g) THEN "broadcast" ELSE "add")
    /\ UNCHANGED <<screenVars, startQueue, broadcasts, mainVars, fieldVars,
                   finishCallback, answers, history>>

CacheContains(g) ==
    /\ Run(g, "contains", IF IsCached(g) THEN "size" ELSE "add")
    /\ answers' = [answers EXCEPT ![g] = IF IsCached(g) THEN Tail(@) ELSE @]
    /\ UNCHANGED <<screenVars, startQueue, broadcasts, mainVars, fieldVars,
                   finishCallback, history>>

\* ArrayList.add is not synchronised: of two threads in it at once, one may
\* overwrite what the other has stored.
Add(g) ==
    /\ Run(g, "add", "broadcast")
    /\ \/ list' = [list EXCEPT ![cache] = Append(@, Solution(g))]
       \/ (\E h \in Generators \ {g} : pc[h] = "add") /\ UNCHANGED list
    /\ Disturb
    /\ UNCHANGED <<screenVars, startQueue, broadcasts, mainVars, cache,
                   currentGenerator, initialised, finishCallback, answers, overlap>>

Broadcast(g) ==
    /\ Run(g, "broadcast", "size")
    /\ BroadcastPattern(Solution(g), param[g])
    /\ answers' = [answers EXCEPT ![g] = Tail(@)]
    /\ UNCHANGED <<screenVars, startQueue, mainVars, fieldVars, finishCallback,
                   history>>

\* Mutant: the end of a search does not reset currentGenerator.
FinishWithoutReset(g) ==
    /\ Run(g, "end", "done")
    /\ UNCHANGED <<screenVars, startQueue, broadcasts, mainVars, fieldVars,
                   finishCallback, answers, history>>

Finish(g) ==
    /\ Run(g, "end", "done")
    /\ currentGenerator' = NoGen
    /\ Disturb
    /\ UNCHANGED <<screenVars, startQueue, broadcasts, mainVars, cache, list,
                   initialised, finishCallback, answers, overlap>>

SearchStep(g) ==
    \/ CheckSize(g) \/ HasMoreSolutions(g) \/ CheckCallback(g) \/ RunCallback(g)
    \/ CacheContains(g) \/ Add(g) \/ Broadcast(g) \/ Finish(g)

GeneratorStep(g) ==
    \/ NewList(g) \/ SetCurrent(g) \/ PrologInit(g) \/ LoadProlog(g) \/ Alert(g)
    \/ SearchStep(g)

-----------------------------------------------------------------------------
Next ==
    \/ \E s \in Screens : OnCreate(s)
    \/ MainStep
    \/ \E g \in Generators : GeneratorStep(g) \/ AbortThread(g) \/ Throw(g)

\* The platform runs the main looper and every thread; the user opens screens
\* or does not, nothing need be thrown and an abort() need not end badly.
Fairness == WF_vars(MainStep) /\ \A g \in Generators : WF_vars(GeneratorStep(g))

Spec == Init /\ [][Next]_vars
FairSpec == Spec /\ Fairness

-----------------------------------------------------------------------------
(***************************************************************************)
(* Safety.                                                                 *)
(***************************************************************************)

\* As long as two generator threads were never at work at once, the list of a
\* search holds answers to its own parameters, each once, and no more than the
\* limit of generateAllSolutions: the check, the contains and the add are
\* separate steps over a field that any thread may replace.
CacheCorrect ==
    ~overlap => \A g \in Generators :
                   /\ Range(list[g]) \subseteq AnswersOf(param[g])
                   /\ IsInjective(list[g])
                   /\ Len(list[g]) <= Limit

\* Even when generator threads race, each of them adds at most one pattern after
\* a check of the size, so a cache outgrows the limit by at most one pattern
\* for every generator but one.
CacheOvershootBounded ==
    \A l \in Lists : Len(list[l]) < Limit + Cardinality(Generators)

\* currentGenerator is never left pointing at a search that is over, with requests
\* attached to it that nobody will serve: the search runs, or the one that takes
\* its place is about to store itself.  The one exception is a search whose own
\* init() failed: run() returns without resetting the field.
CurrentHasWorker ==
    currentGenerator # NoGen =>
        LET g == currentGenerator IN
            \/ pc[g] \in Working \cup {"failed"}
            \/ pc[g] = "replaced" /\ \E k \in Generators : pc[k] \in Starting

\* The main thread throws only when a generator stored into a list or reset
\* currentGenerator since the start command it handles was delivered: the null
\* check of onStartCommand, the two later reads of the field and the iteration
\* over the cache are correct when run without interference, whatever has failed
\* or was replaced before.
CrashNeedsInterference == mainPc = "crashed" => disturbed

\* What existingRequest sends to the screens of a request are answers to that
\* request, if no generator interferes and no two threads ever overlapped: the
\* window between the stores of cache and currentGenerator only shows it the
\* empty list of the next search.
RebroadcastsOwnAnswers ==
    mainPc = "next" /\ ~disturbed /\ ~overlap =>
        Range(list[iterator.list]) \subseteq AnswersOf(param[request])

\* What has been broadcast of the list of a search; the last pattern waits while
\* its generator is between add and sendBroadcast.
Sent(s) == Len(list[s]) - IF pc[s] = "broadcast" THEN 1 ELSE 0

\* at[i] is the place among the broadcasts of the i-th pattern of the list of s:
\* those that s will accept are its patterns from the first that it does not
\* show to the last that was sent, each once and in order.
InOrder(s, at) ==
    LET due == Len(shown[s]) + 1 .. Sent(s) IN
        /\ \A i \in due : broadcasts[at[i]].pattern = list[s][i]
        /\ \A i, k \in due : i < k => at[i] < at[k]
        /\ Range(at) = {n \in DOMAIN broadcasts : Accepts(s, broadcasts[n])}

Delivered(s) ==
    /\ Len(shown[s]) <= Sent(s)
    /\ \A i \in DOMAIN shown[s] : shown[s][i] = list[s][i]
    /\ \E at \in [Len(shown[s]) + 1 .. Sent(s) -> DOMAIN broadcasts] : InOrder(s, at)

Single(s) == \A r \in registered \ {s} : param[r] # param[s]

\* A screen that alone has its parameters shows exactly the list of its search,
\* in order and without repetition, up to the broadcasts that are under way and
\* the one that its generator is about to send: none is lost between the
\* threads, though the receiver is registered after the service was started.
ExactDelivery ==
    ~overlap => \A s \in registered : Single(s) => Delivered(s)

Pending(s) == {b \in Range(broadcasts) : Accepts(s, b)}

Handled(s) ==
    /\ s \in registered /\ s \notin Range(startQueue)
    /\ ~(request = s /\ mainPc \in InCommand)

\* Once the request of a screen has been handled, no pattern found so far by a
\* current search for its parameters is missing from it: the patterns that
\* existingRequest sends and those that the generator sends leave no gap,
\* wherever the generator was when the request came.  It holds while the cache
\* is the list of that search: once the next generator has replaced the cache and
\* not yet itself, existingRequest takes the empty list of the next search for the
\* list of this one, and the screen it handles then misses all of it.
LateScreenComplete ==
    ~overlap /\ Alive /\ currentGenerator # NoGen /\ cache = currentGenerator =>
        LET g == currentGenerator IN
        \A s \in Screens : Handled(s) /\ param[s] = param[g] =>
            \A p \in Range(list[g]) :
                \/ p \in Range(shown[s])
                \/ \E b \in Pending(s) : b.pattern = p
                \/ pc[g] = "broadcast" /\ p = Solution(g)

-----------------------------------------------------------------------------
(***************************************************************************)
(* Liveness, under FairSpec.                                               *)
(***************************************************************************)

\* The service comes to rest and can take a new request: every search ends, is
\* replaced or fails, and currentGenerator is reset by the last one, unless that
\* one failed.
AtRest ==
    /\ Active = {} /\ startQueue = <<>> /\ broadcasts = <<>>
    /\ currentGenerator = NoGen \/ pc[currentGenerator] = "failed"
ComesToRest == <>[](AtRest \/ ~Alive)

\* A request handed over while the query still has an answer to give is started,
\* unless a later request takes its place.
HandOverServed ==
    \A g \in Generators, r \in Screens :
        (pc[g] = "hasMore" /\ answers[g] # <<>> /\ finishCallback[g] = r)
            ~> (pc[r] # "none" \/ finishCallback[g] # r \/ ~Alive)

\* Every pattern in the list of a search ends up on the screen that asked for it.
SearchDelivered ==
    \A s \in Screens :
        pc[s] = "done" ~> (overlap \/ ~Alive \/ Range(list[s]) \subseteq Range(shown[s]))

-----------------------------------------------------------------------------
(***************************************************************************)
(* What the repository says of this program and the code does not do.      *)
(***************************************************************************)

\* The comment at the end of generateAllSolutions asks what becomes of a callback
\* set just then.  A generator never ends with a request handed over to it.
NoHandOverDropped ==
    \A g \in Generators : pc[g] = "done" => finishCallback[g] = NoGen
=============================================================================
