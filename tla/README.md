# Verification of PrechacThis for Android

PrechacThis searches passing patterns for jugglers. A form collects parameters,
a search screen asks a service for patterns, and the service runs a Prolog
program inside the process by way of JPL and a port of SWI-Prolog. This
directory holds TLA+ modules for the parts of it in which order matters, the TLC
runs that check them and proofs about them.

- Run a model: `tlc -config <run>.cfg <module>`; the runs are listed below.
- Check a proof: `tlapm <module>_proofs.tla`.

## 1. Inventory

### Search service (`PrechacGenerator.java`)

*State.* `currentGenerator`, `cache` (a list of patterns), the `finishCallback`
of each generator, and the static result of `Prolog.init()`. No lock protects
any of it.

*Operations.* `onStartCommand` (main thread) compares the request with the
current search, and either rebroadcasts the cache, starts a generator thread, or
leaves a Runnable with the generator at work. A generator thread makes a list,
stores the two fields, initialises Prolog, and then repeats: test the size of
the cache, ask for a solution, look at `finishCallback`, test, add and broadcast
the pattern. In the end it resets `currentGenerator`.

*Hard.* The main thread reads each field several times per command while
generators write it. Two generators overlap if a request comes before the first
has stored `currentGenerator`. A hand-over can come after the last look at it.

*Correct if* a list holds each answer to its own parameters once and stays in
its limit, a screen sees every pattern found for it, `currentGenerator` is never
left set with nobody at work, and the main thread survives.

### Search screen (`SearchActivity.java`) and local broadcasts

*State.* The receiver's registration, the adapter's list. *Operations.* `onCreate`
starts the service and registers the receiver; `onReceive` compares the
parameters of a broadcast with the screen's. The receivers of a broadcast are
fixed when it is sent, and called later. *Correct if* no pattern is lost between
the start of the service and the registration.

### Search form (`PrechacThisActivity.java`, `PatternParameters.java`)

*State.* The parameters in a field, and again in a spinner and two bars.
*Operations.* Callbacks that nest: a new period bounds the second bar, whose
callback bounds the first, whose callback runs inside. Saving and recreation
through a Bundle; the intent for the search screen. *Correct if* field and
widgets agree after any sequence of changes, and recreation and intents carry
the same parameters.

### Prolog start (`Prolog.java`, `JPL.java`, `jpl.c`, `PL_initialise`)

*State.* A static Boolean, `jpl_status`, `pvm_dia`, `GD->initialised`, two files.
*Operations.* Extract the boot file, set the arguments, start Prolog, extract the
program, load it, store the result. *Hard.* No lock; three notions of "already
started"; files that a killed process leaves truncated. *Correct if* true means
that a search can run, and no failure is turned into another by a later call.

### Engine pool (`jpl.c`, `PL_set_engine` of `pl-thread.c`)

*State.* `engines`, the thread each engine is attached to, a mutex and a
condition. *Operations.* `attach_pool_engine` (scan, create, wait),
`release_pool_engine`, `attach_engine`. *Hard.* Releases happen outside of the
mutex; the signal too. *Correct if* no engine has two owners, scans end, and a
waiting thread is woken when it can go on.

### Queries (`jpl/Query.java`)

*State.* The static map `m` from engines to topmost queries; `open`, `engine` and
`subQuery` of each query; Prolog's own stack of open queries. *Operations.*
`open`, `close`, `get1` (closes on the last solution), `abort`. *Hard.* `open`
may throw halfway; `abort` is not synchronized and uses a thread of its own.
*Correct if* Java's and Prolog's stacks agree and an engine is given back when,
and only when, it is empty.

### Pattern, rows and details (`Pattern.java`, `PatternRenderer.java`, `DetailActivity.java`, `Orbit.java`, `ClubPosition.java`, `StartPosition.java`)

*State.* The rows of the list, each a sequence of views that the list view
recycles for other patterns; the parcel that carries a pattern to the detail
screen. *Operations.* `getView` resizes and overwrites a row; a click writes a
parcel; `onCreate` of the detail screen follows the siteswaps to find the orbits,
and walks through the pattern until every club has been seen. *Hard.* Heights are
fractions; a throw is matched with any club that lands at the same time, whoever
catches it; jugglers are shifted by whole beats. *Correct if* a row shows the
pattern a click on it opens, orbits share out tosses and clubs, and the start
positions hold all clubs at beats at which they can be caught.

### Siteswap generator (`prechacthis.pl`)

*State.* None but one record in the database below. *Operations.* `siteswap/14`
as the app calls it: choose landing sites, take the lowest throws for them, raise
them until the objects are used up, bound the passes, rotate. *Hard.* Bounds in
steps of a fraction of the period, where one step off invents or loses patterns.
*Correct if* it finds exactly the valid patterns, each in one rotation.

### Recorded database (`pl-rec.c`, `pl-dbref.c`)

*State.* One list of records per key, with a reference count and a flag.
*Operations.* `recorded/3`, which leaves choice points, `erase/1`, `recorda/2`.
Every search forgets what earlier searches recorded and then makes a record of
its own, in a database that all engines share. *Hard.* Records that are erased
while another engine has a choice point at them; an erase of what another has
erased. *Correct if* no choice point dangles, erased records are reclaimed, and a
check forgets all that was there.

### Program reload (`pl-proc.c`, `pl-index.c`, `pl-supervisor.c`)

*State.* Of each predicate: its clauses with their generations, its supervisor,
its clause indexes, those that were replaced, and whether it has erased clauses.
*Operations.* Calls, which may create the supervisor and an index on their way;
the unloading of the file, the addition of each clause, and the collection of
erased clauses. `Prolog.init` may load the program while another thread searches.
*Hard.* Most of what a call does is done without a lock; unloading and collection
stop all threads at whatever instruction they are. *Correct if* a call is given
the clauses of one load only, and nothing a call still looks at is freed.

### Not modelled

- *JPL's terms* (`Term.java`, `Util.java`): conversions without state of their own.
- *Java called from Prolog* (`jni_...` in `jpl.c`): the app loads no `jpl.pl`, so
  nothing calls it.
- *The rest of the Prolog virtual machine*: compiler, reader, arithmetic, garbage
  collection, streams. It is a vendored interpreter of more than 120000 lines, of
  which this app meets what is modelled here; so a small part of all lines in the
  repository is mapped, though almost all of the app's own.
- *Constraints, multiplexes, HTML* in `prechacthis.pl`: the app passes empty lists.
- *Resource archives*: sequential reading of the boot file's format.
- *Build files and layouts*: no behaviour.

The hazards of all these, each at its line and with the properties that would
notice it, are in `PROJECT.json`.

## 2. Plan

Done, in this order:

1. `PrechacGenerator`: service, screens, broadcasts. Proofs.
2. `EnginePool`, refining `ResourcePool`. Proofs, the refinement included.
3. `JplQuery`, which extends `EnginePool`: queries over engines. Proofs.
4. `SearchEngines`, which extends `JplQuery`: the service as a client of both. Proofs,
   that it implements `JplQuery` included.
5. `SearchForm`. Proofs, with those of `PatternScreens`.
6. `PrologStart`. Proofs.
7. `Siteswap` against a definition of valid patterns, `PatternDetails`, and
   `PatternScreens`, which composes both with the form. Proofs, of what the search
   finds, what orbits share out and what the start positions hold, too.
8. `RecordedDb`: what concurrent searches do to each other in it. Proofs.
9. `ProgramReload`: what a second load does to a search that runs. Proofs.

What is left, in the order of its worth:

- `retract/1` and dynamic predicates in `ProgramReload`: the app reaches none.
- Destroyed search screens, whose receivers stay registered.

## 3. Modules

| Module | Models | Extends / uses |
|---|---|---|
| `PrechacGenerator` | search service, screens, broadcasts | |
| `MCPrechacGenerator` | answers, screens and symmetry for TLC | `PrechacGenerator` |
| `PrechacGenerator_proofs` | | `PrechacGenerator` |
| `ResourcePool` | what a pool of engines promises | |
| `EnginePool` | the pool of `jpl.c` | instance of `ResourcePool` |
| `MCEnginePool` | threads for TLC | `EnginePool` |
| `JplQuery` | `Query.java` over the pool | `EnginePool` |
| `MCJplQuery` | symmetry for TLC | `JplQuery` |
| `JplQuery_proofs` | of `EnginePool`, too | `JplQuery` |
| `SearchEngines` | generator threads as users of queries | `JplQuery` |
| `SearchEngines_proofs` | | `SearchEngines`, `JplQuery_proofs` |
| `SearchForm` | form, widgets, parameters | |
| `Siteswap` | what the search finds, and what valid patterns are | |
| `Siteswap_proofs` | that they are the same | `Siteswap` |
| `PatternDetails` | rows, parcels, orbits, start positions | |
| `PatternScreens` | from the form to the details of a pattern | `SearchForm`, `Siteswap`, `PatternDetails` |
| `MCPatternScreens` | jugglers and objects for TLC | `PatternScreens` |
| `PatternScreens_proofs` | of `SearchForm` and `PatternDetails`, too | `PatternScreens`, `Siteswap_proofs` |
| `PrologStart` | `Prolog.init` and JPL's initialisation | |
| `PrologStart_proofs` | | `PrologStart` |
| `RecordedDb` | records of concurrent searches | |
| `MCRecordedDb` | symmetry for TLC | `RecordedDb` |
| `RecordedDb_proofs` | | `RecordedDb` |
| `ProgramReload` | a predicate while its file is loaded again | |
| `MCProgramReload` | symmetry for TLC | `ProgramReload` |
| `ProgramReload_proofs` | | `ProgramReload` |

### PrechacGenerator

A screen makes one request, so its generator, Runnable and list bear its name.
The main thread is a program counter `mainPc` with one step for every read of a
shared field in `onStartCommand`, `startGenerator` and `existingRequest`; each
generator has a `pc` with one step for every read or write it makes. The
iteration over the cache keeps the list, the position and the size it expects,
so that an add in between is the exception that Java throws, or a pattern passed
over. What Prolog answers is any sequence of `Answers[parameters]`, chosen when
the query is opened. `overlap` and `disturbed` are history variables: properties
that a race breaks are stated for behaviours without that race, and what
survives it is stated without condition.

The process ends in one of two ways, and `mainPc` tells them apart. The main thread
has `crashed` by an exception of its own in `onStartCommand`: what that takes is
`CrashNeedsInterference`. Or it was `killed` from another thread. A generator thread
catches nothing, so the process ends with whatever is thrown there (`Throw`): by
`init()`, which catches only what extracting a file throws, neither a missing library
nor what JPL throws; by the dialog that reports the failure of Prolog, shown from a
thread without a looper; by `textToTerm` and the first `hasMoreSolutions`. And an
`abort()` may kill it (`AbortThread`). The module leaves open whether any of these
happens; `PrologStart` says what it is in `init()` that throws, and `SearchEngines`
that an `abort()` always kills.

### ResourcePool, EnginePool

`ResourcePool` takes and gives back an engine in one step. `EnginePool` has a
step for every try of the scan, with releases by other threads in between, the
creation of an engine, the wait, wakeups with and without a signal, and the
signal after a release. An engine is attached by two views that must agree:
`owner`, in the engine, and `attached`, in the thread. Threads in `Aborters` only
attach themselves to one engine, as the thread of `Query.abort` does. A failed
creation returns without unlocking `engines_mutex`, as the code does.

### JplQuery

Methods of a query are synchronized on it: `monitor` names the query whose
method a thread is in. `open` is an attachment and then one step that succeeds,
throws after the query has been entered into `m` (`BadGoals`), or throws for want
of an engine. `close` is a step of Prolog, a release if `subQuery` is null, and a
return. `frames` is Prolog's own stack for each engine.

`abort()` starts a thread that attaches itself to the engine if it can, and calls
`PL_action` either way. Without an engine that dereferences the null pointer of
an unattached thread: undefined in C, a segmentation fault on the system this
runs on, and modelled as the end of the process. `Killed` ends it for any other
reason, at any moment: a client that does not catch what `open()` throws, as the
generator thread does not, or Android.

### SearchEngines

The generator threads of the service drive `JplQuery`: a search exhausts its
query (which closes it), fills the cache (which leaves it open), or is taken over
(left open and aborted). A request starts a thread only when none is at work, so
nothing here depends on the races of `PrechacGenerator`.

### SearchForm

One action per callback the platform makes; the callbacks nested in it are
functions from one form to the next, in the order in which the widgets call
them. `Bundle` and `Intent` are functions from keys to values, and their
conversions look keys up. `others` stands for jugglers, objects and height, which
no callback relates to anything else. When the platform restores the state of
the views it sets the values `onCreate` has already set, so it is left out.

### PrologStart

Each thread walks through `init`: tests of `jpl_status` are separate from the
action they allow, as in the code. A file is whole or not; the last thread to
truncate it makes it whole when it has written everything, and what an overtaken
writer leaves is left open. A thread that reads a file that was not whole at some
moment while it read may fail or load half of it. `Restart` kills the process at
any time; only the files outlive it. It justifies the initial states of
`EnginePool`: one thread owns the default engine, and it is the one that started
Prolog (`ReadyToSearch`).

### Siteswap, PatternDetails, PatternScreens

`Siteswap` gives the set of patterns that the query's backtracking runs through;
the random order in which it does so is left out, as the order of arrival is a
matter of `PrechacGenerator`. Rational numbers are integers in units of 1/jugglers
of a beat, which is exact: all heights and times divide by it. `PassingPatterns`
is the reference: throws by height and receiver such that no two land at the same
beat of the same juggler. `PatternDetails` follows the walks of `Orbit` and
`ClubPosition` as recursive functions. `PatternScreens` adds to the form one row
of the list, which may be bound to any pattern found and recycled for any other,
the parcel, and a detail screen that may be destroyed and created again.

### RecordedDb

A search is a generator thread in the check at the beginning of `siteswap/14`.
`L_RECORD` is held within each of the steps, and between them anything may
happen; `erase/1` looks at the record before it takes the lock, so that is a
step of its own. Records are numbered as they are made, so that the list is a
set. Under an erased record that another search has freed, `erase/1` may follow a
null pointer or reach `assert(0)`: the end of the process.

### ProgramReload

One predicate of the program: static, not multifile, not of the two-clause shape
that gets an `S_LIST` supervisor. The calls are those that match all its clauses
and have one argument that can be indexed; whatever heuristics decide between
list and index are a choice, so that small predicates get indexes too. A call
goes from its frame over the supervisor to its clauses, with a step for every
read of shared memory. The loader unloads the file in one step, as it stops all
threads for it, adds a clause in three steps, and collects. Not every test of the
unlocked counter of clauses can be told apart from the state of the list: a
clause that is linked and not yet dated may be counted or not. Memory that was
freed is not reused; to read it ends the model (`crashed`).

Three races in the code end the guarantees, and are history variables: a call
that meets a clause before its generations are set (`glimpsed`), an index that is
made while the file is loaded (`late`, and `stopped` if the unload itself came in
between), and `S_UNDEF` stored without the lock after clauses were added
(`lateUndef`). Properties hold for everything else; without any one of these
exceptions TLC finds a violation.

## 4. Runs

| Run | Module | Bounds | States |
|---|---|---|---|
| `two_screens` | MCPrechacGenerator | 2 screens, 2 searches, up to 3 answers, limit 2, fair | 111 thousand |
| `three_screens` | MCPrechacGenerator | 3 screens, 2 searches, one with 2 answers and one with none, limit 2 | 2.1 million |
| `dropped_hand_over` | MCPrechacGenerator | 2 screens, 1 answer each | violation |
| `lost_wakeup` | MCEnginePool | 3 users, 1 thread of `abort`, 2 slots | violation |
| `query_stack` | MCJplQuery | 3 users, 1 thread of `abort`, 2 slots, 3 queries | 406 thousand |
| `search_engines` | SearchEngines | 3 generators, 2 threads of `abort`, 4 queries, 2 slots, fair | 99 thousand |
| `engines_run_out` | SearchEngines | 3 generators, 3 queries, 2 slots, fair | violation |
| `search_form` | MCPatternScreens | periods 1 to 4; two jugglers with 4 objects, three with 5 | 17 thousand |
| `begins_at_minuend` | MCPatternScreens | periods 2 and 4 | violation |
| `prolog_start` | PrologStart | 3 threads | 1.5 million |
| `records` | MCRecordedDb | 5 searches | 167 thousand |
| `reload` | MCProgramReload | 2 calls, 4 clauses, 2 loads | 1.4 million |

What they show:

- **two_screens.** `CacheCorrect`: without overlap the three separate steps of
  testing, adding and limiting yield a list of distinct answers to its own
  parameters. `CacheOvershootBounded`: even with overlap the limit is exceeded by
  at most one pattern per additional generator. `ExactDelivery`: a screen alone
  with its parameters shows its list, in order, less what is under way. Under
  fairness the service comes to rest, with `currentGenerator` reset unless that very
  search could not start Prolog (`ComesToRest`), a request handed over while
  an answer is left is started or replaced (`HandOverServed`), and a finished
  search's answers arrive (`SearchDelivered`). Two screens are enough for every
  pair of a generator and a request, and for two overlapping generators; answers
  that repeat make the cache's test matter.
- **three_screens.** `CurrentHasWorker`, `CrashNeedsInterference` and
  `LateScreenComplete` need a third request that comes while a second is taking
  over; `RebroadcastsOwnAnswers` a request between the stores of cache and
  generator. `LateScreenComplete` is stated for the time outside of that moment:
  `cache` and `currentGenerator` are two fields, and in between a request for the old
  search is answered with the list of the next one, which is still empty.
  `CurrentHasWorker` has one exception, a current search whose own `init()` failed:
  what is handed over to it is lost. `CrashNeedsInterference` has none. Two answers to one search let it be taken over after its first.
- **dropped_hand_over** (finding). A request handed over during the last
  `hasMoreSolutions()` or after it never starts.
- **lost_wakeup** (finding). A release between the scan and the wait of another
  thread signals nobody.
- **query_stack.** No engine has two owners, the first one stays where it is, and
  the pool implements `ResourcePool` while queries use it. Stacks agree, free
  engines are clean, engines stay with their queries, are given back, and `abort`
  comes too late. Three queries make a stack
  with a middle; two slots make threads wait; one of the queries throws in `open`.
- **search_engines.** Which searches leak their engine, that a search waits only
  for the dead, that every hand-over kills the process, and that a generator ends
  (`GeneratorEnds`) unless it waits for the dead or an engine could not be created.
- **engines_run_out** (finding). After as many unfinished searches as there are
  engines the next search blocks for ever: ten in the code, two here.
- **search_form.** Form and widgets agree after any changes, the range of passes
  makes sense, and recreation and requests carry the parameters. For every request
  that the form can make at these sizes the search finds exactly the valid
  patterns (`SearchFindsPatterns`); a recycled row shows the pattern it is bound
  to; orbits share out tosses and clubs; start positions hold all clubs, and each
  where it can be caught if the jugglers keep step. Periods 1 to 4 with two and
  three jugglers give remainders 0, 1 and 2 of the period by the number of
  jugglers, throws that start below zero, and patterns with and without passes.
- **begins_at_minuend** (finding). In patterns of even length for two jugglers the
  second one begins half a beat late.
- **prolog_start.** What `init()` promises when threads do not overlap, from any
  files a killed process leaves; and that even when they do, true means that
  Prolog runs. Every step may fail by itself: libraries and classes may be missing,
  files may not be written, `PL_initialise`, `jpl_post_pvm_init` and the query that
  loads the program may throw. A thread that is alone dies of nothing else, and only
  in the first call (`DeathNeedsOverlap`). With overlap the process may die, `jpl_status` may turn from OK to
  PVM_FAILED on the way (a thread that was overtaken between the test and
  `jpl_do_pvm_init`), and a program may be read half-written: the condition
  `~overlapped` of three properties marks where that begins.
- **records.** Choice points are counted exactly and never dangle, what is erased
  is reclaimed, a check that ends well has forgotten all that was there, and only
  searches that were in their checks together fail in them, and find nothing, or
  kill the process. It takes two overlapping searches to leave two records, and
  three more to meet at them: five.
- **reload.** `FreedNeverRead` and `CallsSeeOneProgram`, with the exceptions named
  above. Two calls are enough for an index that takes another's place and for a
  supervisor that is created while another call is past it; four clauses for an
  index that the collection removes because little else is left in it.

### Bounds

`Limit` stands for 3000 and `MaxEngines` for 10; both matter only by being
reached or not, and both are reached. The number of screens, threads and queries
bounds every other variable. No run has a state constraint. Where threads may
end, users may stop, or the process may be killed, the system may really stop,
and the configuration does not check deadlock.

### Fairness

`FairSpec` of `PrechacGenerator` (`two_screens`) assumes weak fairness of the main looper and of
each generator thread: the platform schedules runnable threads. Nothing is
assumed of the user, or of the thread of `abort()`. `SearchSpec` assumes it of
generator threads and abort threads, not of spurious wakeups. No lock in the
modelled code is assumed to be fair beyond that.

### Symmetry

`three_screens` takes screens as symmetric, `query_stack` the two queries that do
not throw, `records` the searches and `reload` the calls. All of them check safety
only (the temporal properties of `query_stack` are action properties and the steps
of a refinement, without fairness), and none names one of them in a property or an
initial state.

## 5. Proofs

All for arbitrary screens, threads, queries, answers, limits, numbers of slots,
searches, calls, clauses, loads and periods, from the assumptions named in the
modules (`ScreensAssumption`, `AnswersAssumption`, `LimitAssumption`,
`ThreadsAssumption`, `MaxEnginesAssumption`, `CreateAssumption`,
`QueriesAssumption`, `StartAssumption`, `SearchesAssumption`, `SizesAssumption`,
`CallsAssumption`, `PeriodsAssumption`, `OthersAssumption`, `ParametersAssumption`,
`NullAssumption`), which say no more than that null is none of the things, that
numbers are natural or positive, that there are at least two jugglers (the spinner
offers no fewer), that screens and searches are finitely many, and that periods are
at most 98: a new bar goes up to 100 (the longest period in the code is 10).

Induction over numbers is not among the facts that the prover can be given, as its
theorem takes a predicate as a parameter. Where a proof here needs it, the predicate
is a set. `SubsetInduction` says it of the subsets of a finite set: a set of them that
holds each one whose proper subsets it all holds, holds them all. It follows from the
well-foundedness of these subsets, and from it the same for numbers (`UpTo`).
`Iterates` gives the sequence of states of any walk, and `SumsExist` a function on
the subsets of a finite set that satisfies the recursive definition of its sums.

**PrechacGenerator.** `TypeCorrect` needs two facts beside the types: a generator
between solution and add has a solution left, and a main thread inside a command
has a request. `CurrentAlwaysHasWorker` adds that the thread about to run a
callback has one: between that and the store of the next generator the field still
names the one that was replaced. `SoloCacheCorrect` is not inductive as it stands: `SoloInv` says
where, in a solo run, the size is known to be below the limit and the pattern
known to be new, and that the worker's own list is the cache; `OwnAnswers` that
what is left of a query are answers to it. `CrashAlwaysNeedsInterference` needs
that an undisturbed command still sees what it tested: a non-null
`currentGenerator`, and a list of the expected size; no thread but the main one
brings it to where it has crashed.

What the screens are shown rests on one invariant of the whole service,
`ServiceInv`. A screen's request is in one place only: to come, in the queue, being
handled, a thread, or a callback, and no callback serves two (`Once`). A list is
empty until its generator has started, and alone it is then that of
`currentGenerator` (`FreshLists`, `CurrentInv`). `OwnIteration` and `Channels` say
what the main thread iterates over, and who is behind what waits in the queue of
broadcasts; from them follow `AlwaysExactDelivery` and
`AlwaysRebroadcastsOwnAnswers`. `NoGaps` says of every screen with the parameters of
the current search that each pattern of the list is shown, under way, or still
ahead of the iterator that serves it: `LateScreenAlwaysComplete`. The overshoot is
bounded because a list has at most as many patterns beyond the limit as there are
threads between the test of the size and the add, less the one that may fill it
(`Room`); that needs the generators to be finitely many.

**EnginePool.** The proofs are at the top of `JplQuery_proofs`. `PoolInv` joins the
types, `ExclusiveEngine`, `FirstEngineKept` and `EmptyHanded` (a thread in the scan
has no engine). The refinement proof maps the take and the release to the abstract
ones and all else to stutters.

**JplQuery.** The step of a query implies a step of the pool (`QueriesUsePool`),
which brings in the pool's invariants. On top, `Inv` says that
at most one thread is in the methods of a query and what it found when it
entered still holds (`Monitors`); that each query on an engine's stack is open on
that engine, is there once, and knows whether it is on top of something, and that
an engine with a stack has an entry in `m` (`Stacked`); and that a query that is
being closed has left the stack, and an engine about to be released is empty
(`Closing`). From
these follow `FreeEnginesClean`, `EnginesStay` and `AbortNeverReaches`. They hold
although `open` may throw halfway.

That Java's and Prolog's stacks agree (`StacksAlwaysAgree`) and that an engine is
given back when its stack is empty (`EnginesGivenBack`) hold but for engines on
which an `open` has thrown. For that the exception must be one that never goes
away again: the query that threw stays in `m`, or below one that is open, and so
the engine stays `Tainted`. `StackInv` adds, for each place in `open` and `close`,
what the query knows of the one below it (`InMethods`), and that a thread outside
of them has its engine for some query (`HasReason`).

**SearchEngines.** `SearchesUseQueries` is the refinement: every step of a search,
its death by an exception included, is a step of `JplQuery` or a stutter, with the
same variables, so that all of the theorems above hold of the searches. The rest
is one induction, `AllInv`: one generator is at work at a time (`OneAtWork`), a query
belongs to one search and one that is aborted to nobody any more (`OwnQueries`), and
no search leaves an engine tainted, as an exception on a thread ends the process
(`NoneTainted`). So a leaked engine has an open query
(`OnlyOpenQueriesLeak`), and if all engines are taken while the only thread at work
waits, all are held by threads that have ended (`AlwaysWaitsForTheDead`).

**SearchForm, PatternScreens.** The callbacks nest in an order that depends on the
values they find. The lemmas follow each of them from any values of the widgets;
together they say that, whatever ran first, a form whose callbacks have all run is a function of
its parameters (`Settled`), and `FormInv` is little more than that. The theorems
about rows and details need that a parcel is read as it was written, for patterns
of any length (`ParcelRoundTrip`), and that a rendered row does not depend on what
was in it (`RenderedRow`); that what a search finds are sequences of tosses
(`FoundIsTosses`); and `SearchedInv`: the query is one that the form can make, and
the row, the parcel and the details hold a pattern found for it.

**Siteswap.** That a search finds exactly the valid patterns (`SearchComplete`), no
two of them rotations of each other (`SearchOnce`), holds for every query with at
least two jugglers and a period: `SearchAlwaysFinds` is this for what the form asks.
What `addObjects` returns is the set of tails that differ from the lowest throws by
whole raises, stay below the maximum and use up the objects (`AddObjectsIs`: the
step of the recursion splits the objects between a throw and the tail behind it).
Soundness (`FoundSound`) adds up the lowest throws and the raises; completeness
(`FoundComplete`) takes a valid pattern apart again: its landing sites are a
permutation, its throws lie above the lowest ones for these sites by whole raises,
and the raises are what is left of the objects. Then come the rotations: a rotation
of a pattern is a pattern with as many passes (`RotatedPattern`), and among
the finitely many rotations of one there is a highest, as `PatternLess` is transitive
and total (`HighestExists`). A throw as the reference has it, height and receiver,
determines its siteswap (`PlainOnce`), so that nothing is found twice.

**PatternDetails: orbits.** A siteswap takes the indices of a pattern to one another,
and no two of them to the same one (`SearchLands`): so the walk of `Orbit` comes back to where it
began, and meets the least set of indices that contains the first one and
is closed under the step (`OrbitIs`). What is left when such a set is taken
out of a closed set is closed again, so the orbits share out the pattern (`OrbitsSplit`),
and the heights of a closed set add up to a whole number of clubs for each juggler,
since they differ by whole rounds from the distances between its indices, which add
up to nothing. `OrbitsAlwaysShare` is the sum of this over the orbits.

**PatternDetails: start positions.** The walk of `getClubPositions` goes through the
beats, and keeps a club for each throw that it has seen; it has no bound of its own
in the code. `ClubsInv` says that every throw in the air has a club of its own in the
list, and that what is left to find and what was found make up the number of clubs:
so a walk never finds more than there are. That it finds all of them, and so ends, is
a count. Give each throw in the air at a beat the beats it still has to go. One beat
later each has one less, and the new throw its whole height; after a round everything
is as it was. So the number of throws in the air, added up over a round, is the sum of the
heights thrown in it (`RestStep`, `RestRepeats`), and there is a beat with as many
throws in the air as that makes on average (`SomeTimeFull`). In a round each juggler
makes each throw of the pattern once (`RoundThrows`), so the average is the number of
objects (`AsManyClubs`), and the walk has them all within `LongestWalk`, the bound of
the model (`WalkEnds`). If the jugglers keep step, a throw made at a beat lands at a
beat of the juggler it is thrown to, at which they have a throw to make, and no two
land there at once (`LandsInStep`, `LandsAlone`, `LandsOnThrow`); `AllFly` says that
this is so of each club the walk has kept. `StartsAlwaysHold` joins both.

**PrologStart.** `StartInv` holds with any overlap: what has been passed through
fixes the status. `SoloStart` says, for each place of the only busy thread, what
it has made of the status, the arguments, the default engine and the files; the
others are idle. `ReadyIsReady`, `DeathAlwaysNeedsOverlap` and
`ResultStaysSettled` follow.

**RecordedDb.** `Inv` adds to the properties that erased records lie under a choice
point and the list knows of them (`Dirty`), that choice points belong to searches
in their checks, where what a search has still to forget may be (`Ahead`: at or
behind its choice point, or in its hands), and that a search that has met no other
has its record to itself (`Alone`). The count of choice points is a cardinality, so
the searches must be finite; that a set of records has a youngest follows from the
well-foundedness of the subsets of a finite set.

**ProgramReload.** `FreedIsNeverRead` rests on `Inv`: what is linked is alive and
neither freed nor among the old indexes (`Linked`), what a call with an open frame
holds is not freed, and an index that is being made holds live clauses only and is
known to nobody else (`Holds`), as long as no unload has stopped the making of an
index; and new clauses get numbers that were never erased (`Numbered`), which needs
that the clauses of all loads are a multiple of those of one.

`OneProgramIsSeen` is the theorem that a call is given the clauses of one load. Its
invariant `ProgramInv` says that the clauses visible to a frame are the first so
many of one load (`Initial`), and stay the same while the frame is open: loads
number their clauses upwards and unload all of the last one at once, and no clause
gets a generation that a frame has seen already (`Dates`). What a call has been
given is what is visible of the chain it walks, up to where it is (`Given`), if
it has met no clause without a date. The chain is the list, or the table of an
index, which holds all clauses of one load unless it was made during a load
(`Tables`); since the clauses of different loads are disjoint intervals, a chain
that starts in one load meets nothing visible in another. `Codes` and `Chosen` say
the same of a supervisor that stands for a single clause or for none.

**Model-checked only.** Liveness, which is out of the prover's reach: `ComesToRest`,
`HandOverServed`, `SearchDelivered`, `GeneratorEnds` and `HandOverKills`, in the runs
named in section 4; and the four findings, which are counterexamples. Every other
property of a passing run, each invariant and each action property, has a theorem.

## 6. Limits of the models

- Reads and writes of fields are sequentially consistent; Java and C promise less
  for fields without `volatile` or locks. Two concurrent calls of `ArrayList.add`
  may lose one of the patterns here; that they may leave a null is not modelled.
- `PatternScreens` checks the search and the details at small sizes; products near
  2^31 in `Rational.java` are out of reach of the form's sizes and left out, as is
  its `mod()`, which nothing calls.
- `RecordedDb` and `ProgramReload` are one key and one predicate each; a search is
  a call at a time there, and not the generator thread of `PrechacGenerator`.
- One process with one service object; the service is never destroyed while
  screens live, and screens are never destroyed.
- A user of `Query` iterates its own topmost query; the helper queries of
  `Util.textToTerm` are opened and closed at once and left out.
- `SeekBar`, `Spinner`, `startService`, `LocalBroadcastManager`, `Bundle` are
  modelled from how the code uses them.
- `PL_initialise` succeeds or fails as a whole; what two threads inside it do to
  each other is either.
- Three times several accesses to shared memory are one step, where nothing in between
  would be seen that the model does not have: `jpl_post_pvm_init` in `PrologStart`;
  the two reads of `GetDbRef` in `RecordedDb` (`pl-dbref.c`, lines 198 and 199), since a record
  freed between them is one that `EraseNothing` comes upon; and in `ProgramReload`
  the three stores of `DateClause` (`pl-proc.c`, lines 937 to 940), since a call that
  looks at the clause between them is one that has met it without a date.
