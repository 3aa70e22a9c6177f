---------------------------- MODULE PrologStart ----------------------------
(***************************************************************************)
(* How the Prolog system comes up.  Every generator thread calls           *)
(* Prolog.init, which tests a static field, extracts the boot file, starts *)
(* the Prolog system by way of JPL, extracts the program and loads it, and *)
(* stores the result in the field: all without a lock.  JPL keeps a status *)
(* of its own, and PL_initialise a third.                                  *)
(*                                                                         *)
(* Files outlive the process; all else is lost when it is killed.  JPL's   *)
(* mutexes are not seen here: jpl_do_jpl_init is one step, as its mutex    *)
(* makes it, and the other mutex is taken only when the status is not OK,  *)
(* which it is by the time of the first query.  jpl_post_pvm_init is one   *)
(* step as well: all that may come in between may also come before it.     *)
(***************************************************************************)
EXTENDS Naturals

CONSTANTS
    Starters,       \* the generator threads
    NoThread,
    StartMayFail    \* whether libraries and classes may be missing, memory may
                    \* run out, and PL_initialise and load_files may fail

ASSUME StartAssumption == NoThread \notin Starters /\ StartMayFail \in BOOLEAN

VARIABLES
    result,         \* Prolog.initialisationSucceeded
    jpl_status,
    pvm_dia,        \* the default arguments: those of JPL, or with the boot file
    initialised,    \* GD->initialised
    main,           \* the threads that have run through PL_initialise
    defaultEngine,  \* the thread whose engine was stored in slot 0 of the pool
    whole,          \* for each file, whether it has its whole contents
    opener,         \* for each file, the last thread to truncate it
    spoiled,        \* the threads that read a file while it was not whole
    program,        \* the program in Prolog's database
    pc,
    killed,         \* what killed the process
    overlapped      \* two threads have been inside init() at the same time

vars == <<result, jpl_status, pvm_dia, initialised, main, defaultEngine, whole,
          opener, spoiled, program, pc, killed, overlapped>>

Files == {"boot", "pl"}
Steps == {"idle", "boot", "writeBoot", "args", "testArgs", "readArgs", "setArgs",
          "clearArgs", "storeArgs", "initialise", "doInit", "inside", "post",
          "pl", "writePl", "load", "loading", "yes", "no"}

PrologTypeOK ==
    /\ result \in {"unset", "yes", "no"}
    /\ jpl_status \in {"RAW", "PVM_MAYBE", "OK", "JPL_FAILED", "PVM_FAILED"}
    /\ pvm_dia \in {"null", "defaults", "boot"}
    /\ initialised \in BOOLEAN
    /\ main \subseteq Starters
    /\ defaultEngine \in Starters \cup {NoThread}
    /\ whole \in [Files -> BOOLEAN]
    /\ opener \in [Files -> Starters \cup {NoThread}]
    /\ spoiled \subseteq Starters
    /\ program \in {"none", "partial", "whole"}
    /\ pc \in [Starters -> Steps]
    /\ killed \in {"no", "nullArgs", "failed", "notLoaded"}
    /\ overlapped \in BOOLEAN

\* An earlier process may have left any of the files, whole or not.
PrologInit ==
    /\ result = "unset"
    /\ jpl_status = "RAW" /\ pvm_dia = "null"
    /\ initialised = FALSE /\ main = {} /\ defaultEngine = NoThread
    /\ whole \in [Files -> BOOLEAN]
    /\ opener = [f \in Files |-> NoThread] /\ spoiled = {}
    /\ program = "none"
    /\ pc = [t \in Starters |-> "idle"]
    /\ killed = "no" /\ overlapped = FALSE

-----------------------------------------------------------------------------
Goto(t, from, to) == pc[t] = from /\ pc' = [pc EXCEPT ![t] = to]

Busy(t) == pc[t] # "idle"

\* An exception that nobody catches kills the process.
Die(t, from, cause) ==
    /\ pc[t] = from
    /\ killed' = cause
    /\ UNCHANGED pc

-----------------------------------------------------------------------------
(***************************************************************************)
(* Prolog.init.                                                            *)
(***************************************************************************)

\* Mutant: a failure is not remembered.
InitUnlessYes(t) ==
    /\ result # "yes"
    /\ Goto(t, "idle", "boot")
    /\ overlapped' = (overlapped \/ \E u \in Starters : u # t /\ Busy(u))
    /\ UNCHANGED <<result, jpl_status, pvm_dia, initialised, main, defaultEngine,
                   whole, opener, spoiled, program, killed>>

\* Mutant: the field is not looked at.
InitAlways(t) ==
    /\ Goto(t, "idle", "boot")
    /\ overlapped' = (overlapped \/ \E u \in Starters : u # t /\ Busy(u))
    /\ UNCHANGED <<result, jpl_status, pvm_dia, initialised, main, defaultEngine,
                   whole, opener, spoiled, program, killed>>

\* init() returns at once when the result is known.
InitStarts(t) ==
    /\ result = "unset"
    /\ Goto(t, "idle", "boot")
    /\ overlapped' = (overlapped \/ \E u \in Starters : u # t /\ Busy(u))
    /\ UNCHANGED <<result, jpl_status, pvm_dia, initialised, main, defaultEngine,
                   whole, opener, spoiled, program, killed>>

\* System.loadLibrary finds no library, in init() or in JPL; once JPL is there,
\* so are the libraries.  It throws an Error, which nobody catches.
LibraryMissing(t) ==
    /\ StartMayFail /\ jpl_status = "RAW"
    /\ \E s \in {"boot", "args"} : Die(t, s, "failed")
    /\ UNCHANGED <<result, jpl_status, pvm_dia, initialised, main, defaultEngine,
                   whole, opener, spoiled, program, overlapped>>

\* The result is stored, whatever it was.
StoreResult(t) ==
    /\ \E r \in {"yes", "no"} : Goto(t, r, "idle") /\ result' = r
    /\ UNCHANGED <<jpl_status, pvm_dia, initialised, main, defaultEngine, whole,
                   opener, spoiled, program, killed, overlapped>>

-----------------------------------------------------------------------------
(***************************************************************************)
(* extractResourceToContextDir: the file is truncated and written anew,    *)
(* whether or not it is there.                                             *)
(***************************************************************************)

Reading(t, f) == pc[t] = IF f = "boot" THEN "inside" ELSE "loading"

\* Mutant: a file that is there already is not extracted again.
OpenUnlessThere(t, f, from, to) ==
    /\ Goto(t, from, IF f = "boot" THEN "args" ELSE "load")
    /\ UNCHANGED <<result, jpl_status, pvm_dia, initialised, main, defaultEngine,
                   whole, opener, spoiled, program, killed, overlapped>>

OpenFile(t, f, from, to) ==
    /\ Goto(t, from, to)
    /\ whole' = [whole EXCEPT ![f] = FALSE]
    /\ opener' = [opener EXCEPT ![f] = t]
    /\ spoiled' = spoiled \cup {u \in Starters : Reading(u, f)}
    /\ UNCHANGED <<result, jpl_status, pvm_dia, initialised, main, defaultEngine,
                   program, killed, overlapped>>

\* The last thread to truncate the file writes all of it.  What another had
\* written before is lost, so of its end nothing can be said.
WriteFile(t, f, from, to) ==
    /\ Goto(t, from, to)
    /\ \E w \in BOOLEAN :
          /\ whole[f] \/ opener[f] = t => w
          /\ whole' = [whole EXCEPT ![f] = w]
    /\ UNCHANGED <<result, jpl_status, pvm_dia, initialised, main, defaultEngine,
                   opener, spoiled, program, killed, overlapped>>

\* An IOException, on opening or on writing.
FileFails(t) ==
    /\ \E s \in {"boot", "writeBoot", "pl", "writePl"} : Goto(t, s, "no")
    /\ UNCHANGED <<result, jpl_status, pvm_dia, initialised, main, defaultEngine,
                   whole, opener, spoiled, program, killed, overlapped>>

BeginReading(t, f) ==
    spoiled' = IF whole[f] THEN spoiled \ {t} ELSE spoiled \cup {t}

-----------------------------------------------------------------------------
(***************************************************************************)
(* JPL.getDefaultInitArgs and JPL.init.                                    *)
(***************************************************************************)

\* jpl_do_jpl_init, which only the first call gets to.
EnsureJplInit(t) ==
    /\ \/ /\ Goto(t, "args", "testArgs")
          /\ IF jpl_status = "RAW" THEN jpl_status' = "PVM_MAYBE" /\ pvm_dia' = "defaults"
                                   ELSE UNCHANGED <<jpl_status, pvm_dia>>
          /\ UNCHANGED killed
       \/ /\ StartMayFail /\ jpl_status = "RAW"
          /\ Die(t, "args", "failed")
          /\ jpl_status' = "JPL_FAILED"
          /\ UNCHANGED pvm_dia
    /\ UNCHANGED <<result, initialised, main, defaultEngine, whole, opener,
                   spoiled, program, overlapped>>

\* jpl_post_pvm_init.  The pool gets the engine of the calling thread, which has
\* one only when it was the one to start the Prolog system.
PostPvmInit(t) ==
    /\ pvm_dia' = "null"
    /\ defaultEngine' = IF t \in main THEN t ELSE NoThread
    /\ jpl_status' = "OK"

\* jpl_test_pvm_init has to finish what another thread began.
MustPost == jpl_status = "PVM_MAYBE" /\ initialised

\* jpl_test_pvm_init gives TRUE; it may have to finish what another thread began.
TestsTrue(t) ==
    \/ jpl_status = "OK" /\ UNCHANGED <<jpl_status, pvm_dia, defaultEngine>>
    \/ MustPost /\ PostPvmInit(t)

TestsFalse ==
    /\ jpl_status = "PVM_MAYBE" /\ ~initialised
    /\ UNCHANGED <<jpl_status, pvm_dia, defaultEngine>>

\* get_default_init_args: makeArgs cannot take the null that an initialised
\* Prolog system gives it.
TestArgs(t) ==
    /\ \/ TestsTrue(t) /\ Die(t, "testArgs", "nullArgs")
       \/ TestsFalse /\ Goto(t, "testArgs", "readArgs") /\ UNCHANGED killed
    /\ UNCHANGED <<result, initialised, main, whole, opener, spoiled, program, overlapped>>

ReadArgs(t) ==
    /\ \/ pvm_dia = "null" /\ Die(t, "readArgs", "nullArgs")
       \/ pvm_dia # "null" /\ Goto(t, "readArgs", "setArgs") /\ UNCHANGED killed
    /\ UNCHANGED <<result, jpl_status, pvm_dia, initialised, main, defaultEngine,
                   whole, opener, spoiled, program, overlapped>>

\* set_default_init_args: when it gives false, JPL.init gives false, and
\* initProlog does not mind.
SetArgs(t) ==
    /\ \/ TestsTrue(t) /\ Goto(t, "setArgs", "pl")
       \/ TestsFalse /\ Goto(t, "setArgs", "clearArgs")
    /\ UNCHANGED <<result, initialised, main, whole, opener, spoiled, program,
                   killed, overlapped>>

ClearArgs(t) ==
    /\ Goto(t, "clearArgs", "storeArgs")
    /\ pvm_dia' = "null"
    /\ UNCHANGED <<result, jpl_status, initialised, main, defaultEngine, whole,
                   opener, spoiled, program, killed, overlapped>>

StoreArgs(t) ==
    /\ Goto(t, "storeArgs", "initialise")
    /\ pvm_dia' = "boot"
    /\ UNCHANGED <<result, jpl_status, initialised, main, defaultEngine, whole,
                   opener, spoiled, program, killed, overlapped>>

\* Mutant: a thread that finds another inside PL_initialise leaves it to that one.
InitialiseElsewhere(t) ==
    /\ \/ TestsTrue(t) /\ Goto(t, "initialise", "pl")
       \/ TestsFalse /\ Goto(t, "initialise",
                             IF \E u \in Starters : pc[u] = "inside" THEN "pl" ELSE "doInit")
    /\ UNCHANGED <<result, initialised, main, whole, opener, spoiled, program,
                   killed, overlapped>>

Initialise(t) ==
    /\ \/ TestsTrue(t) /\ Goto(t, "initialise", "pl")
       \/ TestsFalse /\ Goto(t, "initialise", "doInit")
    /\ UNCHANGED <<result, initialised, main, whole, opener, spoiled, program,
                   killed, overlapped>>

\* jpl_do_pvm_init: the tests, and the entry of PL_initialise, which returns at
\* once when the system is initialised.
DoPvmInit(t) ==
    /\ IF jpl_status # "PVM_MAYBE" \/ pvm_dia = "null"
       THEN /\ Die(t, "doInit", "failed")
            /\ jpl_status' = "PVM_FAILED"
            /\ UNCHANGED spoiled
       ELSE /\ Goto(t, "doInit", IF initialised THEN "post" ELSE "inside")
            /\ BeginReading(t, "boot")
            /\ UNCHANGED <<jpl_status, killed>>
    /\ UNCHANGED <<result, pvm_dia, initialised, main, defaultEngine, whole,
                   opener, program, overlapped>>

\* PL_initialise has loaded the boot file.
PlSucceeds(t) ==
    /\ Goto(t, "inside", "post")
    /\ initialised' = TRUE
    /\ main' = main \cup {t}
    /\ UNCHANGED <<result, jpl_status, pvm_dia, defaultEngine, whole, opener,
                   spoiled, program, killed, overlapped>>

\* It has not; or two threads that were inside have spoiled each other's work.
PlFails(t) ==
    /\ \/ StartMayFail
       \/ t \in spoiled
       \/ \E u \in Starters : u # t /\ (pc[u] = "inside" \/ u \in main)
    /\ Die(t, "inside", "failed")
    /\ jpl_status' = "PVM_FAILED"
    /\ UNCHANGED <<result, pvm_dia, initialised, main, defaultEngine, whole,
                   opener, spoiled, program, overlapped>>

\* The test of initialise() that follows finds the status OK.
Post(t) ==
    /\ Goto(t, "post", "pl")
    /\ PostPvmInit(t)
    /\ UNCHANGED <<result, initialised, main, whole, opener, spoiled, program,
                   killed, overlapped>>

\* jpl_post_pvm_init runs out of memory, wherever it is called from: it throws,
\* and the status says so.
PostPvmFails(t) ==
    /\ StartMayFail
    /\ \/ MustPost /\ \E s \in {"testArgs", "setArgs", "initialise"} : Die(t, s, "failed")
       \/ Die(t, "post", "failed")
    /\ pvm_dia' = "null"
    /\ jpl_status' = "PVM_FAILED"
    /\ UNCHANGED <<result, initialised, main, defaultEngine, whole, opener,
                   spoiled, program, overlapped>>

-----------------------------------------------------------------------------
(***************************************************************************)
(* The query of load_files, whose success nobody asks for.  Prolog lets    *)
(* one thread at a time load a file.                                       *)
(***************************************************************************)

BeginLoad(t) ==
    /\ \A u \in Starters : pc[u] # "loading"
    /\ Goto(t, "load", "loading")
    /\ BeginReading(t, "pl")
    /\ program' = "partial"
    /\ UNCHANGED <<result, jpl_status, pvm_dia, initialised, main, defaultEngine,
                   whole, opener, killed, overlapped>>

EndLoad(t) ==
    /\ Goto(t, "loading", "yes")
    /\ program' \in IF t \in spoiled THEN {"partial", "whole"} ELSE {"whole"}
    /\ UNCHANGED <<result, jpl_status, pvm_dia, initialised, main, defaultEngine,
                   whole, opener, spoiled, killed, overlapped>>

\* hasSolution() throws, on opening the query or out of load_files: no
\* IOException, so nobody catches it.
LoadFails(t) ==
    /\ StartMayFail \/ t \in spoiled
    /\ \E s \in {"load", "loading"} : Die(t, s, "notLoaded")
    /\ UNCHANGED <<result, jpl_status, pvm_dia, initialised, main, defaultEngine,
                   whole, opener, spoiled, program, overlapped>>

-----------------------------------------------------------------------------
\* The process is killed, at any time, and started again.
Restart ==
    /\ result' = "unset"
    /\ jpl_status' = "RAW" /\ pvm_dia' = "null"
    /\ initialised' = FALSE /\ main' = {} /\ defaultEngine' = NoThread
    /\ opener' = [f \in Files |-> NoThread] /\ spoiled' = {}
    /\ program' = "none"
    /\ pc' = [t \in Starters |-> "idle"]
    /\ killed' = "no" /\ overlapped' = FALSE
    /\ UNCHANGED whole

Step(t) ==
    \/ InitStarts(t) \/ LibraryMissing(t) \/ StoreResult(t) \/ FileFails(t)
    \/ OpenFile(t, "boot", "boot", "writeBoot") \/ WriteFile(t, "boot", "writeBoot", "args")
    \/ EnsureJplInit(t) \/ TestArgs(t) \/ ReadArgs(t) \/ SetArgs(t) \/ ClearArgs(t)
    \/ StoreArgs(t) \/ Initialise(t) \/ DoPvmInit(t) \/ PlSucceeds(t) \/ PlFails(t) \/ Post(t)
    \/ PostPvmFails(t)
    \/ OpenFile(t, "pl", "pl", "writePl") \/ WriteFile(t, "pl", "writePl", "load")
    \/ BeginLoad(t) \/ EndLoad(t) \/ LoadFails(t)

PrologNext ==
    \/ killed = "no" /\ \E t \in Starters : Step(t)
    \/ Restart

PrologSpec == PrologInit /\ [][PrologNext]_vars

-----------------------------------------------------------------------------
(***************************************************************************)
(* Properties.                                                             *)
(***************************************************************************)

\* What the rest of the program takes for granted when init() gave true, and
\* what is so as long as no two threads were inside it at the same time, however
\* many processes were killed in the middle of writing a file: Prolog runs, the
\* thread that started it owns the default engine, and the program is loaded.
ReadyToSearch ==
    ~overlapped /\ result = "yes" =>
        /\ jpl_status = "OK" /\ initialised
        /\ program = "whole"
        /\ main = {defaultEngine}

\* Even when threads overlap, init() gives true only when the Prolog system is
\* there: a thread that another overtakes does not report success too early.
YesMeansProlog == result = "yes" /\ killed = "no" => jpl_status = "OK" /\ initialised

\* What a step that failed by itself leaves: JPL without its classes, Prolog not
\* started or its engines not there; or all of that in order and the program not
\* loaded.
OwnFailure ==
    /\ killed = "failed" => jpl_status \notin {"PVM_MAYBE", "OK"}
    /\ killed = "notLoaded" => jpl_status = "OK" /\ initialised /\ main = {defaultEngine}

\* A thread that is alone kills the process only in the first call of init(), and
\* only where a step fails by itself: no later call finds JPL or Prolog started
\* and trips over that, and none is given null for the default arguments.
DeathNeedsOverlap ==
    ~overlapped /\ killed # "no" => result = "unset" /\ killed # "nullArgs" /\ OwnFailure

\* What init() has reported it reports until the process ends, if no two threads
\* were inside it at the same time.
ResultSettled ==
    [][~overlapped /\ result # "unset" => result' = result \/ result' = "unset"]_vars
=============================================================================
