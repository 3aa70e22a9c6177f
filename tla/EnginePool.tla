----------------------------- MODULE EnginePool -----------------------------
(***************************************************************************)
(* The pool of Prolog engines of JPL (jni/jpl.c), over the attachment of   *)
(* engines to threads of the Prolog system (jni/pl-thread.c).              *)
(*                                                                         *)
(* A thread without an engine takes one of the pool: under engines_mutex   *)
(* it tries the engines one by one, creates another one if all it saw were *)
(* in use and a slot is empty, and otherwise waits for engines_cond.  A    *)
(* thread that releases its engine does so WITHOUT the mutex, so between   *)
(* any two tries of the other.  Attaching and detaching are atomic: they   *)
(* happen under the lock of PL_set_engine.                                 *)
(*                                                                         *)
(* The model begins after create_pool_engines: the thread that initialised *)
(* Prolog is attached to the default engine, which is in slot 0.           *)
(***************************************************************************)
EXTENDS Integers

CONSTANTS
    Threads,        \* the threads that use the pool
    Aborters,       \* those of them that Query.abort starts
    FirstThread,    \* the one that initialised Prolog
    NoThread,       \* the owner of an engine that is not attached
    MaxEngines,     \* JPL_MAX_POOL_ENGINES: 10 in the code
    CreateMayFail   \* whether PL_create_engine may run out of resources

ASSUME ThreadsAssumption ==
    /\ FirstThread \in Threads /\ NoThread \notin Threads
    /\ Aborters \subseteq Threads \ {FirstThread}
ASSUME MaxEnginesAssumption == MaxEngines \in Nat \ {0}
ASSUME CreateAssumption == CreateMayFail \in BOOLEAN

Slots == 0 .. MaxEngines - 1
NoEngine == -1

VARIABLES
    created,    \* the slots of `engines' that are not NULL
    owner,      \* has_tid and tid of the engine in each slot
    attached,   \* the engine in the thread local data of each thread
    mutex,      \* the holder of engines_mutex
    waiting,    \* the threads that wait for engines_cond
    slot,       \* the loop variable i of a thread in attach_pool_engine
    pc          \* where each thread is

poolVars == <<created, owner, attached, mutex, waiting, slot, pc>>

\* A thread is outside of the pool's functions, in attach_pool_engine before or
\* after it has the mutex or waiting for the condition, in release_pool_engine
\* before the signal, or has ended.
Places == {"outside", "lock", "scan", "wait", "signal", "ended"}

TypeOK ==
    /\ created \subseteq Slots
    /\ owner \in [Slots -> Threads \cup {NoThread}]
    /\ attached \in [Threads -> Slots \cup {NoEngine}]
    /\ mutex \in Threads \cup {NoThread}
    /\ waiting \subseteq Threads
    /\ slot \in [Threads -> 0 .. MaxEngines]
    /\ pc \in [Threads -> Places]

Init ==
    /\ created = {0}
    /\ owner = [e \in Slots |-> IF e = 0 THEN FirstThread ELSE NoThread]
    /\ attached = [t \in Threads |-> IF t = FirstThread THEN 0 ELSE NoEngine]
    /\ mutex = NoThread
    /\ waiting = {}
    /\ slot = [t \in Threads |-> 0]
    /\ pc = [t \in Threads |-> "outside"]

Goto(t, from, to) == pc[t] = from /\ pc' = [pc EXCEPT ![t] = to]

-----------------------------------------------------------------------------
(***************************************************************************)
(* PL_set_engine for a thread without an engine, and for none.             *)
(***************************************************************************)

InUse(e) == owner[e] # NoThread

SetEngine(t, e) ==
    /\ owner' = [owner EXCEPT ![e] = t]
    /\ attached' = [attached EXCEPT ![t] = e]

Detach(t) ==
    /\ owner' = [owner EXCEPT ![attached[t]] = NoThread]
    /\ attached' = [attached EXCEPT ![t] = NoEngine]

-----------------------------------------------------------------------------
(***************************************************************************)
(* attach_pool_engine.  Query.open calls it only for a thread to which no  *)
(* engine is attached.                                                     *)
(***************************************************************************)

AttachPoolEngine(t) ==
    /\ t \notin Aborters /\ attached[t] = NoEngine
    /\ Goto(t, "outside", "lock")
    /\ UNCHANGED <<created, owner, attached, mutex, waiting, slot>>

Lock(t) ==
    /\ mutex = NoThread
    /\ Goto(t, "lock", "scan")
    /\ mutex' = t
    /\ slot' = [slot EXCEPT ![t] = 0]
    /\ UNCHANGED <<created, owner, attached, waiting>>

SkipEngine(t) ==
    /\ Goto(t, "scan", "scan")
    /\ slot[t] \in Slots
    /\ slot[t] \notin created \/ InUse(slot[t])
    /\ slot' = [slot EXCEPT ![t] = @ + 1]
    /\ UNCHANGED <<created, owner, attached, mutex, waiting>>

\* Mutant: an engine is taken without a look at its owner.
TakeEngineInUse(t) ==
    /\ Goto(t, "scan", "outside")
    /\ slot[t] \in created
    /\ SetEngine(t, slot[t])
    /\ mutex' = NoThread
    /\ UNCHANGED <<created, waiting, slot>>

TakeEngine(t) ==
    /\ Goto(t, "scan", "outside")
    /\ slot[t] \in created /\ ~InUse(slot[t])
    /\ SetEngine(t, slot[t])
    /\ mutex' = NoThread
    /\ UNCHANGED <<created, waiting, slot>>

ScannedAll(t) == pc[t] = "scan" /\ slot[t] = MaxEngines

\* Mutant: the new engine is not entered into the pool.
CreateEngineForgotten(t) ==
    /\ ScannedAll(t) /\ created # Slots
    /\ slot' = [slot EXCEPT ![t] = 0]
    /\ UNCHANGED <<created, owner, attached, mutex, waiting, pc>>

\* The new engine goes to the first empty slot; the thread tries all again.
CreateEngine(t) ==
    /\ ScannedAll(t)
    /\ \E e \in Slots \ created :
          /\ \A x \in Slots \ created : e <= x
          /\ created' = created \cup {e}
    /\ slot' = [slot EXCEPT ![t] = 0]
    /\ UNCHANGED <<owner, attached, mutex, waiting, pc>>

\* attach_pool_engine returns NULL, and leaves the mutex locked.
CreateFails(t) ==
    /\ CreateMayFail
    /\ ScannedAll(t) /\ created # Slots
    /\ pc' = [pc EXCEPT ![t] = "outside"]
    /\ UNCHANGED <<created, owner, attached, mutex, waiting, slot>>

Wait(t) ==
    /\ ScannedAll(t) /\ created = Slots
    /\ pc' = [pc EXCEPT ![t] = "wait"]
    /\ waiting' = waiting \cup {t}
    /\ mutex' = NoThread
    /\ UNCHANGED <<created, owner, attached, slot>>

\* pthread_cond_wait may return without a signal.
SpuriousWakeup(t) ==
    /\ Goto(t, "wait", "lock")
    /\ waiting' = waiting \ {t}
    /\ UNCHANGED <<created, owner, attached, mutex, slot>>

-----------------------------------------------------------------------------
(***************************************************************************)
(* release_pool_engine: the engine of slot 0 is not given back.            *)
(***************************************************************************)

\* Mutant: the default engine is given back too.
ReleaseAnyEngine(t) ==
    /\ t \notin Aborters /\ attached[t] >= 0
    /\ Goto(t, "outside", "signal")
    /\ Detach(t)
    /\ UNCHANGED <<created, mutex, waiting, slot>>

ReleasePoolEngine(t) ==
    /\ t \notin Aborters /\ attached[t] > 0
    /\ Goto(t, "outside", "signal")
    /\ Detach(t)
    /\ UNCHANGED <<created, mutex, waiting, slot>>

Signal(t) ==
    /\ pc[t] = "signal"
    /\ IF waiting = {} THEN /\ pc' = [pc EXCEPT ![t] = "outside"]
                            /\ UNCHANGED waiting
       ELSE \E w \in waiting :
               /\ pc' = [pc EXCEPT ![t] = "outside", ![w] = "lock"]
               /\ waiting' = waiting \ {w}
    /\ UNCHANGED <<created, owner, attached, mutex, slot>>

-----------------------------------------------------------------------------
\* attach_engine, which the thread of Query.abort calls once: it fails on an
\* engine that is in use.
AttachEngine(t, e) ==
    /\ t \in Aborters /\ pc[t] = "outside" /\ attached[t] = NoEngine
    /\ e \in created /\ ~InUse(e)
    /\ SetEngine(t, e)
    /\ UNCHANGED <<created, mutex, waiting, slot, pc>>

\* A thread ends.  Nothing detaches its engine: the thread local data of the
\* Prolog system has no destructor.
EndThread(t) ==
    /\ Goto(t, "outside", "ended")
    /\ UNCHANGED <<created, owner, attached, mutex, waiting, slot>>

PoolStep(t) ==
    \/ Lock(t) \/ SkipEngine(t) \/ TakeEngine(t) \/ CreateEngine(t)
    \/ CreateFails(t) \/ Wait(t) \/ Signal(t)

Next ==
    \E t \in Threads :
        \/ AttachPoolEngine(t) \/ ReleasePoolEngine(t) \/ EndThread(t)
        \/ \E e \in Slots : AttachEngine(t, e)
        \/ PoolStep(t) \/ SpuriousWakeup(t)

Spec == Init /\ [][Next]_poolVars

-----------------------------------------------------------------------------
(***************************************************************************)
(* Properties.                                                             *)
(***************************************************************************)

\* The pool's view of an engine and the thread's view of it agree, so no engine
\* is attached to two threads: not even when engines are released while another
\* thread is between its tries, or attached outside of the pool's mutex.
ExclusiveEngine ==
    \A t \in Threads, e \in Slots :
        /\ attached[t] = e <=> owner[e] = t
        /\ owner[e] = t => e \in created

\* The default engine stays with the thread that initialised Prolog for ever,
\* whether or not that thread still runs: release_pool_engine spares slot 0.
FirstEngineKept == owner[0] = FirstThread

\* The pool does what ResourcePool promises.
Resource == INSTANCE ResourcePool WITH Engines <- Slots, holder <- owner
PoolIsResourcePool == Resource!Spec

\* release_pool_engine says that it signals the condition because threads may be
\* waiting for an engine: no thread waits beside a free engine, unless some
\* thread is still to signal or to scan the pool.
NoWaiterForgotten ==
    waiting # {} /\ (\E e \in created : ~InUse(e)) =>
        \E t \in Threads : pc[t] \in {"signal", "lock", "scan"}
=============================================================================
